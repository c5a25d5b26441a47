------------------------- MODULE FileChecksumProofs -------------------------
(***************************************************************************)
(* What FileChecksum checks on small files, for files and buffers of every *)
(* size: the variables keep their types, the CRC is never fed a byte of    *)
(* the buffer that no read has filled, a file nobody rewrites is summed    *)
(* whole, and the result is the CRC-32 of the bytes that were fed.         *)
(***************************************************************************)
EXTENDS FileChecksum, CRCProofs, TLAPS

(* The buffer is never larger than a file that has bytes, so the first     *)
(* read fills all of it.                                                   *)
LEMMA BufferSizeRange ==
    ASSUME NEW n \in Nat
    PROVE  /\ BufferSize(n) \in Nat \ {0}
           /\ n > 0 => BufferSize(n) <= n
<1>1. DFS_BUFFERSIZE \in Nat \ {0}
    BY ChecksumAssumption
<1>2. n \div 2 \in Nat /\ (n > 0 => n \div 2 <= n)
    OBVIOUS
<1> QED
    BY <1>1, <1>2 DEF BufferSize

LEMMA ChunkCountRange ==
    ASSUME NEW n \in Nat
    PROVE  /\ ChunkCount(n) \in Nat
           /\ n = 0 => ChunkCount(n) = 0
<1> DEFINE b == BufferSize(n)
<1>1. b \in Nat \ {0}
    BY BufferSizeRange
<1> HIDE DEF b
<1>2. n \div b \in Nat /\ n % b \in Nat
    BY <1>1
<1>3. n = 0 => n \div b = 0 /\ n % b = 0
    BY <1>1
<1>4. ChunkCount(n) = n \div b + (IF n % b = 0 THEN 0 ELSE 1)
    BY DEF ChunkCount, b
<1> QED
    BY <1>2, <1>3, <1>4

LEMMA FilesAreSequences ==
    ASSUME NEW f \in Inputs
    PROVE  /\ f \in Seq(Bytes)
           /\ Len(f) \in 0 .. MaxSize
<1>1. PICK n \in 0 .. MaxSize : f \in [1 .. n -> Bytes]
    BY DEF Inputs
<1>2. n \in Nat /\ n <= MaxSize
    BY ChecksumAssumption
<1>3. f \in Seq(Bytes)
    BY <1>1, <1>2
<1>4. Len(f) = n
    BY <1>1, <1>2, <1>3
<1> QED
    BY <1>2, <1>3, <1>4

----------------------------------------------------------------------------
(* How far the loop has come: nothing is fed before the first read, and    *)
(* from then on the buffer holds bytes of the file only, because the first *)
(* read filled it.                                                         *)
Progress ==
    /\ pc = "lstat" \/ pc = "open" => chunk_sequence = 0
    /\ pc = "open" \/ pc = "read" => Len(buffer) = BufferSize(file_size)
    /\ pc = "read" => file # Absent
    /\ chunk_sequence = 0 => current_position = 0
    /\ chunk_sequence > 0 => buffer \in Seq(Bytes)

IInv == TypeOK /\ Progress /\ NoGarbageFed

LEMMA IInvInit == Init => IInv
<1> SUFFICES ASSUME Init PROVE IInv
    OBVIOUS
<1>1. 0 \in 0 .. MaxSize /\ 0 \in 0 .. ChunkCount(0)
    BY ChecksumAssumption, ChunkCountRange
<1>2. TypeOK
    <2>1. <<>> \in Seq(Bytes \cup {Garbage}) /\ 0 \in 0 .. 0
        OBVIOUS
    <2> QED
        BY <1>1, <2>1 DEF Init, TypeOK
<1>3. Progress
    BY DEF Init, Progress
<1>4. NoGarbageFed
    BY DEF Init, NoGarbageFed
<1> QED
    BY <1>2, <1>3, <1>4 DEF IInv

LEMMA IInvLstat == IInv /\ Lstat => IInv'
<1> SUFFICES ASSUME IInv, Lstat PROVE IInv'
    OBVIOUS
<1> USE DEF IInv, TypeOK, Progress, NoGarbageFed, Lstat
<1>1. CASE file = Absent
    BY <1>1
<1>2. CASE file # Absent
    <2>1. Len(file) \in 0 .. MaxSize /\ Len(file) \in Nat
        BY <1>2, FilesAreSequences, ChecksumAssumption
    <2>2. BufferSize(Len(file)) \in Nat \ {0} /\ ChunkCount(Len(file)) \in Nat
        BY <2>1, BufferSizeRange, ChunkCountRange
    <2>3. /\ buffer' \in Seq(Bytes \cup {Garbage})
          /\ Len(buffer') = BufferSize(Len(file))
        BY <1>2, <2>2
    <2>4. /\ pc' = "open" /\ file' = file /\ changed' = changed /\ fed' = fed
          /\ file_size' = Len(file) /\ chunk_sequence' = 0 /\ current_position' = 0
        BY <1>2
    <2>5. chunk_sequence' \in 0 .. ChunkCount(file_size') /\ current_position' \in 0 .. file_size'
        BY <2>1, <2>2, <2>4
    <2>6. file_size' \in 0 .. MaxSize
        BY <2>1, <2>4
    <2> QED
        BY <2>3, <2>4, <2>5, <2>6
<1> QED
    BY <1>1, <1>2

LEMMA IInvOpen == IInv /\ Open => IInv'
BY DEF IInv, TypeOK, Progress, NoGarbageFed, Open

(* One round of the loop.  What it reads is the file's; what it leaves of  *)
(* the chunk before was the file's, too, unless this is the first chunk,   *)
(* and that one fills the buffer.                                          *)
LEMMA IInvRead == IInv /\ Read => IInv'
<1> SUFFICES ASSUME IInv, Read PROVE IInv'
    OBVIOUS
<1> DEFINE b == Len(buffer)
           read_size == Smaller(file_size - current_position, b)
<1> USE DEF IInv
<1>1. /\ pc = "read" /\ chunk_sequence # ChunkCount(file_size)
      /\ file' = file /\ changed' = changed /\ file_size' = file_size
    BY DEF Read
<1>2. /\ file_size \in Nat /\ b \in Nat \ {0} /\ b = BufferSize(file_size)
      /\ chunk_sequence \in Nat /\ current_position \in 0 .. file_size
      /\ ChunkCount(file_size) \in Nat /\ chunk_sequence < ChunkCount(file_size)
    <2>1. file_size \in Nat
        BY ChecksumAssumption DEF TypeOK
    <2>2. ChunkCount(file_size) \in Nat /\ BufferSize(file_size) \in Nat \ {0}
        BY <2>1, BufferSizeRange, ChunkCountRange
    <2>3. chunk_sequence \in 0 .. ChunkCount(file_size) /\ current_position \in 0 .. file_size
        BY DEF TypeOK
    <2>4. b = BufferSize(file_size)
        BY <1>1 DEF Progress
    <2>5. chunk_sequence \in Nat /\ chunk_sequence < ChunkCount(file_size)
        BY <1>1, <2>2, <2>3
    <2> QED
        BY <2>1, <2>2, <2>3, <2>4, <2>5
<1>3. /\ file \in Seq(Bytes) /\ file # Absent
    BY <1>1, FilesAreSequences DEF TypeOK, Progress
<1>4. /\ read_size \in 0 .. b
      /\ current_position + read_size \in 0 .. file_size
    BY <1>2 DEF Smaller
<1>5. chunk_sequence = 0 => read_size = b
    <2>1. SUFFICES ASSUME chunk_sequence = 0 PROVE read_size = b
        OBVIOUS
    <2>2. file_size > 0
        BY <1>2, <2>1, ChunkCountRange
    <2>3. b <= file_size
        BY <1>2, <2>2, BufferSizeRange
    <2>4. current_position = 0
        BY <2>1 DEF Progress
    <2> QED
        BY <1>2, <2>3, <2>4 DEF Smaller
<1>6. CASE current_position + read_size <= Len(file)
    <2>1. /\ buffer' = [i \in 1 .. b |->
                          IF i <= read_size THEN file[current_position + i] ELSE buffer[i]]
          /\ fed' = fed \o buffer'
          /\ chunk_sequence' = chunk_sequence + 1
          /\ current_position' = current_position + read_size
          /\ pc' = pc
        BY <1>6 DEF Read
    <2> HIDE DEF read_size
    <2>2. ASSUME NEW i \in 1 .. b
          PROVE  (IF i <= read_size THEN file[current_position + i] ELSE buffer[i]) \in Bytes
        <3>1. CASE i <= read_size
            <4>1. current_position + i \in 1 .. Len(file)
                BY <1>2, <1>3, <1>4, <1>6, <3>1
            <4>2. file[current_position + i] \in Bytes
                BY <1>3, <4>1
            <4> QED
                BY <3>1, <4>2
        <3>2. CASE ~(i <= read_size)
            <4>1. chunk_sequence > 0
                BY <1>2, <1>5, <3>2
            <4>2. buffer \in Seq(Bytes)
                BY <4>1 DEF Progress
            <4> QED
                BY <3>2, <4>2
        <3> QED
            BY <3>1, <3>2
    <2>3. buffer' \in [1 .. b -> Bytes]
        BY <2>1, <2>2
    <2>4. buffer' \in Seq(Bytes) /\ Len(buffer') = b
        BY <1>2, <2>3
    <2>5. fed' \in Seq(Bytes)
        BY <2>1, <2>4 DEF NoGarbageFed
    <2>6. buffer' \in Seq(Bytes \cup {Garbage}) /\ fed' \in Seq(Bytes \cup {Garbage})
        BY <2>4, <2>5
    <2>7. /\ chunk_sequence' \in 0 .. ChunkCount(file_size') /\ chunk_sequence' > 0
          /\ current_position' \in 0 .. file_size'
        BY <1>1, <1>2, <1>4, <2>1
    <2>8. TypeOK'
        BY <1>1, <2>1, <2>6, <2>7 DEF TypeOK
    <2>9. Progress'
        BY <1>1, <1>2, <1>3, <2>1, <2>4, <2>7 DEF Progress
    <2> QED
        BY <2>5, <2>8, <2>9 DEF NoGarbageFed
<1>7. CASE ~(current_position + read_size <= Len(file))
    <2>1. /\ pc' = "done"
          /\ UNCHANGED <<buffer, fed, chunk_sequence, current_position>>
        BY <1>7 DEF Read
    <2> QED
        BY <1>1, <2>1 DEF TypeOK, Progress, NoGarbageFed
<1> QED
    BY <1>6, <1>7

LEMMA IInvFinish == IInv /\ Finish => IInv'
BY DEF IInv, TypeOK, Progress, NoGarbageFed, Finish

LEMMA IInvRewrite == IInv /\ Rewrite => IInv'
BY DEF IInv, TypeOK, Progress, NoGarbageFed, Rewrite

LEMMA Inductive == IInv /\ [Next]_vars => IInv'
<1> SUFFICES ASSUME IInv, [Next]_vars PROVE IInv'
    OBVIOUS
<1>1. CASE Lstat
    BY <1>1, IInvLstat
<1>2. CASE Open
    BY <1>2, IInvOpen
<1>3. CASE Read
    BY <1>3, IInvRead
<1>4. CASE Finish
    BY <1>4, IInvFinish
<1>5. CASE Rewrite
    BY <1>5, IInvRewrite
<1>6. CASE UNCHANGED vars
    BY <1>6 DEF vars, IInv, TypeOK, Progress, NoGarbageFed
<1> QED
    BY <1>1, <1>2, <1>3, <1>4, <1>5, <1>6 DEF Next, Step

(* The variables keep their types, whatever the sizes.                     *)
THEOREM TypeCorrect == Spec => []TypeOK
<1>1. IInv => TypeOK
    BY DEF IInv
<1> QED
    BY <1>1, IInvInit, Inductive, PTL DEF Spec

(* The result depends on file contents only: no byte of the buffer that no *)
(* read has filled is ever fed to the CRC, whatever the size of the file,  *)
(* however it is rewritten meanwhile.                                      *)
THEOREM NothingUnreadIsSummed == Spec => []NoGarbageFed
<1>1. IInv => NoGarbageFed
    BY DEF IInv
<1> QED
    BY <1>1, IInvInit, Inductive, PTL DEF Spec

----------------------------------------------------------------------------
(* Sequences and chunks.                                                   *)
LEMMA SubSeqFacts ==
    ASSUME NEW S, NEW s \in Seq(S), NEW k \in Nat, NEW m \in Nat, k <= m, m <= Len(s)
    PROVE  /\ SubSeq(s, k + 1, m) \in Seq(S)
           /\ Len(SubSeq(s, k + 1, m)) = m - k
           /\ \A i \in 1 .. m - k : SubSeq(s, k + 1, m)[i] = s[k + i]
<1>1. Len(SubSeq(s, k + 1, m)) = m - k
    OBVIOUS
<1>2. \A i \in 1 .. m - k : SubSeq(s, k + 1, m)[i] = s[k + i]
    OBVIOUS
<1>3. \A i \in 1 .. m - k : k + i \in 1 .. Len(s)
    OBVIOUS
<1>4. SubSeq(s, k + 1, m) \in Seq(S)
    OBVIOUS
<1> QED
    BY <1>1, <1>2, <1>4

LEMMA SameSeq ==
    ASSUME NEW S, NEW s \in Seq(S), NEW t \in Seq(S), Len(s) = Len(t),
           \A i \in 1 .. Len(s) : s[i] = t[i]
    PROVE  s = t
OBVIOUS

LEMMA ConcatIs ==
    ASSUME NEW S, NEW x \in Seq(S), NEW y \in Seq(S), NEW z \in Seq(S),
           Len(z) = Len(x) + Len(y),
           \A i \in 1 .. Len(x) : z[i] = x[i],
           \A i \in 1 .. Len(y) : z[Len(x) + i] = y[i]
    PROVE  x \o y = z
<1>1. x \o y \in Seq(S) /\ Len(x \o y) = Len(x) + Len(y)
    OBVIOUS
<1>2. ASSUME NEW i \in 1 .. Len(x) + Len(y) PROVE (x \o y)[i] = z[i]
    <2>1. CASE i <= Len(x)
        BY <2>1
    <2>2. CASE ~(i <= Len(x))
        <3>1. (x \o y)[i] = y[i - Len(x)]
            BY <2>2
        <3>2. i - Len(x) \in 1 .. Len(y) /\ Len(x) + (i - Len(x)) = i
            BY <2>2
        <3>3. z[Len(x) + (i - Len(x))] = y[i - Len(x)]
            BY <3>2
        <3> QED
            BY <3>1, <3>2, <3>3
    <2> QED
        BY <2>1, <2>2
<1> QED
    BY <1>1, <1>2, SameSeq

LEMMA SubSeqSplit ==
    ASSUME NEW S, NEW s \in Seq(S), NEW k \in Nat, NEW m \in Nat, k <= m, m <= Len(s)
    PROVE  SubSeq(s, 1, k) \o SubSeq(s, k + 1, m) = SubSeq(s, 1, m)
<1>1. PICK x : x = SubSeq(s, 1, k)
    OBVIOUS
<1>2. PICK y : y = SubSeq(s, k + 1, m)
    OBVIOUS
<1>3. PICK z : z = SubSeq(s, 1, m)
    OBVIOUS
<1>4. /\ x \in Seq(S) /\ Len(x) = k
      /\ \A i \in 1 .. k : x[i] = s[i]
    BY <1>1
<1>5. /\ y \in Seq(S) /\ Len(y) = m - k
      /\ \A i \in 1 .. m - k : y[i] = s[k + i]
    <2>1. /\ SubSeq(s, k + 1, m) \in Seq(S)
          /\ Len(SubSeq(s, k + 1, m)) = m - k
          /\ \A i \in 1 .. m - k : SubSeq(s, k + 1, m)[i] = s[k + i]
        BY SubSeqFacts
    <2> QED
        BY <1>2, <2>1, Zenon
<1>6. /\ z \in Seq(S) /\ Len(z) = m
      /\ \A i \in 1 .. m : z[i] = s[i]
    BY <1>3
<1>7. /\ Len(z) = Len(x) + Len(y)
      /\ \A i \in 1 .. Len(x) : z[i] = x[i]
      /\ \A i \in 1 .. Len(y) : z[Len(x) + i] = y[i]
    <2>1. k + (m - k) = m
        OBVIOUS
    <2>2. \A i \in 1 .. k : i \in 1 .. m
        OBVIOUS
    <2>3. \A i \in 1 .. m - k : k + i \in 1 .. m
        OBVIOUS
    <2>4. \A i \in 1 .. k : z[i] = x[i]
        BY <1>4, <1>6, <2>2, Zenon
    <2>5. \A i \in 1 .. m - k : z[k + i] = y[i]
        BY <1>5, <1>6, <2>3, Zenon
    <2> QED
        BY <1>4, <1>5, <1>6, <2>1, <2>4, <2>5, Zenon
<1>8. x \o y = z
    BY <1>4, <1>5, <1>6, <1>7, ConcatIs
<1> QED
    BY <1>1, <1>2, <1>3, <1>8

LEMMA Products ==
    ASSUME NEW m \in Nat, NEW n \in Nat, NEW b \in Nat, m <= n
    PROVE  /\ m * b \in Nat /\ m * b <= n * b
           /\ (m + 1) * b = m * b + b
<1>1. PICK d \in Nat : n = m + d
    <2>1. n - m \in Nat /\ n = m + (n - m)
        OBVIOUS
    <2> QED
        BY <2>1
<1>2. m * b \in Nat /\ d * b \in Nat
    OBVIOUS
<1>3. (m + d) * b = m * b + d * b
    OBVIOUS
<1>4. (m + 1) * b = m * b + b
    OBVIOUS
<1>5. n * b = m * b + d * b
    BY <1>1, <1>3
<1> QED
    BY <1>2, <1>4, <1>5

LEMMA Division ==
    ASSUME NEW n \in Nat, NEW b \in Nat \ {0}
    PROVE  /\ n \div b \in Nat /\ n % b \in 0 .. b - 1
           /\ n = (n \div b) * b + (n % b)
OBVIOUS

(* Chunks and whole buffers: a loop that has not read all the chunks of a  *)
(* file has not come to its end, one that has, has, and what remains for   *)
(* the last of them is the rest of the division.                           *)
LEMMA ChunkArithmetic ==
    ASSUME NEW n \in Nat, NEW c \in Nat
    PROVE  LET b == BufferSize(n) IN
           /\ c < ChunkCount(n) => c * b < n
           /\ c = ChunkCount(n) /\ c * b <= n => n % b = 0 /\ c * b = n
           /\ c * b < n /\ n < c * b + b => n % b = n - c * b
<1> DEFINE b == BufferSize(n)
           q == n \div b
           r == n % b
<1>1. b \in Nat \ {0}
    BY BufferSizeRange
<1>2. ChunkCount(n) = q + (IF r = 0 THEN 0 ELSE 1)
    BY DEF ChunkCount
<1> HIDE DEF b
<1>3. q \in Nat /\ r \in 0 .. b - 1 /\ n = q * b + r
    BY <1>1, Division
<1> HIDE DEF q, r
<1>4. c * b \in Nat /\ q * b \in Nat
    BY <1>1, <1>3, Products
<1>5. c <= q => c * b <= q * b
    BY <1>1, <1>3, Products
<1>6. c < q => c * b + b <= q * b
    <2> SUFFICES ASSUME c < q PROVE c * b + b <= q * b
        OBVIOUS
    <2>1. c + 1 \in Nat /\ c + 1 <= q
        BY <1>3
    <2>2. (c + 1) * b <= q * b
        BY <1>1, <1>3, <2>1, Products
    <2>3. (c + 1) * b = c * b + b
        BY <1>1, Products
    <2> QED
        BY <2>2, <2>3
<1>7. q < c => q * b + b <= c * b
    <2> SUFFICES ASSUME q < c PROVE q * b + b <= c * b
        OBVIOUS
    <2>1. q + 1 \in Nat /\ q + 1 <= c
        BY <1>3
    <2>2. (q + 1) * b <= c * b
        BY <1>1, <1>3, <2>1, Products
    <2>3. (q + 1) * b = q * b + b
        BY <1>1, <1>3, Products
    <2> QED
        BY <2>2, <2>3
<1>8. ASSUME c < ChunkCount(n) PROVE c * b < n
    <2>1. CASE c < q
        BY <1>1, <1>3, <1>4, <1>6, <2>1
    <2>2. CASE ~(c < q)
        <3>1. c = q /\ r # 0
            BY <1>2, <1>3, <1>8, <2>2
        <3> QED
            BY <1>3, <1>4, <3>1
    <2> QED
        BY <2>1, <2>2
<1>9. ASSUME c = ChunkCount(n), c * b <= n PROVE r = 0 /\ c * b = n
    <2>1. r = 0
        <3> SUFFICES ASSUME r # 0 PROVE FALSE
            OBVIOUS
        <3>1. q < c
            BY <1>2, <1>3, <1>9
        <3> QED
            BY <1>1, <1>3, <1>4, <1>7, <1>9, <3>1
    <2>2. c = q
        BY <1>2, <1>3, <1>9, <2>1
    <2> QED
        BY <1>3, <1>4, <2>1, <2>2
<1>10. ASSUME c * b < n, n < c * b + b PROVE r = n - c * b
    <2>1. ~(c < q)
        BY <1>1, <1>3, <1>4, <1>6, <1>10
    <2>2. ~(q < c)
        BY <1>1, <1>3, <1>4, <1>7, <1>10
    <2>3. c = q
        BY <1>3, <2>1, <2>2
    <2> QED
        BY <1>3, <1>4, <2>3
<1> QED
    BY <1>8, <1>9, <1>10 DEF b, r

----------------------------------------------------------------------------
(* The variable crc: TableAppend, chunk after chunk, ends with the CRC of  *)
(* all the bytes fed, when they were fed in whole buffers.                 *)
FedInChunks == Len(fed) = chunk_sequence * Len(buffer)

LEMMA CRC_32IsProper == CRC_32 \in Parameters
<1>1. Bits(\h04C11DB7) \subseteq 0 .. 30
    BY DEF Bits
<1>2. 0 .. 30 \subseteq 0 .. Digits - 1
    BY WidthAssumption
<1>3. CRC_32.polynomial \in Word
    <2>1. CRC_32.polynomial = Bits(\h04C11DB7)
        BY DEF CRC_32
    <2> QED
        BY <1>1, <1>2, <2>1 DEF Word
<1>4. Ones \in Word
    BY DEF Ones, Word
<1> DEFINE poly == CRC_32.polynomial
<1>5. CRC_32 = [polynomial |-> poly, initialValue |-> Ones, finalXOR |-> Ones,
                reflectInput |-> TRUE, reflectOutput |-> TRUE]
    BY DEF CRC_32
<1> HIDE DEF poly
<1>6. poly \in Word
    BY <1>3 DEF poly
<1> QED
    BY <1>4, <1>5, <1>6 DEF Parameters

LEMMA CrcIsOfFed ==
    ASSUME fed \in Seq(Byte), chunk_sequence \in Nat, Len(buffer) \in Nat, FedInChunks
    PROVE  CrcOfFed
<1> DEFINE L == Len(buffer)
           C == chunk_sequence
           chunk(n) == SubSeq(fed, (n - 1) * Len(buffer) + 1, n * Len(buffer))
           after[n \in 0 .. chunk_sequence] ==
               IF n = 0 THEN {} ELSE TableAppend(chunk(n), CRC_32, table, after[n - 1])
           g == [n \in 0 .. C |-> Calculate(SubSeq(fed, 1, n * L), CRC_32)]
<1>1. CRCWidth = Digits /\ CRC_32 \in Parameters /\ table = Table(CRC_32)
    BY WidthAssumption, TableAssumption, CRC_32IsProper
<1>2. crc = after[chunk_sequence]
    BY DEF crc
<1>3. g[0] = {}
    <2>1. SubSeq(fed, 1, 0 * L) = <<>>
        OBVIOUS
    <2>2. g[0] = Calculate(SubSeq(fed, 1, 0 * L), CRC_32)
        OBVIOUS
    <2> HIDE DEF g
    <2> QED
        BY <1>1, <2>1, <2>2, CrcOfNothing
<1>4. ASSUME NEW n \in 1 .. C
      PROVE  g[n] = TableAppend(chunk(n), CRC_32, table, g[n - 1])
    <2>1. n - 1 \in Nat /\ n \in Nat /\ n <= C /\ n - 1 \in 0 .. C /\ n \in 0 .. C
        OBVIOUS
    <2>2. PICK k \in Nat : k = (n - 1) * L
        BY <2>1, Products
    <2>3. PICK m \in Nat : m = n * L
        BY <2>1, Products
    <2>4. m = k + L
        <3>1. ((n - 1) + 1) * L = (n - 1) * L + L
            BY <2>1, Products
        <3>2. (n - 1) + 1 = n
            BY <2>1
        <3> QED
            BY <2>2, <2>3, <3>1, <3>2
    <2>5. k <= m /\ m <= Len(fed)
        <3>1. n * L <= C * L
            BY <2>1, Products
        <3> QED
            BY <2>3, <2>4, <3>1 DEF FedInChunks
    <2>6. SubSeq(fed, 1, k) \o SubSeq(fed, k + 1, m) = SubSeq(fed, 1, m)
        BY <2>5, SubSeqSplit
    <2>7. SubSeq(fed, 1, k) \in Seq(Byte) /\ SubSeq(fed, k + 1, m) \in Seq(Byte)
        BY <2>5, SubSeqFacts
    <2>8. chunk(n) = SubSeq(fed, k + 1, m)
        BY <2>2, <2>3
    <2>9. /\ g[n - 1] = Calculate(SubSeq(fed, 1, k), CRC_32)
          /\ g[n] = Calculate(SubSeq(fed, 1, m), CRC_32)
        BY <2>1, <2>2, <2>3
    <2> HIDE DEF g, chunk
    <2>10. TableAppend(SubSeq(fed, k + 1, m), CRC_32, Table(CRC_32),
                       Calculate(SubSeq(fed, 1, k), CRC_32))
               = Calculate(SubSeq(fed, 1, k) \o SubSeq(fed, k + 1, m), CRC_32)
        BY <1>1, <2>7, AppendContinues
    <2> QED
        BY <1>1, <2>6, <2>8, <2>9, <2>10
<1>5. g = [n \in 0 .. chunk_sequence |->
              IF n = 0 THEN {} ELSE TableAppend(chunk(n), CRC_32, table, g[n - 1])]
    <2>1. \A n \in 0 .. C : n = 0 \/ n \in 1 .. C
        OBVIOUS
    <2>2. \A n \in 0 .. C :
              g[n] = IF n = 0 THEN {} ELSE TableAppend(chunk(n), CRC_32, table, g[n - 1])
        <3> HIDE DEF g, chunk
        <3> QED
            BY <1>3, <1>4, <2>1
    <2>3. g = [n \in 0 .. C |-> g[n]]
        OBVIOUS
    <2> HIDE DEF g, chunk
    <2> QED
        BY <2>2, <2>3
<1>6. after = [n \in 0 .. chunk_sequence |->
                  IF n = 0 THEN {} ELSE TableAppend(chunk(n), CRC_32, table, after[n - 1])]
    <2> HIDE DEF g
    <2> QED
        BY <1>5
<1> HIDE DEF after, g, chunk
<1>7. after[C] = g[C]
    <2> DEFINE S == {n \in Nat : n <= C => after[n] = g[n]}
    <2>1. 0 \in S
        BY <1>3, <1>6
    <2>2. ASSUME NEW n \in Nat, n \in S PROVE n + 1 \in S
        <3> SUFFICES ASSUME n + 1 <= C PROVE after[n + 1] = g[n + 1]
            OBVIOUS
        <3>1. /\ n <= C /\ n + 1 \in 0 .. C /\ n + 1 \in 1 .. C /\ (n + 1) - 1 = n
              /\ n + 1 # 0
            OBVIOUS
        <3>2. after[n] = g[n]
            BY <2>2, <3>1
        <3>3. after[n + 1] = TableAppend(chunk(n + 1), CRC_32, table, after[n])
            BY <1>6, <3>1
        <3>4. g[n + 1] = TableAppend(chunk(n + 1), CRC_32, table, g[n])
            BY <1>5, <3>1
        <3> QED
            BY <3>2, <3>3, <3>4
    <2>3. \A n \in Nat : n \in S
        <3> HIDE DEF S
        <3>1. \A n \in Nat : n \in S => n + 1 \in S
            BY <2>2
        <3> QED
            BY <2>1, <3>1, SetInduction
    <2> QED
        BY <2>3
<1>8. g[C] = Calculate(fed, CRC_32)
    <2>1. C \in 0 .. C /\ Len(fed) = C * L
        BY DEF FedInChunks
    <2>2. SubSeq(fed, 1, Len(fed)) = fed
        OBVIOUS
    <2>3. g[C] = Calculate(SubSeq(fed, 1, C * L), CRC_32)
        BY <2>1 DEF g
    <2> QED
        BY <2>1, <2>2, <2>3
<1> QED
    BY <1>2, <1>7, <1>8 DEF CrcOfFed

----------------------------------------------------------------------------
(* What has been fed of a file that nobody has rewritten: the whole chunks *)
(* read so far, the last of which is still in the buffer, until a partial  *)
(* one makes it the whole sum.                                             *)
FedSoFar ==
    LET at == chunk_sequence * Len(buffer) IN
    IF at <= file_size
    THEN /\ current_position = at
         /\ fed = SubSeq(file, 1, at)
         /\ chunk_sequence > 0 => buffer = SubSeq(file, at - Len(buffer) + 1, at)
    ELSE fed = Sum(file)

FedOfFile ==
    ~changed =>
        /\ pc \in {"open", "read"} => file # Absent /\ file_size = Len(file) /\ FedSoFar
        /\ pc = "done" /\ file # Absent => fed = Sum(file)

SumInv == IInv /\ FedInChunks /\ FedOfFile

LEMMA SumInvInit == Init => SumInv
<1> SUFFICES ASSUME Init PROVE SumInv
    OBVIOUS
<1>1. FedInChunks
    BY DEF Init, FedInChunks
<1>2. FedOfFile
    BY DEF Init, FedOfFile
<1> QED
    BY <1>1, <1>2, IInvInit DEF SumInv

LEMMA SumInvLstat == SumInv /\ Lstat => SumInv'
<1> SUFFICES ASSUME SumInv, Lstat PROVE SumInv'
    OBVIOUS
<1>1. IInv'
    BY IInvLstat DEF SumInv
<1>2. /\ chunk_sequence = 0 /\ current_position = 0 /\ fed = <<>> /\ Len(buffer) \in Nat
      /\ UNCHANGED <<file, changed, chunk_sequence, current_position, fed>>
    <2>1. chunk_sequence = 0 /\ current_position = 0 /\ Len(buffer) \in Nat /\ fed \in Seq(Bytes)
        BY DEF SumInv, IInv, TypeOK, Progress, NoGarbageFed, Lstat
    <2>2. Len(fed) = 0
        BY <2>1 DEF SumInv, FedInChunks
    <2>3. fed = <<>>
        BY <2>1, <2>2
    <2> QED
        BY <2>1, <2>3 DEF Lstat
<1>3. FedInChunks'
    <2>1. Len(buffer') \in Nat
        BY <1>1 DEF IInv, TypeOK
    <2>2. Len(fed') = 0 /\ chunk_sequence' = 0
        BY <1>2
    <2> QED
        BY <2>1, <2>2 DEF FedInChunks
<1>4. FedOfFile'
    <2>1. CASE file = Absent
        BY <1>2, <2>1 DEF FedOfFile, Lstat
    <2>2. CASE file # Absent
        <3>1. /\ pc' = "open" /\ file_size' = Len(file) /\ file' = file
            BY <2>2 DEF Lstat
        <3>2. file \in Seq(Bytes) /\ Len(file) \in Nat
            BY <2>2, FilesAreSequences DEF SumInv, IInv, TypeOK
        <3>3. SubSeq(file, 1, 0) = <<>>
            BY <3>2
        <3>4. chunk_sequence' * Len(buffer') = 0
            <4>1. Len(buffer') \in Nat
                BY <1>1 DEF IInv, TypeOK
            <4> QED
                BY <1>2, <4>1
        <3>5. FedSoFar'
            BY <1>2, <3>1, <3>2, <3>3, <3>4 DEF FedSoFar
        <3> QED
            BY <2>2, <3>1, <3>5 DEF FedOfFile
    <2> QED
        BY <2>1, <2>2
<1> QED
    BY <1>1, <1>3, <1>4 DEF SumInv

LEMMA SumInvOpen == SumInv /\ Open => SumInv'
<1> SUFFICES ASSUME SumInv, Open PROVE SumInv'
    OBVIOUS
<1>1. IInv'
    BY IInvOpen DEF SumInv
<1>2. /\ pc = "open" /\ pc' = IF file = Absent THEN "done" ELSE "read"
      /\ UNCHANGED <<file, changed, file_size, buffer, chunk_sequence, current_position, fed>>
    BY DEF Open
<1>3. FedInChunks' /\ FedSoFar' = FedSoFar
    BY <1>2 DEF SumInv, FedInChunks, FedSoFar
<1>4. FedOfFile'
    BY <1>2, <1>3 DEF SumInv, FedOfFile
<1> QED
    BY <1>1, <1>3, <1>4 DEF SumInv

LEMMA SumInvFinish == SumInv /\ Finish => SumInv'
<1> SUFFICES ASSUME SumInv, Finish PROVE SumInv'
    OBVIOUS
<1>1. IInv'
    BY IInvFinish DEF SumInv
<1>2. /\ pc = "read" /\ pc' = "done" /\ chunk_sequence = ChunkCount(file_size)
      /\ UNCHANGED <<file, changed, file_size, buffer, chunk_sequence, current_position, fed>>
    BY DEF Finish
<1>3. FedInChunks'
    BY <1>2 DEF SumInv, FedInChunks
<1>4. ASSUME ~changed PROVE fed = Sum(file)
    <2>1. file # Absent /\ file_size = Len(file) /\ FedSoFar
        BY <1>2, <1>4 DEF SumInv, FedOfFile
    <2>2. Len(buffer) = BufferSize(file_size) /\ file \in Seq(Bytes) /\ file_size \in Nat
        BY <1>2, <2>1, FilesAreSequences DEF SumInv, IInv, Progress, TypeOK
    <2>3. CASE chunk_sequence * Len(buffer) <= file_size
        <3>1. chunk_sequence \in Nat
            BY <1>2, <2>2, ChunkCountRange
        <3>2. file_size % BufferSize(file_size) = 0 /\ chunk_sequence * Len(buffer) = file_size
            BY <1>2, <2>2, <2>3, <3>1, ChunkArithmetic
        <3>3. fed = SubSeq(file, 1, Len(file))
            BY <2>1, <2>3, <3>2 DEF FedSoFar
        <3>4. SubSeq(file, 1, Len(file)) = file
            BY <2>2
        <3>5. Sum(file) = file
            BY <2>1, <3>2 DEF Sum
        <3> QED
            BY <3>3, <3>4, <3>5
    <2>4. CASE ~(chunk_sequence * Len(buffer) <= file_size)
        BY <2>1, <2>4 DEF FedSoFar
    <2> QED
        BY <2>3, <2>4
<1>5. FedOfFile'
    <2>1. Sum(file)' = Sum(file)
        BY <1>2 DEF Sum
    <2> QED
        BY <1>2, <1>4, <2>1 DEF FedOfFile
<1> QED
    BY <1>1, <1>3, <1>5 DEF SumInv

LEMMA SumInvRewrite == SumInv /\ Rewrite => SumInv'
<1> SUFFICES ASSUME SumInv, Rewrite PROVE SumInv'
    OBVIOUS
<1>1. IInv'
    BY IInvRewrite DEF SumInv
<1>2. changed' /\ UNCHANGED <<buffer, chunk_sequence, fed>>
    BY DEF Rewrite
<1>3. FedInChunks' /\ FedOfFile'
    BY <1>2 DEF SumInv, FedInChunks, FedOfFile
<1> QED
    BY <1>1, <1>3 DEF SumInv

(* The partial chunk: the bytes it leaves of the chunk before end the sum. *)
LEMMA PartialChunk ==
    ASSUME NEW f \in Seq(Bytes), NEW at \in Nat, NEW b \in Nat, b = BufferSize(Len(f)),
           at < Len(f), Len(f) < at + b, b <= at, Len(f) % b = Len(f) - at,
           NEW next \in Seq(Bytes), Len(next) = b,
           \A i \in 1 .. b : next[i] = IF i <= Len(f) - at THEN f[at + i] ELSE f[at - b + i]
    PROVE  SubSeq(f, 1, at) \o next = Sum(f)
<1> DEFINE n == Len(f)
<1>1. n \in Nat /\ n - b \in Nat /\ n - (n - at) = at /\ n - b <= at /\ at <= n
    OBVIOUS
<1>2. Sum(f) = f \o SubSeq(f, (n - b) + 1, at)
    <2>1. Sum(f) = IF n % b = 0 THEN f ELSE f \o SubSeq(f, (n - b) + 1, n - (n % b))
        BY DEF Sum
    <2>2. n % b = n - at /\ n - at # 0 /\ n - (n - at) = at
        BY <1>1
    <2> HIDE DEF n
    <2> QED
        BY <2>1, <2>2
<1>3. PICK x : x = SubSeq(f, 1, at)
    OBVIOUS
<1>4. /\ x \in Seq(Bytes) /\ Len(x) = at
      /\ \A i \in 1 .. at : x[i] = f[i]
    BY <1>1, <1>3
<1>5. PICK y : y = SubSeq(f, (n - b) + 1, at)
    OBVIOUS
<1>6. /\ y \in Seq(Bytes) /\ Len(y) = at - (n - b)
      /\ \A i \in 1 .. at - (n - b) : y[i] = f[(n - b) + i]
    <2>1. PICK k \in Nat : k = n - b
        BY <1>1
    <2>2. /\ SubSeq(f, k + 1, at) \in Seq(Bytes)
          /\ Len(SubSeq(f, k + 1, at)) = at - k
          /\ \A i \in 1 .. at - k : SubSeq(f, k + 1, at)[i] = f[k + i]
        <3>1. k <= at /\ at <= Len(f)
            BY <1>1, <2>1
        <3> QED
            BY <3>1, SubSeqFacts
    <2> QED
        BY <1>5, <2>1, <2>2, Zenon
<1>7. PICK z : z = f \o y
    OBVIOUS
<1>8. /\ z \in Seq(Bytes) /\ Len(z) = n + (at - (n - b))
      /\ \A i \in 1 .. n : z[i] = f[i]
      /\ \A i \in 1 .. at - (n - b) : z[n + i] = y[i]
    <2>1. z \in Seq(Bytes) /\ Len(z) = n + Len(y)
        <3>1. y \in Seq(Bytes)
            BY <1>6
        <3>2. f \o y \in Seq(Bytes) /\ Len(f \o y) = Len(f) + Len(y)
            BY <3>1
        <3> QED
            BY <1>7, <3>2
    <2>2. \A i \in 1 .. n : z[i] = f[i]
        BY <1>6, <1>7
    <2>3. \A i \in 1 .. Len(y) : z[n + i] = y[i]
        BY <1>6, <1>7
    <2> HIDE DEF n
    <2> QED
        BY <1>6, <2>1, <2>2, <2>3, Zenon
<1>9. Len(z) = Len(x) + Len(next)
    BY <1>1, <1>4, <1>8
<1>10. ASSUME NEW i \in 1 .. Len(x) PROVE z[i] = x[i]
    <2>1. i \in 1 .. at /\ i \in 1 .. n
        BY <1>1, <1>4
    <2> QED
        BY <1>4, <1>8, <2>1
<1>11. ASSUME NEW i \in 1 .. Len(next) PROVE z[Len(x) + i] = next[i]
    <2>1. i \in 1 .. b
        OBVIOUS
    <2>2. CASE i <= n - at
        <3>1. at + i \in 1 .. n
            BY <1>1, <2>1, <2>2
        <3>2. next[i] = f[at + i]
            BY <2>1, <2>2
        <3> QED
            BY <1>4, <1>8, <3>1, <3>2
    <2>3. CASE ~(i <= n - at)
        <3>1. PICK j \in Int : j = at + i - n
            <4>1. at + i - n \in Int
                BY <1>1, <2>1
            <4> QED
                BY <4>1, Zenon
        <3>2. /\ j \in 1 .. at - (n - b) /\ n + j = at + i
              /\ (n - b) + j = at - b + i
            BY <1>1, <2>1, <2>3, <3>1
        <3>3. next[i] = f[at - b + i]
            BY <2>1, <2>3
        <3>4. z[n + j] = y[j] /\ y[j] = f[(n - b) + j]
            BY <1>6, <1>8, <3>2
        <3> QED
            BY <1>4, <3>2, <3>3, <3>4
    <2> QED
        BY <2>2, <2>3
<1>12. x \o next = z
    BY <1>4, <1>8, <1>9, <1>10, <1>11, ConcatIs
<1> QED
    BY <1>2, <1>3, <1>5, <1>7, <1>12

(* A round of the loop over a file that nobody has rewritten: a chunk that *)
(* fills the buffer continues the file, one that does not completes the    *)
(* sum.                                                                    *)
LEMMA SumInvRead == SumInv /\ Read => SumInv'
<1> SUFFICES ASSUME SumInv, Read PROVE SumInv'
    OBVIOUS
<1>1. IInv /\ IInv'
    BY IInvRead DEF SumInv
<1>2. /\ pc = "read" /\ chunk_sequence # ChunkCount(file_size)
      /\ UNCHANGED <<file, changed, file_size>>
    BY DEF Read
<1>3. PICK b : b = Len(buffer)
    OBVIOUS
<1>4. PICK at : at = chunk_sequence * b
    OBVIOUS
<1>5. PICK read_size : read_size = Smaller(file_size - current_position, b)
    OBVIOUS
<1>6. /\ buffer \in Seq(Bytes \cup {Garbage}) /\ fed \in Seq(Bytes)
      /\ file_size \in Nat /\ chunk_sequence \in 0 .. ChunkCount(file_size)
      /\ current_position \in 0 .. file_size
    BY <1>1, ChecksumAssumption DEF IInv, TypeOK, NoGarbageFed
<1>7. /\ b \in Nat \ {0} /\ b = BufferSize(file_size) /\ (file_size > 0 => b <= file_size)
      /\ chunk_sequence \in Nat /\ chunk_sequence < ChunkCount(file_size)
      /\ at \in Nat /\ Len(fed) = at /\ (chunk_sequence = 0 => at = 0)
    <2>1. b = BufferSize(file_size)
        BY <1>1, <1>2, <1>3 DEF IInv, Progress
    <2>2. b \in Nat \ {0} /\ (file_size > 0 => b <= file_size) /\ ChunkCount(file_size) \in Nat
        BY <1>6, <2>1, BufferSizeRange, ChunkCountRange
    <2>3. chunk_sequence \in Nat /\ chunk_sequence < ChunkCount(file_size)
        BY <1>2, <1>6, <2>2
    <2>4. at \in Nat /\ (chunk_sequence = 0 => at = 0)
        BY <1>4, <2>2, <2>3, Products
    <2>5. Len(fed) = at
        BY <1>3, <1>4 DEF SumInv, FedInChunks
    <2> QED
        BY <2>1, <2>2, <2>3, <2>4, <2>5
<1>8. at < file_size
    BY <1>4, <1>6, <1>7, ChunkArithmetic
<1>9. CASE current_position + read_size <= Len(file)
    <2>1. /\ buffer' = [i \in 1 .. b |->
                          IF i <= read_size THEN file[current_position + i] ELSE buffer[i]]
          /\ fed' = fed \o buffer'
          /\ chunk_sequence' = chunk_sequence + 1
          /\ current_position' = current_position + read_size
          /\ pc' = pc
        BY <1>3, <1>5, <1>9 DEF Read
    <2>2. chunk_sequence' > 0 /\ buffer' \in Seq(Bytes) /\ Len(buffer') = b
        <3>1. chunk_sequence' > 0
            BY <1>7, <2>1
        <3>2. buffer' \in Seq(Bytes)
            BY <1>1, <3>1 DEF IInv, Progress
        <3>3. Len(buffer') = BufferSize(file_size')
            BY <1>1, <1>2, <2>1 DEF IInv, Progress
        <3> QED
            BY <1>2, <1>7, <3>1, <3>2, <3>3
    <2>3. chunk_sequence' * Len(buffer') = at + b
        <3>1. (chunk_sequence + 1) * b = chunk_sequence * b + b
            BY <1>7, Products
        <3> QED
            BY <1>4, <2>1, <2>2, <3>1
    <2>4. FedInChunks'
        <3>1. PICK next \in Seq(Bytes) : next = buffer'
            BY <2>2
        <3>2. Len(fed \o next) = Len(fed) + Len(next)
            BY <1>6, <3>1
        <3>3. Len(fed') = at + b
            BY <1>7, <2>1, <2>2, <3>1, <3>2
        <3> QED
            BY <2>3, <3>3 DEF FedInChunks
    <2>5. ASSUME ~changed PROVE FedSoFar'
        <3>1. /\ file # Absent /\ file_size = Len(file) /\ file \in Seq(Bytes)
              /\ current_position = at /\ fed = SubSeq(file, 1, at)
              /\ chunk_sequence > 0 => buffer = SubSeq(file, at - b + 1, at)
            <4>1. file # Absent /\ file_size = Len(file) /\ FedSoFar
                BY <1>2, <2>5 DEF SumInv, FedOfFile
            <4>2. at <= file_size /\ chunk_sequence * Len(buffer) = at
                BY <1>3, <1>4, <1>6, <1>7, <1>8
            <4>3. file \in Seq(Bytes)
                BY <1>1, <4>1, FilesAreSequences DEF IInv, TypeOK
            <4> QED
                BY <1>3, <4>1, <4>2, <4>3 DEF FedSoFar
        <3>2. PICK next \in Seq(Bytes) : next = buffer'
            BY <2>2
        <3>3. CASE at + b <= file_size
            <4>1. read_size = b
                BY <1>5, <1>6, <1>7, <3>1, <3>3 DEF Smaller
            <4>2. next = SubSeq(file, at + 1, at + b)
                <5>1. PICK s : s = SubSeq(file, at + 1, at + b)
                    OBVIOUS
                <5>2. PICK m \in Nat : m = at + b
                    BY <1>7
                <5>3. m - at = b /\ at <= m /\ m <= Len(file)
                    BY <1>7, <3>1, <3>3, <5>2
                <5>4. s \in Seq(Bytes) /\ Len(s) = b /\ \A i \in 1 .. b : s[i] = file[at + i]
                    <6>1. /\ SubSeq(file, at + 1, m) \in Seq(Bytes)
                          /\ Len(SubSeq(file, at + 1, m)) = m - at
                          /\ \A i \in 1 .. m - at : SubSeq(file, at + 1, m)[i] = file[at + i]
                        BY <1>7, <3>1, <5>3, SubSeqFacts
                    <6> QED
                        BY <5>1, <5>2, <5>3, <6>1, Zenon
                <5>5. \A i \in 1 .. b : next[i] = file[at + i]
                    BY <1>7, <2>1, <3>1, <3>2, <4>1
                <5>6. Len(next) = b
                    BY <2>2, <3>2
                <5>7. next = s
                    BY <5>4, <5>5, <5>6, SameSeq
                <5> QED
                    BY <5>1, <5>7
            <4>3. SubSeq(file, 1, at) \o next = SubSeq(file, 1, at + b)
                <5>1. at + b \in Nat /\ at <= at + b /\ at + b <= Len(file)
                    BY <1>7, <3>1, <3>3
                <5> QED
                    BY <1>7, <3>1, <4>2, <5>1, SubSeqSplit
            <4>4. fed' = SubSeq(file, 1, at + b)
                BY <2>1, <3>1, <3>2, <4>3
            <4>5. at + b - b + 1 = at + 1 /\ current_position' = at + b
                BY <1>7, <2>1, <3>1, <4>1
            <4>6. buffer' = SubSeq(file, at + b - b + 1, at + b)
                BY <3>2, <4>2, <4>5
            <4>7. PICK e : e = at + b
                OBVIOUS
            <4>8. /\ chunk_sequence' * Len(buffer') = e /\ e <= file_size'
                  /\ current_position' = e
                  /\ fed' = SubSeq(file', 1, e)
                  /\ buffer' = SubSeq(file', e - Len(buffer') + 1, e)
                <5>1. file' = file /\ file_size' = file_size /\ Len(buffer') = b
                    BY <1>2, <2>2
                <5>2. chunk_sequence' * Len(buffer') = e /\ current_position' = e
                    BY <2>3, <4>5, <4>7
                <5>3. e <= file_size'
                    BY <3>3, <4>7, <5>1
                <5>4. fed' = SubSeq(file', 1, e)
                    BY <4>4, <4>7, <5>1
                <5>5. buffer' = SubSeq(file', e - Len(buffer') + 1, e)
                    <6>1. e - Len(buffer') + 1 = at + b - b + 1
                        BY <1>7, <4>7, <5>1
                    <6> QED
                        BY <4>6, <4>7, <5>1, <6>1, Zenon
                <5> QED
                    BY <5>2, <5>3, <5>4, <5>5
            <4> QED
                BY <4>8, Zenon DEF FedSoFar
        <3>4. CASE ~(at + b <= file_size)
            <4>1. read_size = file_size - at /\ read_size \in 1 .. b
                BY <1>5, <1>6, <1>7, <1>8, <3>1, <3>4 DEF Smaller
            <4>2. chunk_sequence > 0
                <5> SUFFICES ASSUME chunk_sequence = 0 PROVE FALSE
                    BY <1>7
                <5>1. at = 0 /\ file_size > 0
                    BY <1>6, <1>7, <1>8
                <5> QED
                    BY <1>7, <3>4, <5>1
            <4>3. b <= at
                <5>1. 1 * b <= chunk_sequence * b
                    BY <1>7, <4>2, Products
                <5> QED
                    BY <1>4, <1>7, <5>1
            <4>4. buffer = SubSeq(file, at - b + 1, at)
                BY <3>1, <4>2
            <4>5. \A i \in 1 .. b : buffer[i] = file[at - b + i]
                <5>1. PICK k \in Nat : k = at - b
                    <6>1. at - b \in Nat
                        BY <1>7, <4>3
                    <6> QED
                        BY <6>1, Zenon
                <5>2. k <= at /\ at <= Len(file) /\ at - k = b
                    BY <1>6, <1>7, <1>8, <3>1, <5>1
                <5>3. \A i \in 1 .. at - k : SubSeq(file, k + 1, at)[i] = file[k + i]
                    BY <1>7, <3>1, <5>2, SubSeqFacts
                <5> QED
                    BY <4>4, <5>1, <5>2, <5>3, Zenon
            <4>6. \A i \in 1 .. b :
                      next[i] = IF i <= Len(file) - at THEN file[at + i] ELSE file[at - b + i]
                <5>1. \A i \in 1 .. b :
                          next[i] = IF i <= read_size THEN file[current_position + i] ELSE buffer[i]
                    BY <1>7, <2>1, <3>2
                <5> QED
                    BY <3>1, <4>1, <4>5, <5>1
            <4>7. Len(file) % b = Len(file) - at
                <5>1. file_size < at + b
                    BY <1>6, <1>7, <3>4
                <5>2. /\ chunk_sequence * b < file_size
                      /\ file_size < chunk_sequence * b + b
                      => file_size % b = file_size - chunk_sequence * b
                    <6>1. file_size \in Nat /\ chunk_sequence \in Nat /\ b = BufferSize(file_size)
                        BY <1>6, <1>7
                    <6> QED
                        BY <6>1, ChunkArithmetic, Zenon
                <5>3. file_size % b = file_size - at
                    BY <1>4, <1>8, <5>1, <5>2
                <5>4. Len(file) = file_size
                    BY <3>1
                <5> QED
                    BY <5>3, <5>4
            <4>8. SubSeq(file, 1, at) \o next = Sum(file)
                <5>1. Len(next) = b /\ b \in Nat /\ b = BufferSize(Len(file))
                    BY <1>7, <2>2, <3>1, <3>2
                <5>2. at < Len(file) /\ Len(file) < at + b
                    BY <1>6, <1>7, <1>8, <3>1, <3>4
                <5> QED
                    BY <1>7, <3>1, <4>3, <4>6, <4>7, <5>1, <5>2, PartialChunk
            <4>9. fed' = Sum(file)
                BY <2>1, <3>1, <3>2, <4>8
            <4>10. Sum(file)' = Sum(file)
                BY <1>2 DEF Sum
            <4>11. ~(chunk_sequence' * Len(buffer') <= file_size')
                BY <1>2, <2>3, <3>4
            <4> QED
                BY <4>9, <4>10, <4>11 DEF FedSoFar
        <3> QED
            BY <3>3, <3>4
    <2>6. FedOfFile'
        <3>1. pc' = "read"
            BY <1>2, <2>1
        <3>2. ASSUME ~changed PROVE (file # Absent /\ file_size = Len(file))'
            BY <1>2, <3>2 DEF SumInv, FedOfFile
        <3> QED
            BY <1>2, <2>5, <3>1, <3>2 DEF FedOfFile
    <2> QED
        BY <1>1, <2>4, <2>6 DEF SumInv
<1>10. CASE ~(current_position + read_size <= Len(file))
    <2>1. /\ pc' = "done" /\ UNCHANGED <<buffer, fed, chunk_sequence, current_position>>
        BY <1>3, <1>5, <1>10 DEF Read
    <2>2. changed
        <3> SUFFICES ASSUME ~changed PROVE FALSE
            OBVIOUS
        <3>1. file_size = Len(file)
            BY <1>2 DEF SumInv, FedOfFile
        <3>2. current_position + read_size <= file_size
            BY <1>5, <1>6, <1>7 DEF Smaller
        <3> QED
            BY <1>10, <3>1, <3>2
    <2>3. FedInChunks' /\ FedOfFile'
        BY <1>2, <2>1, <2>2 DEF SumInv, FedInChunks, FedOfFile
    <2> QED
        BY <1>1, <2>3 DEF SumInv
<1> QED
    BY <1>9, <1>10

LEMMA SumInductive == SumInv /\ [Next]_vars => SumInv'
<1> SUFFICES ASSUME SumInv, [Next]_vars PROVE SumInv'
    OBVIOUS
<1>1. CASE Lstat
    BY <1>1, SumInvLstat
<1>2. CASE Open
    BY <1>2, SumInvOpen
<1>3. CASE Read
    BY <1>3, SumInvRead
<1>4. CASE Finish
    BY <1>4, SumInvFinish
<1>5. CASE Rewrite
    BY <1>5, SumInvRewrite
<1>6. CASE UNCHANGED vars
    <2>1. IInv'
        BY <1>6, Inductive DEF SumInv
    <2>2. FedInChunks' /\ FedSoFar' = FedSoFar /\ Sum(file)' = Sum(file)
        BY <1>6 DEF SumInv, FedInChunks, FedSoFar, Sum, vars
    <2>3. FedOfFile'
        BY <1>6, <2>2 DEF SumInv, FedOfFile, vars
    <2> QED
        BY <2>1, <2>2, <2>3 DEF SumInv
<1> QED
    BY <1>1, <1>2, <1>3, <1>4, <1>5, <1>6 DEF Next, Step

(* A file nobody rewrites while it is read is summed the same every time,  *)
(* all of its bytes in their order, whatever its size and the buffer's.    *)
THEOREM WholeFileSummed == Spec => []SumOfWholeFile
<1>1. SumInv => SumOfWholeFile
    BY DEF SumInv, FedOfFile, SumOfWholeFile
<1> QED
    BY <1>1, SumInvInit, SumInductive, PTL DEF Spec

(* At every moment the code's crc, computed chunk by chunk from the table  *)
(* and begun with 0, is the CRC-32 of all the bytes fed so far at once:    *)
(* for every file, every way it is cut and every rewrite meanwhile.        *)
THEOREM CrcIsTheSum == Spec => []CrcOfFed
<1>1. SumInv => CrcOfFed
    <2> SUFFICES ASSUME SumInv PROVE CrcOfFed
        OBVIOUS
    <2>1. /\ fed \in Seq(Bytes) /\ buffer \in Seq(Bytes \cup {Garbage}) /\ file_size \in Nat
          /\ chunk_sequence \in 0 .. ChunkCount(file_size) /\ FedInChunks
        BY ChecksumAssumption DEF SumInv, IInv, TypeOK, NoGarbageFed
    <2>2. fed \in Seq(Byte)
        BY <2>1, ChecksumAssumption
    <2>3. chunk_sequence \in Nat /\ Len(buffer) \in Nat
        BY <2>1, ChunkCountRange
    <2> QED
        BY <2>1, <2>2, <2>3, CrcIsOfFed
<1> QED
    BY <1>1, SumInvInit, SumInductive, PTL DEF Spec
=============================================================================
