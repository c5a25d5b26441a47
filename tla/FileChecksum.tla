---------------------------- MODULE FileChecksum ----------------------------
(***************************************************************************)
(* dfs_file_checksum: how client and server reduce a file to the number    *)
(* they compare it by.  The file is read in chunks of a size derived from  *)
(* lstat's answer, and the CRC is fed the whole buffer after every chunk,  *)
(* also when the last chunk filled only a part of it.                      *)
(*                                                                         *)
(* The bytes the CRC is fed are kept as a history, and the code's variable *)
(* crc is defined from it: what module CRC computes, a chunk at a time,    *)
(* from a table.                                                           *)
(* The function runs without a lock, so the file may be rewritten in place *)
(* while it is read.                                                       *)
(***************************************************************************)
EXTENDS CRC

CONSTANTS table,           \* the CRC's table
          Bytes,           \* the bytes files are made of
          Garbage,         \* what a byte of the buffer is before it is read
          DFS_BUFFERSIZE,  \* the largest chunk
          MaxSize,         \* bound on the size of a file
          Absent           \* "there is no such file"

ASSUME ChecksumAssumption ==
    /\ DFS_BUFFERSIZE \in Nat \ {0}
    /\ MaxSize \in Nat
    /\ Bytes \subseteq Byte
    /\ Garbage \in Byte \ Bytes

(* Every node makes its table, a Table<uint32_t, 32>, of CRC_32 when it is  *)
(* constructed.                                                            *)
ASSUME WidthAssumption == Digits = 32 /\ CRCWidth = 32

ASSUME TableAssumption == table = Table(CRC_32)

Inputs == UNION {[1 .. n -> Bytes] : n \in 0 .. MaxSize}

ASSUME AbsentAssumption == Absent \notin Inputs

VARIABLES file,              \* the bytes under the name
          changed,           \* whether somebody rewrote it meanwhile
          pc,                \* the next step: lstat, open, read, done
          file_size,         \* what lstat said
          buffer,            \* the chunk buffer, buffer_size bytes
          chunk_sequence,    \* chunks read so far
          current_position,  \* position in the file
          fed                \* the bytes the CRC was fed so far

vars == <<file, changed, pc, file_size, buffer, chunk_sequence, current_position, fed>>

----------------------------------------------------------------------------
Smaller(m, n) == IF m < n THEN m ELSE n

(* Faulty variant: small files get the large buffer, too.                  *)
BufferSizeFixed(size) == DFS_BUFFERSIZE

(* A small file is cut in two chunks (three, when its size is odd).        *)
BufferSize(size) ==
    IF size >= DFS_BUFFERSIZE THEN DFS_BUFFERSIZE
    ELSE IF size \div 2 = 0 THEN 1 ELSE size \div 2

(* Faulty variant: the last, partial chunk is not counted.                 *)
ChunkCountWhole(size) == size \div BufferSize(size)

ChunkCount(size) ==
    size \div BufferSize(size) + (IF size % BufferSize(size) = 0 THEN 0 ELSE 1)

(* The CRC after chunk_sequence chunks: each was appended to the CRC of    *)
(* those before it, the first to 0.                                        *)
crc ==
    LET chunk(n) == SubSeq(fed, (n - 1) * Len(buffer) + 1, n * Len(buffer))
        after[n \in 0 .. chunk_sequence] ==
            IF n = 0 THEN {} ELSE TableAppend(chunk(n), CRC_32, table, after[n - 1])
    IN after[chunk_sequence]

Init ==
    /\ file \in Inputs \cup {Absent}
    /\ changed = FALSE
    /\ pc = "lstat"
    /\ file_size = 0
    /\ buffer = <<>>
    /\ chunk_sequence = 0
    /\ current_position = 0
    /\ fed = <<>>

Lstat ==
    /\ pc = "lstat"
    /\ IF file = Absent
       THEN /\ pc' = "done"
            /\ UNCHANGED <<file_size, buffer>>
       ELSE /\ pc' = "open"
            /\ file_size' = Len(file)
            /\ buffer' = [i \in 1 .. BufferSize(Len(file)) |-> Garbage]
    /\ UNCHANGED <<file, changed, chunk_sequence, current_position, fed>>

Open ==
    /\ pc = "open"
    /\ pc' = IF file = Absent THEN "done" ELSE "read"
    /\ UNCHANGED <<file, changed, file_size, buffer, chunk_sequence, current_position, fed>>

(* Faulty variant: a short read is tried again.                            *)
ReadWaits ==
    LET read_size == Smaller(file_size - current_position, Len(buffer)) IN
    /\ pc = "read"
    /\ chunk_sequence # ChunkCount(file_size)
    /\ current_position + read_size <= Len(file)
    /\ buffer' = [i \in 1 .. Len(buffer) |->
                    IF i <= read_size THEN file[current_position + i] ELSE buffer[i]]
    /\ fed' = fed \o buffer'
    /\ chunk_sequence' = chunk_sequence + 1
    /\ current_position' = current_position + read_size
    /\ UNCHANGED <<file, changed, pc, file_size>>

(* Faulty variant: the position moves on by the buffer's size.             *)
ReadSkips ==
    LET read_size == Smaller(file_size - current_position, Len(buffer)) IN
    /\ pc = "read"
    /\ chunk_sequence # ChunkCount(file_size)
    /\ current_position + read_size <= Len(file)
    /\ fed' = fed \o buffer
    /\ chunk_sequence' = chunk_sequence + 1
    /\ current_position' = current_position + Len(buffer)
    /\ UNCHANGED <<file, changed, pc, file_size, buffer>>

(* One round of the loop. A file that became shorter ends it early, and    *)
(* the sum so far is the result.                                           *)
Read ==
    LET read_size == Smaller(file_size - current_position, Len(buffer)) IN
    /\ pc = "read"
    /\ chunk_sequence # ChunkCount(file_size)
    /\ IF current_position + read_size <= Len(file)
       THEN /\ buffer' = [i \in 1 .. Len(buffer) |->
                            IF i <= read_size THEN file[current_position + i] ELSE buffer[i]]
            /\ fed' = fed \o buffer'
            /\ chunk_sequence' = chunk_sequence + 1
            /\ current_position' = current_position + read_size
            /\ UNCHANGED pc
       ELSE /\ pc' = "done"
            /\ UNCHANGED <<buffer, fed, chunk_sequence, current_position>>
    /\ UNCHANGED <<file, changed, file_size>>

Finish ==
    /\ pc = "read"
    /\ chunk_sequence = ChunkCount(file_size)
    /\ pc' = "done"
    /\ UNCHANGED <<file, changed, file_size, buffer, chunk_sequence, current_position, fed>>

(* Somebody rewrites the file in place, creates it or, while nobody has it *)
(* open, removes it.                                                       *)
Rewrite ==
    /\ pc # "done"
    /\ \E new \in Inputs \cup {Absent} :
          /\ new # file
          /\ pc = "read" => new # Absent
          /\ file' = new
    /\ changed' = TRUE
    /\ UNCHANGED <<pc, file_size, buffer, chunk_sequence, current_position, fed>>

Step == Lstat \/ Open \/ Read \/ Finish

Next == Step \/ Rewrite

Spec == Init /\ [][Next]_vars

(* The thread that computes the checksum runs on.                          *)
FairSpec == Spec /\ WF_vars(Step)

----------------------------------------------------------------------------
(* Every variable has its type.                                            *)
TypeOK ==
    /\ file \in Inputs \cup {Absent}
    /\ changed \in BOOLEAN
    /\ pc \in {"lstat", "open", "read", "done"}
    /\ file_size \in 0 .. MaxSize
    /\ buffer \in Seq(Bytes \cup {Garbage})
    /\ chunk_sequence \in 0 .. ChunkCount(file_size)
    /\ current_position \in 0 .. file_size
    /\ fed \in Seq(Bytes \cup {Garbage})

(* The CRC is never fed a byte of the buffer that no read has filled, also *)
(* when the file is rewritten meanwhile: the result depends on nothing but *)
(* file contents.                                                          *)
NoGarbageFed == fed \in Seq(Bytes)

(* The multi-part computation with the table, begun with the CRC 0 that    *)
(* dfs_file_checksum starts from, gives what the library defines as the    *)
(* CRC-32 of all the bytes at once, bit by bit: the sum does not depend on *)
(* how the file is cut into chunks.                                        *)
CrcOfFed == crc = Calculate(fed, CRC_32)

(* What a file feeds the CRC, in closed form: its bytes, and when the last *)
(* chunk is partial the bytes that follow its size in the chunk before.    *)
Sum(f) ==
    LET n == Len(f)
        b == BufferSize(n)
        r == n % b
    IN IF r = 0 THEN f ELSE f \o SubSeq(f, n - b + 1, n - r)

(* The sum of a file nobody rewrites is the same every time, on client and *)
(* server, and covers all of its bytes.                                    *)
SumOfWholeFile ==
    pc = "done" /\ ~changed /\ file # Absent => fed = Sum(file)

(* The checksum ends, however often the file is rewritten meanwhile.       *)
ChecksumEnds == <>(pc = "done")

(* dfs-utils.h:32, clientnode-p2.cpp:116: the checksum is the file's, and  *)
(* equal sums mean that the file has not changed.                          *)
EqualSumsEqualFiles ==
    pc = "done" /\ ~changed /\ file # Absent =>
        \A other \in Inputs : Calculate(Sum(other), CRC_32) = crc => other = file
=============================================================================
