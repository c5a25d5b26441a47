------------------------ MODULE DFSPart1DataProofs ------------------------
(***************************************************************************)
(* Theorems about DFSPart1: what is in the files. Both ends of a transfer  *)
(* count chunks; the invariant says how far apart the counts are, and so   *)
(* at which place of its file every chunk under way belongs. Where no      *)
(* other call changes the file, it says which bytes have arrived.          *)
(***************************************************************************)
EXTENDS DFSPart1Proofs

InPlace(b, i) == b \in Bytes /\ (b = Hole \/ b[2] = i)
FilePlaced(s) == \A i \in 1 .. Len(s) : InPlace(s[i], i)

(* The last message of a stream only is a small one.                       *)
SmallLast(q) == \A j \in 1 .. Len(q) : q[j].small => j = Len(q)

(* After the d messages that are no data, stream q holds the chunks from   *)
(* place n + 1 on.                                                         *)
StreamPlaced(q, d, n) == \A j \in 1 .. Len(q) : j > d => InPlace(q[j].chunk, n + j - d)

Reads(c) == c.spc \in {"start", "read_header", "open", "write"}
UpOffset(c) == IF c.spc \in {"start", "read_header"} THEN 1 ELSE 0

(* A store c of file s whose handler is still to read the stream.          *)
UpOk(c, s) ==
    /\ StreamPlaced(c.up, UpOffset(c), c.taken)
    /\ SmallLast(c.up)
    /\ c.spc # "write" => c.taken = 0 /\ c.kept = None
    /\ c.kept # None => c.taken > 0 /\ InPlace(c.kept, c.taken) /\ c.up = <<>>
    /\ c.pc = "header" => c.up = <<>> /\ c.sent = 0 /\ c.spc \in {"start", "read_header"}
    /\ c.pc = "send" =>
          /\ ~c.cancelled => Len(c.up) = c.sent - c.taken + UpOffset(c)
          /\ c.kept # None \/ (\E j \in 1 .. Len(c.up) : c.up[j].small) => c.sent = Len(s)

Receives(c) == c.pc \in {"open", "first", "receive"}
DownOffset(c) == IF c.pc = "receive" THEN 0 ELSE 1

(* A fetch c whose client is still to read the stream.                     *)
DownOk(c) ==
    /\ StreamPlaced(c.down, DownOffset(c), c.taken)
    /\ SmallLast(c.down)
    /\ c.pc # "receive" => c.taken = 0 /\ c.kept = None
    /\ c.kept # None => c.taken > 0 /\ InPlace(c.kept, c.taken) /\ c.down = <<>>
    /\ c.kept # None \/ (\E j \in 1 .. Len(c.down) : c.down[j].small)
          => c.spc \in {"read_end", "done"}
    /\ c.spc \in {"start", "fetch_stat"} =>
          c.down = <<>> /\ c.sent = 0 /\ c.taken = 0 /\ (~c.cancelled => c.pc # "receive")
    /\ c.spc = "open_read" => c.sent = 0
    /\ c.spc \in {"open_read", "read"} /\ ~c.cancelled =>
          Len(c.down) = c.sent - c.taken + DownOffset(c)

StreamOk(r, c, s) ==
    /\ r.op = "store" /\ Reads(c) => UpOk(c, s)
    /\ r.op = "fetch" /\ Receives(c) => DownOk(c)

StreamsOk == \A k \in Calls : StreamOk(req[k], call[k], Mine(k))

FilesPlaced ==
    /\ \A n \in Inodes : FilePlaced(data[n])
    /\ \A m \in Mounts, f \in Files : local[m][f] \in Texts => FilePlaced(local[m][f])

DataInv == ShapeInv /\ StreamsOk /\ FilesPlaced

----------------------------------------------------------------------------
(* What all steps have in common.                                          *)

(* A call that is settled is in no transfer any more.                      *)
LEMMA SettledStream ==
  ASSUME NEW r, NEW c \in CallRecord, NEW s, StreamOk(r, c, s)
  PROVE  StreamOk(r, Settled(c), s)
  <1>1. CASE c.pc \in {"done", "killed"} /\ c.spc \in {"none", "done"}
    BY <1>1, SettledFields DEF StreamOk, Reads, Receives
  <1>2. CASE ~(c.pc \in {"done", "killed"} /\ c.spc \in {"none", "done"})
    BY <1>2 DEF Settled
  <1> QED
    BY <1>1, <1>2

LEMMA WitnessStream ==
  ASSUME NEW r, NEW c \in CallRecord, NEW d \in CallRecord, NEW s, NEW t, StreamOk(r, c, s),
         SameButWitness(c, d), c.pc = "send" => t = s
  PROVE  StreamOk(r, d, t)
  BY DEF StreamOk, SameButWitness, SameEnds, UpOk, DownOk, Reads, Receives, UpOffset, DownOffset

(* A step of call k that leaves the others' streams alone.                 *)
LEMMA StreamStep ==
  ASSUME ShapeInv, StreamsOk, NEW k \in Calls, NEW c \in CallRecord,
         \A j \in Calls \ {k} : req'[j] = req[j],
         call'[k] = Settled(c), StreamOk(req'[k], c, Mine(k)'),
         \A j \in Calls \ {k} : call'[j] \in CallRecord /\ SameButWitness(call[j], call'[j]),
         \A j \in Calls \ {k} : call[j].pc = "send" => Mine(j)' = Mine(j)
  PROVE  StreamsOk'
  <1> SUFFICES ASSUME NEW j \in Calls PROVE StreamOk(req'[j], call'[j], Mine(j)')
    BY DEF StreamsOk
  <1>1. CASE j = k
    BY <1>1, SettledStream
  <1>2. CASE j # k
    <2> DEFINE d == call'[j]
    <2>1. d \in CallRecord /\ SameButWitness(call[j], d)
      BY <1>2
    <2>2. call[j] \in CallRecord /\ StreamOk(req[j], call[j], Mine(j))
      BY DEF StreamsOk, ShapeInv, CallsShaped
    <2> HIDE DEF d
    <2>3. call[j].pc = "send" => Mine(j)' = Mine(j)
      BY <1>2
    <2>4. StreamOk(req[j], d, Mine(j)')
      BY <2>1, <2>2, <2>3, WitnessStream
    <2> QED
      BY <1>2, <2>4 DEF d
  <1> QED
    BY <1>1, <1>2

LEMMA SetStream ==
  ASSUME DataInv, NEW k \in Calls, NEW c \in CallRecord,
         \A j \in Calls \ {k} : req'[j] = req[j],
         Set(k, c), StreamOk(req'[k], c, Mine(k)'),
         \A j \in Calls \ {k} : call[j].pc = "send" => Mine(j)' = Mine(j)
  PROVE  StreamsOk'
  <1>1. call'[k] = Settled(c) /\ \A j \in Calls \ {k} : call'[j] = call[j]
    BY SetOthers DEF DataInv
  <1>2. \A j \in Calls \ {k} : call'[j] \in CallRecord /\ SameButWitness(call[j], call'[j])
    BY <1>1 DEF DataInv, ShapeInv, CallsShaped, SameButWitness, SameEnds
  <1> QED
    BY <1>1, <1>2, StreamStep DEF DataInv

(* Files stay in place when chunks in place are written.                   *)
LEMMA WriteAtPlaced ==
  ASSUME NEW s \in Texts, FilePlaced(s), NEW i \in Nat, NEW b, InPlace(b, i)
  PROVE  FilePlaced(WriteAt(s, i, b))
  <1> DEFINE n == IF i > Len(s) THEN i ELSE Len(s)
             e(j) == IF j = i THEN b ELSE IF j <= Len(s) THEN s[j] ELSE Hole
  <1>1. n \in Nat /\ Len(s) \in Nat
    BY DEF Texts
  <1>2. WriteAt(s, i, b) = [j \in 1 .. n |-> e(j)]
    BY DEF WriteAt
  <1>3. ASSUME NEW j \in 1 .. n PROVE InPlace(e(j), j)
    BY <1>1 DEF FilePlaced, InPlace, Bytes
  <1> HIDE DEF n
  <1>4. Len(WriteAt(s, i, b)) = n
    <2>1. DOMAIN WriteAt(s, i, b) = 1 .. n
      BY <1>2
    <2>2. Len(s) \in Nat /\ b \in Bytes
      BY DEF InPlace, Texts
    <2>3. WriteAt(s, i, b) \in Texts
      BY <2>2, WriteAtTyped, HoleIsText DEF Texts
    <2> QED
      BY <1>1, <2>1, <2>3 DEF Texts
  <1>5. \A j \in 1 .. n : WriteAt(s, i, b)[j] = e(j)
    BY <1>2
  <1> QED
    BY <1>3, <1>4, <1>5 DEF FilePlaced

LEMMA WritesPlaced ==
  ASSUME NEW c \in CallRecord, NEW s \in Texts, FilePlaced(s)
  PROVE  /\ \A x : InPlace(x.chunk, c.taken + 1) => FilePlaced(Written(c, x, s))
         /\ (c.kept # None => c.taken > 0 /\ InPlace(c.kept, c.taken))
               => FilePlaced(Flushed(c, s))
  <1>1. c.taken \in Nat /\ c.taken + 1 \in Nat
    BY DEF CallRecord
  <1> QED
    BY <1>1, WriteAtPlaced DEF Written, Flushed

(* What is read from a file in place.                                      *)
LEMMA MessagePlaced ==
  ASSUME NEW s \in Texts, FilePlaced(s), NEW i \in 1 .. Len(s)
  PROVE  /\ InPlace(Message(s, i).chunk, i)
         /\ Message(s, i).small => i = Len(s)
  BY DEF Message, FilePlaced

(* A message joins the end of a stream, or leaves its head.                *)
LEMMA AppendPlaced ==
  ASSUME NEW S, NEW q \in Seq(S), NEW d \in Nat, NEW n \in Nat, StreamPlaced(q, d, n),
         NEW x, Len(q) >= d => InPlace(x.chunk, n + Len(q) + 1 - d),
         \A j \in 1 .. Len(q) : ~q[j].small
  PROVE  StreamPlaced(Append(q, x), d, n) /\ SmallLast(Append(q, x))
  <1>1. /\ Len(Append(q, x)) = Len(q) + 1 /\ Append(q, x)[Len(q) + 1] = x
        /\ \A j \in 1 .. Len(q) : Append(q, x)[j] = q[j]
    OBVIOUS
  <1>2. StreamPlaced(Append(q, x), d, n)
    <2> SUFFICES ASSUME NEW j \in 1 .. Len(q) + 1, j > d
                 PROVE  InPlace(Append(q, x)[j].chunk, n + j - d)
      BY <1>1 DEF StreamPlaced
    <2>1. CASE j = Len(q) + 1
      BY <1>1, <2>1
    <2>2. CASE j # Len(q) + 1
      BY <1>1, <2>2 DEF StreamPlaced
    <2> QED
      BY <2>1, <2>2
  <1>3. SmallLast(Append(q, x))
    BY <1>1 DEF SmallLast
  <1> QED
    BY <1>2, <1>3

LEMMA TailPlaced ==
  ASSUME NEW S, NEW q \in Seq(S), q # <<>>, SmallLast(q), NEW n \in Nat
  PROVE  /\ StreamPlaced(q, 1, n) => StreamPlaced(Tail(q), 0, n)
         /\ StreamPlaced(q, 0, n) => /\ InPlace(Head(q).chunk, n + 1)
                                     /\ StreamPlaced(Tail(q), 0, n + 1)
         /\ SmallLast(Tail(q))
         /\ Head(q).small => Tail(q) = <<>>
         /\ (\E j \in 1 .. Len(Tail(q)) : Tail(q)[j].small) => \E j \in 1 .. Len(q) : q[j].small
  <1>1. /\ Head(q) = q[1] /\ Tail(q) \in Seq(S) /\ Len(Tail(q)) = Len(q) - 1
        /\ \A i \in 1 .. Len(q) - 1 : Tail(q)[i] = q[i + 1]
        /\ Len(q) \in Nat \ {0}
    BY HeadTaken
  <1>2. StreamPlaced(q, 1, n) => StreamPlaced(Tail(q), 0, n)
    <2> SUFFICES ASSUME StreamPlaced(q, 1, n), NEW j \in 1 .. Len(q) - 1
                 PROVE  InPlace(Tail(q)[j].chunk, n + j - 0)
      BY <1>1 DEF StreamPlaced
    <2>1. InPlace(q[j + 1].chunk, n + (j + 1) - 1)
      BY <1>1 DEF StreamPlaced
    <2>2. n + (j + 1) - 1 = n + j - 0
      BY <1>1
    <2> QED
      BY <1>1, <2>1, <2>2
  <1>3. StreamPlaced(q, 0, n) => /\ InPlace(Head(q).chunk, n + 1)
                                 /\ StreamPlaced(Tail(q), 0, n + 1)
    <2> SUFFICES ASSUME StreamPlaced(q, 0, n)
                 PROVE  /\ InPlace(Head(q).chunk, n + 1)
                        /\ \A j \in 1 .. Len(q) - 1 : InPlace(Tail(q)[j].chunk, (n + 1) + j - 0)
      BY <1>1 DEF StreamPlaced
    <2>1. InPlace(q[1].chunk, n + 1 - 0) /\ n + 1 - 0 = n + 1
      BY <1>1 DEF StreamPlaced
    <2>2. ASSUME NEW j \in 1 .. Len(q) - 1
          PROVE  InPlace(Tail(q)[j].chunk, (n + 1) + j - 0)
      <3>1. InPlace(q[j + 1].chunk, n + (j + 1) - 0)
        BY <1>1 DEF StreamPlaced
      <3>2. n + (j + 1) - 0 = (n + 1) + j - 0
        BY <1>1
      <3> QED
        BY <1>1, <3>1, <3>2
    <2> QED
      BY <1>1, <2>1, <2>2
  <1>4. SmallLast(Tail(q))
    <2> SUFFICES ASSUME NEW j \in 1 .. Len(q) - 1, Tail(q)[j].small PROVE j = Len(q) - 1
      BY <1>1 DEF SmallLast
    <2>1. j + 1 \in 1 .. Len(q) /\ q[j + 1].small
      BY <1>1
    <2>2. j + 1 = Len(q)
      BY <2>1 DEF SmallLast
    <2> QED
      BY <2>2
  <1>5. Head(q).small => Tail(q) = <<>>
    <2> SUFFICES ASSUME Head(q).small PROVE Tail(q) = <<>>
      OBVIOUS
    <2>1. 1 \in 1 .. Len(q) /\ q[1].small
      BY <1>1
    <2>2. 1 = Len(q)
      BY <2>1 DEF SmallLast
    <2>3. Tail(q) \in Seq(S) /\ Len(Tail(q)) = Len(q) - 1
      BY <1>1
    <2>4. Len(Tail(q)) \notin Nat \ {0}
      BY <2>2, <2>3
    <2> QED
      BY <2>3, <2>4, EmptySeq
  <1>6. (\E j \in 1 .. Len(Tail(q)) : Tail(q)[j].small) => \E j \in 1 .. Len(q) : q[j].small
    BY <1>1
  <1> QED
    BY <1>2, <1>3, <1>4, <1>5, <1>6

(* A running client writes its file; the other running ones have others.   *)
LEMMA MineReplaced ==
  ASSUME DataInv, NEW k \in Calls, Running(k), NEW s \in Texts, FilePlaced(s),
         local' = [local EXCEPT ![req[k].mount][req[k].file] = s],
         UNCHANGED <<dir, data, req, crashes>>
  PROVE  /\ Mine(k)' = s
         /\ \A j \in Calls \ {k} : Running(j) => Mine(j)' = Mine(j)
         /\ FilesPlaced'
  <1>1. \A j \in Calls : Running(j) => req[j] \in Request
    BY DEF DataInv, ShapeInv, CallsShaped, Shape, ClientShape, Running
  <1>2. Typed
    BY DEF DataInv, ShapeInv
  <1>3. /\ Typed'
        /\ local'[req[k].mount][req[k].file] = s
        /\ \A m \in Mounts, f \in Files :
               m # req[k].mount \/ f # req[k].file => local'[m][f] = local[m][f]
    BY <1>1, <1>2, MineWritten
  <1>4. \A j \in Calls \ {k} : Running(j) => Mine(j)' = Mine(j)
    BY <1>1, <1>3 DEF DataInv, ShapeInv, MountsApart, Mine, Request
  <1>5. FilesPlaced'
    BY <1>3 DEF FilesPlaced, DataInv
  <1> QED
    BY <1>3, <1>4, <1>5 DEF Mine

(* What holds of call k.                                                   *)
LEMMA CallFacts ==
  ASSUME DataInv, NEW k \in Calls
  PROVE  /\ call[k] \in CallRecord /\ Shape(req[k], call[k])
         /\ StreamOk(req[k], call[k], Mine(k))
         /\ Opened(k)
         /\ req[k] \in Request \cup {None}
         /\ call[k].pc # "idle" => req[k] \in Request
         /\ call[k].spc # "none" => call[k].pc # "idle"
         /\ call[k].up \in Seq(Messages) /\ call[k].sent \in Nat /\ call[k].taken \in Nat
  <1>1. /\ call[k] \in CallRecord /\ Shape(req[k], call[k]) /\ Opened(k)
        /\ req[k] \in Request \cup {None} /\ StreamOk(req[k], call[k], Mine(k))
    <2>1. ShapeInv /\ StreamsOk
      BY DEF DataInv
    <2> QED
      BY <2>1 DEF ShapeInv, Typed, CallsShaped, StreamsOk
  <1>2. call[k].pc # "idle" => req[k] \in Request
    BY <1>1 DEF Shape, ClientShape
  <1> QED
    BY <1>1, <1>2 DEF Shape, ClientShape, NewCall, CallRecord

LEMMA StoreHeaderPlaced ==
  ASSUME DataInv, NEW k \in Calls, StoreHeader(k)
  PROVE  StreamsOk' /\ FilesPlaced'
  <1> DEFINE d == SentUp(call[k], Header)
             c == [d EXCEPT !.pc = "send"]
  <1>1. /\ call[k] \in CallRecord /\ call[k].pc = "header" /\ req[k].op = "store"
        /\ StreamOk(req[k], call[k], Mine(k)) /\ Set(k, c)
        /\ UNCHANGED <<dir, data, local, req, crashes>>
    BY CallFacts DEF StoreHeader, At
  <1>2. /\ d \in CallRecord /\ SameEnds(call[k], d) /\ SameTransfer(call[k], d)
        /\ d.up = IF Broken(call[k]) THEN call[k].up ELSE Append(call[k].up, Header)
    BY <1>1, MessagesSent, SentUpFields
  <1> HIDE DEF d
  <1>3. /\ c \in CallRecord /\ c.pc = "send" /\ c.up = d.up /\ c.spc = d.spc
        /\ c.taken = d.taken /\ c.kept = d.kept /\ c.sent = d.sent /\ c.cancelled = d.cancelled
    <2>1. c \in CallRecord
      BY <1>2 DEF CallRecord, Pcs
    <2>2. c.pc = "send" /\ c.up = d.up /\ c.spc = d.spc /\ c.taken = d.taken
      BY <1>2 DEF CallRecord, Pcs
    <2>3. c.kept = d.kept /\ c.sent = d.sent /\ c.cancelled = d.cancelled
      BY <1>2 DEF CallRecord, Pcs
    <2> HIDE DEF c
    <2> QED
      BY <2>1, <2>2, <2>3
  <1> HIDE DEF c
  <1>4. ASSUME Reads(c) PROVE UpOk(c, Mine(k))
    <2>1. /\ call[k].up = <<>> /\ call[k].sent = 0 /\ call[k].spc \in {"start", "read_header"}
          /\ call[k].taken = 0 /\ call[k].kept = None
      BY <1>1, <1>2, <1>3, <1>4 DEF StreamOk, UpOk, SameEnds, Reads
    <2>2. UpOffset(c) = 1 /\ (Broken(call[k]) <=> call[k].cancelled)
      BY <1>1, <1>2, <1>3, <2>1, CallFacts
         DEF UpOffset, SameEnds, Broken, Shape, HandlerShape
    <2>3. CASE call[k].cancelled
      BY <1>2, <1>3, <2>1, <2>2, <2>3
         DEF UpOk, SameEnds, SameTransfer, StreamPlaced, SmallLast
    <2>4. CASE ~call[k].cancelled
      <3>1. c.up = Append(<<>>, Header)
        BY <1>2, <1>3, <2>1, <2>2, <2>4
      <3>2. c.up = <<Header>> /\ Len(c.up) = 1 /\ c.up[1] = Header
        BY <3>1
      <3>3. ~Header.small
        BY DEF Header
      <3>4. StreamPlaced(c.up, 1, 0) /\ SmallLast(c.up)
        BY <3>2 DEF StreamPlaced, SmallLast
      <3>5. ~ \E j \in 1 .. Len(c.up) : c.up[j].small
        BY <3>2, <3>3
      <3> QED
        BY <1>2, <1>3, <2>1, <2>2, <3>2, <3>4, <3>5 DEF UpOk, SameEnds, SameTransfer
    <2> QED
      BY <2>3, <2>4
  <1>5. StreamOk(req'[k], c, Mine(k)')
    BY <1>1, <1>4 DEF StreamOk, Mine
  <1>6. \A j \in Calls : Mine(j)' = Mine(j)
    BY <1>1 DEF Mine
  <1> QED
    BY <1>1, <1>3, <1>5, <1>6, SetStream DEF DataInv, FilesPlaced

LEMMA StoreChunkPlaced ==
  ASSUME DataInv, NEW k \in Calls, StoreChunk(k)
  PROVE  StreamsOk' /\ FilesPlaced'
  <1> DEFINE i == call[k].sent + 1
             x == Message(Mine(k), i)
             d == SentUp(call[k], x)
             c == [d EXCEPT !.sent = i]
  <1>1. /\ call[k] \in CallRecord /\ call[k].pc = "send" /\ req[k].op = "store"
        /\ StreamOk(req[k], call[k], Mine(k)) /\ Set(k, c)
        /\ i <= Len(Mine(k)) /\ UNCHANGED <<dir, data, local, req, crashes>>
        /\ call[k].sent \in Nat /\ call[k].taken \in Nat /\ call[k].up \in Seq(Messages)
    BY CallFacts DEF StoreChunk, At
  <1>2. Mine(k) \in Texts /\ FilePlaced(Mine(k))
    <2>1. Mine(k) \in Texts
      BY <1>1, CallFacts DEF Opened, Opens
    <2> QED
      BY <1>1, <2>1, CallFacts DEF DataInv, FilesPlaced, Mine, Request
  <1>3. i \in Nat /\ i \in 1 .. Len(Mine(k)) /\ x \in Messages
    BY <1>1, <1>2, MessagesSent DEF Texts
  <1>4. InPlace(x.chunk, i) /\ (x.small => i = Len(Mine(k)))
    BY <1>2, <1>3, MessagePlaced
  <1> HIDE DEF x, i
  <1>5. /\ d \in CallRecord /\ SameEnds(call[k], d) /\ SameTransfer(call[k], d)
        /\ d.up = IF Broken(call[k]) THEN call[k].up ELSE Append(call[k].up, x)
    BY <1>1, <1>3, SentUpFields
  <1> HIDE DEF d
  <1>10. i \in Nat /\ d \in CallRecord /\ d.pc = "send"
    BY <1>1, <1>3, <1>5 DEF SameEnds
  <1>6. /\ c \in CallRecord /\ c.pc = "send" /\ c.up = d.up /\ c.spc = d.spc
        /\ c.taken = d.taken /\ c.kept = d.kept /\ c.sent = i /\ c.cancelled = d.cancelled
    <2>1. c \in CallRecord
      BY <1>10 DEF CallRecord
    <2>2. c.pc = "send" /\ c.up = d.up /\ c.spc = d.spc /\ c.taken = d.taken
      BY <1>10 DEF CallRecord
    <2>3. c.kept = d.kept /\ c.sent = i /\ c.cancelled = d.cancelled
      BY <1>10 DEF CallRecord
    <2> HIDE DEF c
    <2> QED
      BY <2>1, <2>2, <2>3
  <1> HIDE DEF c
  <1>7. ASSUME Reads(c) PROVE UpOk(c, Mine(k))
    <2>1. UpOk(call[k], Mine(k)) /\ (Broken(call[k]) <=> call[k].cancelled)
      BY <1>1, <1>5, <1>6, <1>7, CallFacts
         DEF StreamOk, SameEnds, Reads, Broken, Shape, HandlerShape
    <2>2. /\ call[k].kept = None
          /\ \A j \in 1 .. Len(call[k].up) : ~call[k].up[j].small
      BY <1>1, <2>1 DEF UpOk, i
    <2>3. UpOffset(c) = UpOffset(call[k]) /\ UpOffset(c) \in {0, 1}
      BY <1>5, <1>6 DEF UpOffset, SameEnds
    <2>4. CASE call[k].cancelled
      BY <1>1, <1>3, <1>5, <1>6, <2>1, <2>2, <2>3, <2>4 DEF i, UpOk, SameEnds, SameTransfer
    <2>5. CASE ~call[k].cancelled
      <3>1. Len(call[k].up) = call[k].sent - call[k].taken + UpOffset(c)
        BY <1>1, <2>1, <2>3, <2>5 DEF UpOk
      <3>2. c.up = Append(call[k].up, x) /\ Len(c.up) = Len(call[k].up) + 1
        BY <1>1, <1>3, <1>5, <1>6, <2>1, <2>5
      <3>3. call[k].taken + Len(call[k].up) + 1 - UpOffset(c) = i
        BY <1>1, <2>3, <3>1 DEF i
      <3>4. StreamPlaced(call[k].up, UpOffset(c), call[k].taken) /\ UpOffset(c) \in Nat
        BY <2>1, <2>3 DEF UpOk
      <3>5. StreamPlaced(c.up, UpOffset(c), c.taken) /\ SmallLast(c.up)
        <4>1. StreamPlaced(Append(call[k].up, x), UpOffset(c), call[k].taken)
              /\ SmallLast(Append(call[k].up, x))
          BY <1>1, <1>3, <1>4, <2>2, <3>3, <3>4, AppendPlaced
        <4> QED
          BY <1>5, <1>6, <3>2, <4>1 DEF SameTransfer
      <3>6. c.spc # "write" => c.taken = 0 /\ c.kept = None
        BY <1>5, <1>6, <2>1 DEF UpOk, SameEnds, SameTransfer
      <3>7. c.kept = None /\ c.pc # "header"
        BY <1>5, <1>6, <2>2 DEF SameTransfer
      <3>8. Len(c.up) = c.sent - c.taken + UpOffset(c)
        BY <1>1, <1>5, <1>6, <2>3, <3>1, <3>2 DEF SameTransfer, i
      <3>9. (\E j \in 1 .. Len(c.up) : c.up[j].small) => c.sent = Len(Mine(k))
        <4> SUFFICES ASSUME NEW j \in 1 .. Len(c.up), c.up[j].small PROVE c.sent = Len(Mine(k))
          OBVIOUS
        <4>1. CASE j = Len(c.up)
          BY <1>1, <1>3, <1>4, <1>6, <3>2, <4>1
        <4>2. CASE j # Len(c.up)
          BY <1>1, <1>3, <2>2, <3>2, <4>2
        <4> QED
          BY <4>1, <4>2
      <3> QED
        BY <3>5, <3>6, <3>7, <3>8, <3>9 DEF UpOk
    <2> QED
      BY <2>4, <2>5
  <1>8. StreamOk(req'[k], c, Mine(k)')
    BY <1>1, <1>7 DEF StreamOk, Mine
  <1>9. \A j \in Calls : Mine(j)' = Mine(j)
    BY <1>1 DEF Mine
  <1> QED
    BY <1>1, <1>6, <1>8, <1>9, SetStream DEF DataInv, FilesPlaced

(* A client that leaves its stream, a handler that does.                   *)
LEMMA LeftStream ==
  ASSUME NEW r, NEW c \in CallRecord, NEW d \in CallRecord, NEW s, NEW t, StreamOk(r, c, s),
         d.pc \notin {"header", "send", "open", "first", "receive"},
         d.spc = c.spc, d.up = c.up, d.taken = c.taken, d.kept = c.kept
  PROVE  StreamOk(r, d, t)
  BY DEF StreamOk, UpOk, Reads, Receives, UpOffset

LEMMA RepliedStream ==
  ASSUME NEW r, NEW c \in CallRecord, NEW s, NEW t, StreamOk(r, c, s), NEW x \in Replies
  PROVE  StreamOk(r, Replied(c, x), t)
  <1> DEFINE d == Replied(c, x)
  <1>1. /\ d \in CallRecord /\ d.spc = "done" /\ d.pc = c.pc /\ d.down = c.down
        /\ d.taken = c.taken /\ d.kept = c.kept
    BY RepliedFields DEF SameTransfer
  <1> HIDE DEF d
  <1>2. StreamOk(r, d, t)
    BY <1>1 DEF StreamOk, DownOk, Reads, Receives, DownOffset
  <1> QED
    BY <1>2 DEF d

LEMMA ReplyPlaced ==
  ASSUME DataInv, NEW k \in Calls, NEW x \in Replies, Set(k, Replied(call[k], x)),
         UNCHANGED <<data, local, req>>
  PROVE  StreamsOk' /\ FilesPlaced'
  <1> DEFINE c == Replied(call[k], x)
  <1>1. call[k] \in CallRecord /\ StreamOk(req[k], call[k], Mine(k))
    BY CallFacts
  <1>2. c \in CallRecord /\ StreamOk(req[k], c, Mine(k)')
    BY <1>1, RepliedFields, RepliedStream
  <1> HIDE DEF c
  <1>3. Set(k, c)
    BY DEF c
  <1>4. \A j \in Calls : Mine(j)' = Mine(j)
    BY DEF Mine
  <1> QED
    BY <1>2, <1>3, <1>4, SetStream DEF DataInv, FilesPlaced

LEMMA LeavePlaced ==
  ASSUME DataInv, NEW k \in Calls, NEW c \in CallRecord, Set(k, c),
         c.pc \notin {"header", "send", "open", "first", "receive"},
         c.spc = call[k].spc, c.up = call[k].up, c.taken = call[k].taken,
         c.kept = call[k].kept, UNCHANGED <<data, req>>, FilesPlaced',
         \A j \in Calls \ {k} : call[j].pc = "send" => Mine(j)' = Mine(j)
  PROVE  StreamsOk' /\ FilesPlaced'
  <1>1. call[k] \in CallRecord /\ StreamOk(req[k], call[k], Mine(k))
    BY CallFacts
  <1>2. StreamOk(req'[k], c, Mine(k)')
    BY <1>1, LeftStream
  <1> QED
    BY <1>2, SetStream

LEMMA StoreDonePlaced ==
  ASSUME DataInv, NEW k \in Calls, StoreDone(k)
  PROVE  StreamsOk' /\ FilesPlaced'
  <1> DEFINE c == [call[k] EXCEPT !.half = TRUE, !.pc = "finish"]
  <1>1. Set(k, c) /\ UNCHANGED <<dir, data, local, req, crashes>> /\ call[k] \in CallRecord
    BY CallFacts DEF StoreDone
  <1>2. /\ c \in CallRecord /\ c.pc = "finish" /\ c.spc = call[k].spc /\ c.up = call[k].up
        /\ c.taken = call[k].taken /\ c.kept = call[k].kept
    <2>1. c \in CallRecord
      BY <1>1 DEF CallRecord, Pcs
    <2>2. c.pc = "finish" /\ c.spc = call[k].spc /\ c.up = call[k].up
      BY <1>1 DEF CallRecord, Pcs
    <2>3. c.taken = call[k].taken /\ c.kept = call[k].kept
      BY <1>1 DEF CallRecord, Pcs
    <2> HIDE DEF c
    <2> QED
      BY <2>1, <2>2, <2>3
  <1> HIDE DEF c
  <1> QED
    BY <1>1, <1>2, LeavePlaced DEF DataInv, FilesPlaced, Mine

LEMMA ListEndPlaced ==
  ASSUME DataInv, NEW k \in Calls, ListEnd(k)
  PROVE  StreamsOk' /\ FilesPlaced'
  <1> DEFINE c == [call[k] EXCEPT !.pc = "finish"]
  <1>1. Set(k, c) /\ UNCHANGED <<dir, data, local, req, crashes>> /\ call[k] \in CallRecord
    BY CallFacts DEF ListEnd
  <1>2. /\ c \in CallRecord /\ c.pc = "finish" /\ c.spc = call[k].spc /\ c.up = call[k].up
        /\ c.taken = call[k].taken /\ c.kept = call[k].kept
    <2>1. c \in CallRecord
      BY <1>1 DEF CallRecord, Pcs
    <2>2. c.pc = "finish" /\ c.spc = call[k].spc /\ c.up = call[k].up
      BY <1>1 DEF CallRecord, Pcs
    <2>3. c.taken = call[k].taken /\ c.kept = call[k].kept
      BY <1>1 DEF CallRecord, Pcs
    <2> HIDE DEF c
    <2> QED
      BY <2>1, <2>2, <2>3
  <1> HIDE DEF c
  <1> QED
    BY <1>1, <1>2, LeavePlaced DEF DataInv, FilesPlaced, Mine

LEMMA HandleSignalPlaced ==
  ASSUME DataInv, NEW k \in Calls, HandleSignal(k)
  PROVE  StreamsOk' /\ FilesPlaced'
  <1> DEFINE c == [call[k] EXCEPT !.pc = "killed", !.cancelled = TRUE, !.down = <<>>]
  <1>1. Set(k, c) /\ UNCHANGED <<dir, data, local, req, crashes>> /\ call[k] \in CallRecord
    BY CallFacts DEF HandleSignal
  <1>2. /\ c \in CallRecord /\ c.pc = "killed" /\ c.spc = call[k].spc /\ c.up = call[k].up
        /\ c.taken = call[k].taken /\ c.kept = call[k].kept
    <2>1. c \in CallRecord
      BY <1>1, NothingSent DEF CallRecord, Pcs
    <2>2. c.pc = "killed" /\ c.spc = call[k].spc /\ c.up = call[k].up
      BY <1>1, NothingSent DEF CallRecord, Pcs
    <2>3. c.taken = call[k].taken /\ c.kept = call[k].kept
      BY <1>1, NothingSent DEF CallRecord, Pcs
    <2> HIDE DEF c
    <2> QED
      BY <2>1, <2>2, <2>3
  <1> HIDE DEF c
  <1> QED
    BY <1>1, <1>2, LeavePlaced DEF DataInv, FilesPlaced, Mine

LEMMA ReturnPlaced ==
  ASSUME DataInv, NEW k \in Calls, NEW s \in Codes, Set(k, Returned(call[k], s)),
         UNCHANGED <<dir, data, local, req, crashes>>
  PROVE  StreamsOk' /\ FilesPlaced'
  <1> DEFINE c == Returned(call[k], s)
  <1>1. Set(k, c) /\ call[k] \in CallRecord
    BY CallFacts
  <1>2. /\ c \in CallRecord /\ c.pc = "done" /\ c.spc = call[k].spc /\ c.up = call[k].up
        /\ c.taken = call[k].taken /\ c.kept = call[k].kept
    BY <1>1, ReturnedFields DEF SameTransfer
  <1> HIDE DEF c
  <1> QED
    BY <1>1, <1>2, LeavePlaced DEF DataInv, FilesPlaced, Mine

LEMMA FinishPlaced ==
  ASSUME DataInv, NEW k \in Calls, Finish(k)
  PROVE  StreamsOk' /\ FilesPlaced'
  <1> DEFINE s == IF call[k].cancelled THEN "DEADLINE_EXCEEDED"
                  ELSE IF call[k].reply = "FAILURE" THEN "NOT_FOUND" ELSE call[k].reply
  <1>1. call[k].reply \in Replies \cup {None}
    BY CallFacts DEF CallRecord
  <1>2. s \in Codes
    BY <1>1 DEF Finish, Codes, Replies
  <1>3. Set(k, Returned(call[k], s)) /\ UNCHANGED <<dir, data, local, req, crashes>>
    BY DEF Finish
  <1> QED
    BY <1>2, <1>3, ReturnPlaced

LEMMA FetchUnopenedPlaced ==
  ASSUME DataInv, NEW k \in Calls, FetchUnopened(k)
  PROVE  StreamsOk' /\ FilesPlaced'
  BY ReturnPlaced DEF FetchUnopened, Codes

LEMMA DeadlinePlaced ==
  ASSUME DataInv, NEW k \in Calls, Deadline(k)
  PROVE  StreamsOk' /\ FilesPlaced'
  <1> DEFINE c == [call[k] EXCEPT !.cancelled = TRUE]
  <1>1. /\ Set(k, c) /\ UNCHANGED <<dir, data, local, req, crashes>> /\ call[k] \in CallRecord
        /\ StreamOk(req[k], call[k], Mine(k))
    BY CallFacts DEF Deadline
  <1>2. /\ c \in CallRecord /\ c.cancelled = TRUE /\ c.pc = call[k].pc /\ c.spc = call[k].spc
        /\ c.up = call[k].up /\ c.down = call[k].down /\ c.sent = call[k].sent
        /\ c.taken = call[k].taken /\ c.kept = call[k].kept
    <2>1. c \in CallRecord
      BY <1>1 DEF CallRecord
    <2>2. c.cancelled = TRUE /\ c.pc = call[k].pc /\ c.spc = call[k].spc /\ c.up = call[k].up
      BY <1>1 DEF CallRecord
    <2>3. c.down = call[k].down /\ c.sent = call[k].sent /\ c.taken = call[k].taken /\ c.kept = call[k].kept
      BY <1>1 DEF CallRecord
    <2> HIDE DEF c
    <2> QED
      BY <2>1, <2>2, <2>3
  <1> HIDE DEF c
  <1>3. StreamOk(req[k], c, Mine(k))
    BY <1>1, <1>2 DEF StreamOk, UpOk, DownOk, Reads, Receives, UpOffset, DownOffset
  <1>4. \A j \in Calls : Mine(j)' = Mine(j)
    BY <1>1 DEF Mine
  <1> QED
    BY <1>1, <1>2, <1>3, <1>4, SetStream DEF DataInv, FilesPlaced

LEMMA StartPlaced ==
  ASSUME DataInv, NEW k \in Calls, Start(k)
  PROVE  StreamsOk' /\ FilesPlaced'
  <1>1. call[k] = NewCall /\ call[k] \in CallRecord /\ UNCHANGED <<dir, data, local, crashes>>
    BY CallFacts DEF Start, Shape, ClientShape
  <1>2. PICK r \in Request :
          /\ req' = [req EXCEPT ![k] = r]
          /\ \/ Set(k, Returned(call[k], "NOT_FOUND"))
             \/ Set(k, [call[k] EXCEPT
                      !.spc = "start",
                      !.pc = CASE r.op = "store" -> "header"
                               [] r.op = "fetch" -> "open"
                               [] r.op = "list" -> "receive"
                               [] OTHER -> "finish"])
    BY DEF Start
  <1>3. PICK c \in CallRecord : Set(k, c) /\ StreamOk(r, c, Mine(k)')
    <2>1. CASE Set(k, Returned(call[k], "NOT_FOUND"))
      <3> DEFINE c == Returned(call[k], "NOT_FOUND")
      <3>1. c \in CallRecord /\ c.pc = "done" /\ c.spc = "none"
        <4>1. call[k].spc = "none" /\ "NOT_FOUND" \in Codes
          BY <1>1 DEF Codes, Replies, NewCall
        <4> QED
          BY <1>1, <4>1, ReturnedFields
      <3>2. StreamOk(r, c, Mine(k)')
        BY <3>1 DEF StreamOk, Reads, Receives
      <3> QED
        BY <2>1, <3>1, <3>2
    <2>2. CASE Set(k, [call[k] EXCEPT
                      !.spc = "start",
                      !.pc = CASE r.op = "store" -> "header"
                               [] r.op = "fetch" -> "open"
                               [] r.op = "list" -> "receive"
                               [] OTHER -> "finish"])
      <3> DEFINE pc == CASE r.op = "store" -> "header"
                         [] r.op = "fetch" -> "open"
                         [] r.op = "list" -> "receive"
                         [] OTHER -> "finish"
                 c == [call[k] EXCEPT !.spc = "start", !.pc = pc]
      <3>1. /\ pc \in Pcs /\ (r.op = "store" => pc = "header") /\ (r.op = "fetch" => pc = "open")
        BY DEF Pcs
      <3> HIDE DEF pc
      <3>2. /\ c \in CallRecord /\ c.pc = pc /\ c.spc = "start"
        BY <1>1, <3>1 DEF CallRecord, ServerPcs
      <3>3. /\ c.up = <<>> /\ c.down = <<>> /\ c.sent = 0 /\ c.taken = 0 /\ c.kept = None
        BY <1>1 DEF NewCall
      <3>4. Set(k, c)
        BY <2>2 DEF pc
      <3> HIDE DEF c
      <3>5. StreamPlaced(<<>>, 1, 0) /\ SmallLast(<<>>)
        BY DEF StreamPlaced, SmallLast
      <3>6. StreamOk(r, c, Mine(k)')
        BY <3>1, <3>2, <3>3, <3>5
           DEF StreamOk, UpOk, DownOk, Reads, Receives, UpOffset, DownOffset
      <3> QED
        BY <3>2, <3>4, <3>6
    <2> QED
      BY <1>2, <2>1, <2>2
  <1>4. req'[k] = r /\ \A j \in Calls \ {k} : req'[j] = req[j] /\ Mine(j)' = Mine(j)
    BY <1>1, <1>2 DEF DataInv, ShapeInv, Typed, Mine
  <1> QED
    BY <1>1, <1>3, <1>4, SetStream DEF DataInv, FilesPlaced

LEMMA FetchOpenPlaced ==
  ASSUME DataInv, NEW k \in Calls, FetchOpen(k)
  PROVE  StreamsOk' /\ FilesPlaced'
  <1>1. /\ call[k] \in CallRecord /\ StreamOk(req[k], call[k], Mine(k))
        /\ call[k].pc = "open" /\ req[k].op = "fetch" /\ UNCHANGED <<dir, data, req, crashes>>
    BY CallFacts DEF FetchOpen, At
  <1>2. PICK pc \in {"first", "first_unopened"} :
          /\ Set(k, [call[k] EXCEPT !.pc = pc])
          /\ \/ local' = [local EXCEPT ![req[k].mount][req[k].file] = <<>>]
             \/ UNCHANGED local
    BY DEF FetchOpen
  <1> DEFINE c == [call[k] EXCEPT !.pc = pc]
  <1>3. /\ c \in CallRecord /\ c.pc = pc /\ c.spc = call[k].spc /\ c.down = call[k].down
        /\ c.sent = call[k].sent /\ c.taken = call[k].taken /\ c.kept = call[k].kept
        /\ c.cancelled = call[k].cancelled
    <2>1. c \in CallRecord
      BY <1>1 DEF CallRecord, Pcs
    <2>2. c.pc = pc /\ c.spc = call[k].spc /\ c.down = call[k].down /\ c.sent = call[k].sent
      BY <1>1 DEF CallRecord, Pcs
    <2>3. c.taken = call[k].taken /\ c.kept = call[k].kept /\ c.cancelled = call[k].cancelled
      BY <1>1 DEF CallRecord, Pcs
    <2> HIDE DEF c
    <2> QED
      BY <2>1, <2>2, <2>3
  <1>4. Set(k, c)
    BY <1>2
  <1> HIDE DEF c
  <1>5. StreamOk(req'[k], c, Mine(k)')
    BY <1>1, <1>3 DEF StreamOk, DownOk, Receives, DownOffset
  <1>6. FilesPlaced' /\ \A j \in Calls \ {k} : call[j].pc = "send" => Mine(j)' = Mine(j)
    <2>1. CASE local' = [local EXCEPT ![req[k].mount][req[k].file] = <<>>]
      <3>1. <<>> \in Texts /\ FilePlaced(<<>>)
        BY HoleIsText DEF FilePlaced
      <3> QED
        BY <1>1, <2>1, <3>1, MineReplaced DEF Running
    <2>2. CASE UNCHANGED local
      BY <1>1, <2>2 DEF DataInv, FilesPlaced, Mine
    <2> QED
      BY <1>2, <2>1, <2>2
  <1> QED
    BY <1>1, <1>3, <1>4, <1>5, <1>6, SetStream

LEMMA FetchFirstPlaced ==
  ASSUME DataInv, NEW k \in Calls, FetchFirst(k)
  PROVE  StreamsOk' /\ FilesPlaced'
  <1>1. /\ call[k] \in CallRecord /\ StreamOk(req[k], call[k], Mine(k))
        /\ call[k].pc = "first" /\ req[k].op = "fetch" /\ UNCHANGED <<dir, data, local, req, crashes>>
        /\ call[k].down \in Seq(Messages \cup Entries)
    BY CallFacts DEF FetchFirst, At, CallRecord
  <1>2. DownOk(call[k])
    BY <1>1 DEF StreamOk, Receives
  <1>3. PICK down \in Seq(Messages \cup Entries) :
          /\ Set(k, [call[k] EXCEPT !.down = down, !.pc = "receive"])
          /\ \/ call[k].down # <<>> /\ down = Tail(call[k].down)
             \/ DownEnded(call[k]) /\ down = <<>>
    <2>1. call[k].down # <<>> => Tail(call[k].down) \in Seq(Messages \cup Entries)
      BY <1>1, HeadTaken
    <2> QED
      BY <2>1, NothingSent DEF FetchFirst
  <1> DEFINE c == [call[k] EXCEPT !.down = down, !.pc = "receive"]
  <1>4. /\ c \in CallRecord /\ c.pc = "receive" /\ c.spc = call[k].spc /\ c.down = down
        /\ c.sent = call[k].sent /\ c.taken = call[k].taken /\ c.kept = call[k].kept
        /\ c.cancelled = call[k].cancelled
    <2>1. c \in CallRecord
      BY <1>1 DEF CallRecord, Pcs
    <2>2. c.pc = "receive" /\ c.spc = call[k].spc /\ c.down = down /\ c.sent = call[k].sent
      BY <1>1 DEF CallRecord, Pcs
    <2>3. c.taken = call[k].taken /\ c.kept = call[k].kept /\ c.cancelled = call[k].cancelled
      BY <1>1 DEF CallRecord, Pcs
    <2> HIDE DEF c
    <2> QED
      BY <2>1, <2>2, <2>3
  <1>5. Set(k, c)
    BY <1>3
  <1> HIDE DEF c
  <1>6. DownOk(c)
    <2>1. CASE call[k].down # <<>> /\ down = Tail(call[k].down)
      <3>1. Len(down) = Len(call[k].down) - 1
        BY <1>1, <2>1, HeadTaken
      <3>2. /\ StreamPlaced(call[k].down, 1, 0) /\ SmallLast(call[k].down)
        BY <1>1, <1>2 DEF DownOk, DownOffset
      <3>3. /\ StreamPlaced(down, 0, 0) /\ SmallLast(down)
            /\ (\E j \in 1 .. Len(down) : down[j].small)
                  => \E j \in 1 .. Len(call[k].down) : call[k].down[j].small
        BY <1>1, <2>1, <3>2, TailPlaced
      <3> QED
        BY <1>1, <1>2, <1>4, <2>1, <3>1, <3>3 DEF DownOk, DownOffset, CallRecord
    <2>2. CASE DownEnded(call[k]) /\ down = <<>>
      <3>1. StreamPlaced(down, 0, 0) /\ SmallLast(down) /\ Len(down) = 0
        BY <2>2 DEF StreamPlaced, SmallLast
      <3>2. call[k].cancelled \/ call[k].spc = "done"
        BY <1>1, <2>2, CallFacts DEF DownEnded, Shape, HandlerShape
      <3> QED
        BY <1>1, <1>2, <1>4, <2>2, <3>1, <3>2 DEF DownOk, DownOffset
    <2> QED
      BY <1>3, <2>1, <2>2
  <1>7. StreamOk(req'[k], c, Mine(k)') /\ \A j \in Calls : Mine(j)' = Mine(j)
    BY <1>1, <1>6 DEF StreamOk, Mine
  <1> QED
    BY <1>1, <1>4, <1>5, <1>7, SetStream DEF DataInv, FilesPlaced

(* What the receiver of a message in place becomes.                        *)
LEMMA TakenPlaced ==
  ASSUME NEW c \in CallRecord, NEW q \in Seq(Messages), q # <<>>, SmallLast(q),
         StreamPlaced(q, 0, c.taken), c.kept = None
  PROVE  LET d == Taken(c, Head(q)) IN
         /\ InPlace(Head(q).chunk, c.taken + 1)
         /\ StreamPlaced(Tail(q), 0, d.taken) /\ SmallLast(Tail(q))
         /\ d.kept # None => /\ d.taken > 0 /\ InPlace(d.kept, d.taken) /\ Tail(q) = <<>>
                             /\ \E j \in 1 .. Len(q) : q[j].small
         /\ (\E j \in 1 .. Len(Tail(q)) : Tail(q)[j].small)
               => \E j \in 1 .. Len(q) : q[j].small
         /\ Len(Tail(q)) = Len(q) - 1
  <1> DEFINE x == Head(q)
             d == Taken(c, x)
  <1>1. /\ x \in Messages /\ x = q[1] /\ Len(Tail(q)) = Len(q) - 1 /\ 1 \in 1 .. Len(q)
        /\ c.taken \in Nat
    BY HeadTaken DEF CallRecord
  <1>2. /\ InPlace(x.chunk, c.taken + 1) /\ StreamPlaced(Tail(q), 0, c.taken + 1)
        /\ SmallLast(Tail(q)) /\ (x.small => Tail(q) = <<>>)
        /\ (\E j \in 1 .. Len(Tail(q)) : Tail(q)[j].small)
               => \E j \in 1 .. Len(q) : q[j].small
    BY <1>1, TailPlaced
  <1> HIDE DEF x
  <1>3. d.taken = c.taken + 1 /\ d.kept = IF x.small /\ ~c.bad THEN x.chunk ELSE c.kept
    BY <1>1, TakenFields
  <1> HIDE DEF d
  <1>4. d.kept # None => x.small /\ d.kept = x.chunk
    BY <1>3
  <1>5. x.small => \E j \in 1 .. Len(q) : q[j].small
    BY <1>1
  <1>6. d.kept # None => /\ d.taken > 0 /\ InPlace(d.kept, d.taken) /\ Tail(q) = <<>>
                         /\ \E j \in 1 .. Len(q) : q[j].small
    BY <1>1, <1>2, <1>3, <1>4, <1>5
  <1> QED
    BY <1>1, <1>2, <1>3, <1>6 DEF x, d

LEMMA FetchChunkPlaced ==
  ASSUME DataInv, NEW k \in Calls, FetchChunk(k)
  PROVE  StreamsOk' /\ FilesPlaced'
  <1> DEFINE x == Head(call[k].down)
             d == Taken(call[k], x)
             down == Tail(call[k].down)
  <1>1. /\ call[k] \in CallRecord /\ StreamOk(req[k], call[k], Mine(k))
        /\ call[k].pc = "receive" /\ req[k].op = "fetch" /\ call[k].down # <<>>
        /\ UNCHANGED <<dir, data, req, crashes>>
    BY CallFacts DEF FetchChunk, At
  <1>2. /\ DownOk(call[k]) /\ call[k].down \in Seq(Messages) /\ req[k] \in Request
        /\ Mine(k) \in Texts
    BY <1>1, CallFacts DEF StreamOk, Receives, Shape, StreamShape, Opened, Opens
  <1>3. /\ x \in Messages /\ down \in Seq(Messages) /\ down \in Seq(Messages \cup Entries)
    BY <1>1, <1>2, HeadTaken
  <1>4. /\ d \in CallRecord /\ SameEnds(call[k], d) /\ d.down = call[k].down
        /\ d.taken = call[k].taken + 1 /\ d.sent = call[k].sent
    BY <1>1, <1>3, TakenFields
  <1>5. /\ InPlace(x.chunk, call[k].taken + 1)
        /\ StreamPlaced(down, 0, d.taken) /\ SmallLast(down)
        /\ d.kept # None => /\ d.taken > 0 /\ InPlace(d.kept, d.taken) /\ down = <<>>
                            /\ \E j \in 1 .. Len(call[k].down) : call[k].down[j].small
        /\ (\E j \in 1 .. Len(down) : down[j].small)
               => \E j \in 1 .. Len(call[k].down) : call[k].down[j].small
        /\ Len(down) = Len(call[k].down) - 1
    <2>1. /\ SmallLast(call[k].down) /\ StreamPlaced(call[k].down, 0, call[k].taken)
          /\ call[k].kept = None
      BY <1>1, <1>2 DEF DownOk, DownOffset
    <2> QED
      BY <1>1, <1>2, <2>1, TakenPlaced
  <1>6. PICK bad \in BOOLEAN :
          /\ Set(k, [d EXCEPT !.down = down, !.bad = bad])
          /\ \/ local' = [local EXCEPT ![req[k].mount][req[k].file] = Written(call[k], x, Mine(k))]
             \/ UNCHANGED local
    <2>1. d.bad \in BOOLEAN
      BY <1>4 DEF CallRecord
    <2>2. [d EXCEPT !.down = down, !.bad = d.bad] = [d EXCEPT !.down = down]
      BY <1>4 DEF CallRecord
    <2>3. CASE /\ Set(k, [d EXCEPT !.down = Tail(@)])
               /\ local' = [local EXCEPT ![req[k].mount][req[k].file] = Written(call[k], x, @)]
      BY <1>4, <2>1, <2>2, <2>3 DEF Mine
    <2>4. CASE /\ Set(k, [[d EXCEPT !.down = Tail(@)] EXCEPT !.bad = TRUE])
               /\ UNCHANGED local
      BY <1>4, <2>4
    <2> QED
      BY <2>3, <2>4 DEF FetchChunk
  <1> DEFINE c == [d EXCEPT !.down = down, !.bad = bad]
  <1> HIDE DEF x, d, down
  <1>7. /\ c \in CallRecord /\ c.down = down /\ c.pc = d.pc /\ c.spc = d.spc /\ c.sent = d.sent
        /\ c.taken = d.taken /\ c.kept = d.kept /\ c.cancelled = d.cancelled
    <2>1. c \in CallRecord
      BY <1>3, <1>4 DEF CallRecord
    <2>2. c.down = down /\ c.pc = d.pc /\ c.spc = d.spc /\ c.sent = d.sent
      BY <1>3, <1>4 DEF CallRecord
    <2>3. c.taken = d.taken /\ c.kept = d.kept /\ c.cancelled = d.cancelled
      BY <1>3, <1>4 DEF CallRecord
    <2> HIDE DEF c
    <2> QED
      BY <2>1, <2>2, <2>3
  <1>8. Set(k, c)
    BY <1>6
  <1> HIDE DEF c
  <1>9. DownOk(c)
    <2>1. DownOffset(c) = 0 /\ DownOffset(call[k]) = 0 /\ c.pc = "receive"
      BY <1>1, <1>4, <1>7 DEF DownOffset, SameEnds
    <2>2. c.kept # None \/ (\E j \in 1 .. Len(c.down) : c.down[j].small)
            => c.spc \in {"read_end", "done"}
      BY <1>2, <1>4, <1>5, <1>7 DEF DownOk, SameEnds
    <2>3. c.spc \notin {"start", "fetch_stat"}
      BY <1>1, <1>2, <1>4, <1>7 DEF DownOk, SameEnds
    <2>4. c.spc = "open_read" => c.sent = 0
      BY <1>2, <1>4, <1>7 DEF DownOk, SameEnds
    <2>5. c.spc \in {"open_read", "read"} /\ ~c.cancelled => Len(c.down) = c.sent - c.taken + 0
      BY <1>1, <1>2, <1>4, <1>5, <1>7, <2>1 DEF DownOk, SameEnds, CallRecord
    <2> QED
      BY <1>5, <1>7, <2>1, <2>2, <2>3, <2>4, <2>5 DEF DownOk
  <1>10. StreamOk(req'[k], c, Mine(k)')
    BY <1>1, <1>9 DEF StreamOk
  <1>11. FilesPlaced' /\ \A j \in Calls \ {k} : call[j].pc = "send" => Mine(j)' = Mine(j)
    <2>1. CASE local' = [local EXCEPT ![req[k].mount][req[k].file] = Written(call[k], x, Mine(k))]
      <3>1. FilePlaced(Mine(k))
        BY <1>2 DEF DataInv, FilesPlaced, Mine, Request
      <3>2. PICK s \in Texts : FilePlaced(s) /\ s = Written(call[k], x, Mine(k))
        BY <1>1, <1>2, <1>3, <1>5, <3>1, WritesTyped, WritesPlaced
      <3> QED
        BY <1>1, <2>1, <3>2, MineReplaced DEF Running
    <2>2. CASE UNCHANGED local
      BY <1>1, <2>2 DEF DataInv, FilesPlaced, Mine
    <2> QED
      BY <1>6, <2>1, <2>2
  <1> QED
    BY <1>1, <1>7, <1>8, <1>10, <1>11, SetStream

LEMMA FetchEndPlaced ==
  ASSUME DataInv, NEW k \in Calls, FetchEnd(k)
  PROVE  StreamsOk' /\ FilesPlaced'
  <1>1. /\ call[k] \in CallRecord /\ StreamOk(req[k], call[k], Mine(k))
        /\ call[k].pc = "receive" /\ req[k].op = "fetch" /\ UNCHANGED <<dir, data, req, crashes>>
    BY CallFacts DEF FetchEnd, At
  <1>2. /\ DownOk(call[k]) /\ req[k] \in Request /\ Mine(k) \in Texts
    BY <1>1, CallFacts DEF StreamOk, Receives, Opened, Opens
  <1>3. CASE Set(k, Returned(call[k], "CANCELLED")) /\ UNCHANGED local
    BY <1>1, <1>3, ReturnPlaced DEF Codes
  <1>4. CASE /\ Set(k, [call[k] EXCEPT !.pc = "finish"])
             /\ local' = [local EXCEPT ![req[k].mount][req[k].file] = Flushed(call[k], @)]
    <2> DEFINE c == [call[k] EXCEPT !.pc = "finish"]
    <2>1. /\ c \in CallRecord /\ c.pc = "finish" /\ c.spc = call[k].spc /\ c.up = call[k].up
          /\ c.taken = call[k].taken /\ c.kept = call[k].kept
      <3>1. c \in CallRecord
        BY <1>1 DEF CallRecord, Pcs
      <3>2. c.pc = "finish" /\ c.spc = call[k].spc /\ c.up = call[k].up
        BY <1>1 DEF CallRecord, Pcs
      <3>3. c.taken = call[k].taken /\ c.kept = call[k].kept
        BY <1>1 DEF CallRecord, Pcs
      <3> HIDE DEF c
      <3> QED
        BY <3>1, <3>2, <3>3
    <2>2. Set(k, c)
      BY <1>4
    <2> HIDE DEF c
    <2>3. FilePlaced(Mine(k))
      BY <1>2 DEF DataInv, FilesPlaced, Mine, Request
    <2>4. PICK s \in Texts : FilePlaced(s) /\ s = Flushed(call[k], Mine(k))
      BY <1>1, <1>2, <2>3, WritesTyped, WritesPlaced DEF DownOk
    <2>5. FilesPlaced' /\ \A j \in Calls \ {k} : call[j].pc = "send" => Mine(j)' = Mine(j)
      BY <1>1, <1>4, <2>4, MineReplaced DEF Running, Mine
    <2> QED
      BY <1>1, <2>1, <2>2, <2>5, LeavePlaced
  <1>5. CASE Set(k, [call[k] EXCEPT !.pc = "finish", !.lost = TRUE]) /\ UNCHANGED local
    <2> DEFINE c == [call[k] EXCEPT !.pc = "finish", !.lost = TRUE]
    <2>1. /\ c \in CallRecord /\ c.pc = "finish" /\ c.spc = call[k].spc /\ c.up = call[k].up
          /\ c.taken = call[k].taken /\ c.kept = call[k].kept
      <3>1. c \in CallRecord
        BY <1>1 DEF CallRecord, Pcs
      <3>2. c.pc = "finish" /\ c.spc = call[k].spc /\ c.up = call[k].up
        BY <1>1 DEF CallRecord, Pcs
      <3>3. c.taken = call[k].taken /\ c.kept = call[k].kept
        BY <1>1 DEF CallRecord, Pcs
      <3> HIDE DEF c
      <3> QED
        BY <3>1, <3>2, <3>3
    <2>2. Set(k, c)
      BY <1>5
    <2> HIDE DEF c
    <2> QED
      BY <1>1, <1>5, <2>1, <2>2, LeavePlaced DEF DataInv, FilesPlaced, Mine
  <1> QED
    BY <1>3, <1>4, <1>5 DEF FetchEnd

(* A step of a call that is no transfer and writes no file.                *)
LEMMA OtherPlaced ==
  ASSUME DataInv, NEW k \in Calls, NEW c \in CallRecord, Set(k, c),
         req[k].op \notin {"store", "fetch"}, UNCHANGED <<data, local, req>>
  PROVE  StreamsOk' /\ FilesPlaced'
  <1>1. StreamOk(req'[k], c, Mine(k)')
    BY DEF StreamOk
  <1> QED
    BY <1>1, SetStream DEF DataInv, FilesPlaced, Mine

LEMMA ListEntryPlaced ==
  ASSUME DataInv, NEW k \in Calls, ListEntry(k)
  PROVE  StreamsOk' /\ FilesPlaced'
  <1> DEFINE x == Head(call[k].down)
             down == Tail(call[k].down)
             map == [call[k].map EXCEPT ![x.name] = IF @ = None THEN x.date ELSE @]
             c == [call[k] EXCEPT !.down = down, !.map = map]
  <1>1. /\ call[k] \in CallRecord /\ Shape(req[k], call[k])
        /\ call[k].pc = "receive" /\ req[k].op = "list" /\ call[k].down # <<>>
        /\ UNCHANGED <<dir, data, local, req, crashes>> /\ Set(k, c)
    BY CallFacts DEF ListEntry, At
  <1>2. call[k].down \in Seq(Entries)
    BY <1>1 DEF Shape, ClientShape, StreamShape
  <1>3. /\ x \in Entries /\ down \in Seq(Messages \cup Entries)
    BY <1>1, <1>2, HeadTaken
  <1>4. map \in [Files -> Files \cup {None, 0}]
    BY <1>1, <1>3 DEF CallRecord, Entries
  <1> HIDE DEF down, map
  <1>5. c \in CallRecord
    BY <1>1, <1>3, <1>4 DEF CallRecord
  <1> HIDE DEF c
  <1> QED
    BY <1>1, <1>5, OtherPlaced

----------------------------------------------------------------------------
(* The handler's steps.                                                    *)

LEMMA BeginPlaced ==
  ASSUME DataInv, NEW k \in Calls, Begin(k)
  PROVE  StreamsOk' /\ FilesPlaced'
  <1>1. /\ call[k] \in CallRecord /\ StreamOk(req[k], call[k], Mine(k))
        /\ call[k].spc = "start" /\ req[k] \in Request
        /\ UNCHANGED <<dir, data, local, req, crashes>>
    BY CallFacts DEF Begin, SAt
  <1>2. CASE call[k].cancelled
    BY <1>1, <1>2, ReplyPlaced DEF Begin, Replies
  <1>3. CASE ~call[k].cancelled
    <2> DEFINE spc == CASE req[k].op = "store" -> "read_header"
                        [] req[k].op = "fetch" -> "fetch_stat"
                        [] req[k].op = "delete" -> "remove"
                        [] req[k].op = "list" -> "open_dir"
                        [] req[k].op = "stat" -> "stat_file"
               c == [call[k] EXCEPT !.spc = spc]
    <2>1. req[k].op \in AllCommands
      BY <1>1, Part1Assumption DEF Request
    <2>2. /\ spc \in ServerPcs
          /\ (req[k].op = "store" => spc = "read_header")
          /\ (req[k].op = "fetch" => spc = "fetch_stat")
      BY <2>1 DEF AllCommands, ServerPcs
    <2> HIDE DEF spc
    <2>3. /\ c \in CallRecord /\ c.spc = spc /\ c.pc = call[k].pc /\ c.up = call[k].up
          /\ c.down = call[k].down /\ c.cancelled = call[k].cancelled /\ c.sent = call[k].sent
          /\ c.taken = call[k].taken /\ c.kept = call[k].kept
      <3>1. c \in CallRecord
        BY <1>1, <2>2 DEF CallRecord
      <3>2. c.spc = spc /\ c.pc = call[k].pc /\ c.up = call[k].up /\ c.down = call[k].down
        BY <1>1, <2>2 DEF CallRecord
      <3>3. c.cancelled = call[k].cancelled /\ c.sent = call[k].sent /\ c.taken = call[k].taken /\ c.kept = call[k].kept
        BY <1>1, <2>2 DEF CallRecord
      <3> HIDE DEF c
      <3> QED
        BY <3>1, <3>2, <3>3
    <2>4. Set(k, c)
      BY <1>3 DEF Begin, spc
    <2> HIDE DEF c
    <2>5. StreamOk(req[k], c, Mine(k))
      BY <1>1, <2>2, <2>3
         DEF StreamOk, UpOk, DownOk, Reads, Receives, UpOffset, DownOffset
    <2> QED
      BY <1>1, <2>3, <2>4, <2>5, SetStream DEF DataInv, FilesPlaced, Mine
  <1> QED
    BY <1>2, <1>3

LEMMA ReadHeaderPlaced ==
  ASSUME DataInv, NEW k \in Calls, ReadHeader(k)
  PROVE  StreamsOk' /\ FilesPlaced'
  <1>1. /\ call[k] \in CallRecord /\ StreamOk(req[k], call[k], Mine(k))
        /\ call[k].spc = "read_header" /\ call[k].up \in Seq(Messages) /\ req[k].op = "store"
        /\ UNCHANGED <<dir, data, local, req, crashes>>
    BY CallFacts DEF ReadHeader, SAt, Shape, HandlerShape
  <1>2. CASE Set(k, Replied(call[k], "NOT_FOUND"))
    BY <1>1, <1>2, ReplyPlaced DEF Replies
  <1>3. CASE call[k].up # <<>> /\ Set(k, [call[k] EXCEPT !.up = Tail(@), !.spc = "open"])
    <2> DEFINE up == Tail(call[k].up)
               c == [call[k] EXCEPT !.up = up, !.spc = "open"]
    <2>1. /\ UpOk(call[k], Mine(k)) /\ UpOffset(call[k]) = 1
      BY <1>1 DEF StreamOk, Reads, UpOffset
    <2>2. /\ up \in Seq(Messages) /\ Len(up) = Len(call[k].up) - 1 /\ SmallLast(up)
          /\ StreamPlaced(up, 0, 0)
          /\ (\E j \in 1 .. Len(up) : up[j].small)
               => \E j \in 1 .. Len(call[k].up) : call[k].up[j].small
      <3>1. StreamPlaced(call[k].up, 1, 0) /\ SmallLast(call[k].up)
        BY <1>1, <2>1 DEF UpOk
      <3> QED
        BY <1>1, <1>3, <3>1, HeadTaken, TailPlaced
    <2>3. Set(k, c)
      BY <1>3
    <2> HIDE DEF up
    <2>4. /\ c \in CallRecord /\ c.spc = "open" /\ c.pc = call[k].pc /\ c.up = up
          /\ c.cancelled = call[k].cancelled /\ c.sent = call[k].sent
          /\ c.taken = call[k].taken /\ c.kept = call[k].kept
      <3>1. c \in CallRecord
        BY <1>1, <2>2 DEF CallRecord, ServerPcs
      <3>2. c.spc = "open" /\ c.pc = call[k].pc /\ c.up = up /\ c.cancelled = call[k].cancelled
        BY <1>1, <2>2 DEF CallRecord, ServerPcs
      <3>3. c.sent = call[k].sent /\ c.taken = call[k].taken /\ c.kept = call[k].kept
        BY <1>1, <2>2 DEF CallRecord, ServerPcs
      <3> HIDE DEF c
      <3> QED
        BY <3>1, <3>2, <3>3
    <2> HIDE DEF c
    <2>5. UpOk(c, Mine(k))
      BY <1>1, <1>3, <2>1, <2>2, <2>4 DEF UpOk, UpOffset, CallRecord
    <2>6. StreamOk(req[k], c, Mine(k))
      BY <1>1, <2>5 DEF StreamOk
    <2> QED
      BY <1>1, <2>3, <2>4, <2>6, SetStream DEF DataInv, FilesPlaced, Mine
  <1> QED
    BY <1>2, <1>3 DEF ReadHeader

(* A step of call k that the others witness.                               *)
LEMMA WitnessedStream ==
  ASSUME DataInv, NEW k \in Calls, NEW f \in Files, NEW there \in BOOLEAN,
         NEW c \in CallRecord, StreamOk(req[k], c, Mine(k)),
         call' = [Witnessed(k, f, there) EXCEPT ![k] = Settled(c)],
         UNCHANGED <<local, req>>
  PROVE  StreamsOk'
  <1>1. ShapeInv /\ StreamsOk
    BY DEF DataInv
  <1>2. /\ call'[k] = Settled(c)
        /\ \A j \in Calls \ {k} : call'[j] = Witnessed(k, f, there)[j] /\ Witness(j, k, f, there)
    BY <1>1, WitnessOthers
  <1>3. \A j \in Calls \ {k} : call'[j] \in CallRecord /\ SameButWitness(call[j], call'[j])
    BY <1>2 DEF Witness
  <1>4. \A j \in Calls : Mine(j)' = Mine(j)
    BY DEF Mine
  <1> QED
    BY <1>1, <1>2, <1>3, <1>4, StreamStep

LEMMA OpenForWritePlaced ==
  ASSUME DataInv, NEW k \in Calls, OpenForWrite(k)
  PROVE  StreamsOk' /\ FilesPlaced'
  <1> DEFINE f == req[k].file
             n == IF dir[f] = None THEN k ELSE dir[f]
             c == [call[k] EXCEPT !.spc = "write", !.fd = n]
  <1>1. /\ call[k] \in CallRecord /\ StreamOk(req[k], call[k], Mine(k))
        /\ call[k].spc = "open" /\ req[k].op = "store" /\ f \in Files
        /\ data' = [data EXCEPT ![n] = <<>>]
        /\ call' = [Witnessed(k, f, TRUE) EXCEPT ![k].spc = "write", ![k].fd = n]
        /\ UNCHANGED <<local, req, crashes>>
    BY CallFacts DEF OpenForWrite, SAt, Shape, HandlerShape, Request
  <1>2. n \in Inodes
    BY <1>1 DEF DataInv, ShapeInv, Typed, Inodes
  <1>3. Witnessed(k, f, TRUE)[k] = call[k]
    BY <1>1 DEF Listing, Witnessed
  <1> HIDE DEF n
  <1>4. call' = [Witnessed(k, f, TRUE) EXCEPT ![k] = c]
    BY <1>1, <1>3 DEF Witnessed
  <1>5. /\ c \in CallRecord /\ c.spc = "write" /\ c.pc = call[k].pc /\ c.up = call[k].up
        /\ c.cancelled = call[k].cancelled /\ c.sent = call[k].sent
        /\ c.taken = call[k].taken /\ c.kept = call[k].kept
    <2>1. c \in CallRecord
      BY <1>1, <1>2 DEF CallRecord, ServerPcs
    <2>2. c.spc = "write" /\ c.pc = call[k].pc /\ c.up = call[k].up /\ c.cancelled = call[k].cancelled
      BY <1>1, <1>2 DEF CallRecord, ServerPcs
    <2>3. c.sent = call[k].sent /\ c.taken = call[k].taken /\ c.kept = call[k].kept
      BY <1>1, <1>2 DEF CallRecord, ServerPcs
    <2> HIDE DEF c
    <2> QED
      BY <2>1, <2>2, <2>3
  <1> HIDE DEF c, f
  <1>6. Settled(c) = c
    BY <1>5 DEF Settled
  <1>7. StreamOk(req[k], c, Mine(k))
    BY <1>1, <1>5 DEF StreamOk, UpOk, Reads, UpOffset
  <1>8. StreamsOk'
    BY <1>1, <1>4, <1>5, <1>6, <1>7, WitnessedStream
  <1>9. FilesPlaced'
    BY <1>1, <1>2 DEF DataInv, ShapeInv, Typed, FilesPlaced, FilePlaced
  <1> QED
    BY <1>8, <1>9

LEMMA WriteChunkPlaced ==
  ASSUME DataInv, NEW k \in Calls, WriteChunk(k)
  PROVE  StreamsOk' /\ FilesPlaced'
  <1> DEFINE x == Head(call[k].up)
             up == Tail(call[k].up)
             d == Taken(call[k], x)
             f == req[k].file
             n == call[k].fd
  <1>1. /\ call[k] \in CallRecord /\ call[k].spc = "write" /\ req[k].op = "store"
        /\ UpOk(call[k], Mine(k)) /\ call[k].up \in Seq(Messages) /\ call[k].up # <<>>
        /\ f \in Files /\ n \in Inodes /\ UNCHANGED <<dir, local, req, crashes>>
    BY CallFacts DEF WriteChunk, SAt, Shape, HandlerShape, Request, StreamOk, Reads
  <1>2. /\ x \in Messages /\ up \in Seq(Messages)
    BY <1>1, HeadTaken
  <1>3. /\ d \in CallRecord /\ SameEnds(call[k], d) /\ d.up = call[k].up
        /\ d.taken = call[k].taken + 1 /\ d.sent = call[k].sent
    BY <1>1, <1>2, TakenFields
  <1>4. /\ InPlace(x.chunk, call[k].taken + 1)
        /\ StreamPlaced(up, 0, d.taken) /\ SmallLast(up)
        /\ d.kept # None => /\ d.taken > 0 /\ InPlace(d.kept, d.taken) /\ up = <<>>
                            /\ \E j \in 1 .. Len(call[k].up) : call[k].up[j].small
        /\ (\E j \in 1 .. Len(up) : up[j].small)
               => \E j \in 1 .. Len(call[k].up) : call[k].up[j].small
        /\ Len(up) = Len(call[k].up) - 1
    <2>1. /\ SmallLast(call[k].up) /\ StreamPlaced(call[k].up, 0, call[k].taken)
          /\ call[k].kept = None
      BY <1>1 DEF UpOk, UpOffset
    <2> QED
      BY <1>1, <2>1, TakenPlaced
  <1>5. PICK bad \in BOOLEAN :
          LET c == [d EXCEPT !.up = up, !.bad = bad] IN
          \/ /\ data' = [data EXCEPT ![n] = Written(call[k], x, @)]
             /\ call' = [Witnessed(k, f, dir[f] # None) EXCEPT ![k] = c]
          \/ Set(k, c) /\ UNCHANGED data
    <2>1. d.bad \in BOOLEAN
      BY <1>3 DEF CallRecord
    <2>2. [d EXCEPT !.up = up, !.bad = d.bad] = [d EXCEPT !.up = up]
      BY <1>3 DEF CallRecord
    <2>3. CASE /\ data' = [data EXCEPT ![n] = Written(call[k], x, @)]
               /\ call' = [Witnessed(k, f, dir[f] # None) EXCEPT ![k] = [d EXCEPT !.up = Tail(@)]]
      BY <1>3, <2>1, <2>2, <2>3
    <2>4. CASE Set(k, [[d EXCEPT !.up = Tail(@)] EXCEPT !.bad = TRUE]) /\ UNCHANGED data
      BY <1>3, <2>4
    <2> QED
      BY <2>3, <2>4 DEF WriteChunk
  <1> DEFINE c == [d EXCEPT !.up = up, !.bad = bad]
  <1> HIDE DEF x, d, up
  <1>6. /\ c \in CallRecord /\ c.up = up /\ c.pc = d.pc /\ c.spc = d.spc /\ c.sent = d.sent
        /\ c.taken = d.taken /\ c.kept = d.kept /\ c.cancelled = d.cancelled
    <2>1. c \in CallRecord
      BY <1>2, <1>3 DEF CallRecord
    <2>2. c.up = up /\ c.pc = d.pc /\ c.spc = d.spc /\ c.sent = d.sent
      BY <1>2, <1>3 DEF CallRecord
    <2>3. c.taken = d.taken /\ c.kept = d.kept /\ c.cancelled = d.cancelled
      BY <1>2, <1>3 DEF CallRecord
    <2> HIDE DEF c
    <2> QED
      BY <2>1, <2>2, <2>3
  <1>7. \/ /\ data' = [data EXCEPT ![n] = Written(call[k], x, @)]
           /\ call' = [Witnessed(k, f, dir[f] # None) EXCEPT ![k] = c]
        \/ Set(k, c) /\ UNCHANGED data
    BY <1>5
  <1> HIDE DEF c
  <1>8. c.spc = "write" /\ UpOffset(c) = 0 /\ UpOffset(call[k]) = 0
    BY <1>1, <1>3, <1>6 DEF UpOffset, SameEnds
  <1>9. UpOk(c, Mine(k))
    <2>1. /\ c.pc = call[k].pc /\ c.cancelled = call[k].cancelled /\ c.sent = call[k].sent
          /\ c.taken = call[k].taken + 1 /\ Len(c.up) = Len(call[k].up) - 1
          /\ call[k].sent \in Nat /\ call[k].taken \in Nat /\ Len(call[k].up) \in Nat
      BY <1>1, <1>3, <1>4, <1>6, CallFacts DEF SameEnds
    <2>2. ASSUME c.pc = "send", ~c.cancelled PROVE Len(c.up) = c.sent - c.taken + 0
      <3>1. Len(call[k].up) = call[k].sent - call[k].taken + 0
        BY <1>1, <1>8, <2>1, <2>2 DEF UpOk
      <3>2. Len(c.up) = (call[k].sent - call[k].taken) - 1
        BY <2>1, <3>1
      <3>3. c.sent \in Nat /\ c.taken \in Nat
        BY <2>1
      <3>4. (call[k].sent - call[k].taken) - 1 = c.sent - c.taken + 0
        BY <2>1, <3>3
      <3> QED
        BY <3>2, <3>4
    <2>3. c.pc = "send" /\ (c.kept # None \/ \E j \in 1 .. Len(c.up) : c.up[j].small)
            => c.sent = Len(Mine(k))
      BY <1>1, <1>4, <1>6, <2>1 DEF UpOk
    <2>4. c.pc # "header"
      BY <1>1, <2>1 DEF UpOk
    <2> QED
      BY <1>4, <1>6, <1>8, <2>2, <2>3, <2>4 DEF UpOk
  <1>10. StreamOk(req[k], c, Mine(k))
    BY <1>1, <1>9 DEF StreamOk
  <1>11. CASE /\ data' = [data EXCEPT ![n] = Written(call[k], x, @)]
              /\ call' = [Witnessed(k, f, dir[f] # None) EXCEPT ![k] = c]
    <2>1. Settled(c) = c
      BY <1>8 DEF Settled
    <2> DEFINE there == dir[f] # None
    <2>2. call' = [Witnessed(k, f, there) EXCEPT ![k] = Settled(c)]
      BY <1>11, <2>1
    <2>3. there \in BOOLEAN
      OBVIOUS
    <2> HIDE DEF there
    <2>4. StreamsOk'
      BY <1>1, <1>6, <1>10, <2>2, <2>3, WitnessedStream
    <2>5. data[n] \in Texts /\ FilePlaced(data[n])
      BY <1>1 DEF DataInv, ShapeInv, Typed, FilesPlaced
    <2>6. FilePlaced(Written(call[k], x, data[n]))
      BY <1>1, <1>4, <2>5, WritesPlaced
    <2>7. FilesPlaced'
      BY <1>1, <1>11, <2>6 DEF DataInv, ShapeInv, Typed, FilesPlaced
    <2> QED
      BY <2>4, <2>7
  <1>12. CASE Set(k, c) /\ UNCHANGED data
    BY <1>1, <1>6, <1>10, <1>12, SetStream DEF DataInv, FilesPlaced, Mine
  <1> QED
    BY <1>7, <1>11, <1>12

LEMMA EndOfStreamPlaced ==
  ASSUME DataInv, NEW k \in Calls, EndOfStream(k)
  PROVE  StreamsOk' /\ FilesPlaced'
  <1> DEFINE f == req[k].file
             n == call[k].fd
             c == [call[k] EXCEPT !.spc = "stat"]
             there == dir[f] # None
  <1>1. /\ call[k] \in CallRecord /\ call[k].spc = "write" /\ req[k].op = "store"
        /\ UpOk(call[k], Mine(k)) /\ f \in Files /\ n \in Inodes
        /\ UNCHANGED <<dir, local, req, crashes>>
    BY CallFacts DEF EndOfStream, SAt, Shape, HandlerShape, Request, StreamOk, Reads
  <1>2. CASE Set(k, Replied(call[k], "NOT_FOUND")) /\ UNCHANGED data
    BY <1>1, <1>2, ReplyPlaced DEF Replies
  <1>3. CASE /\ data' = [data EXCEPT ![n] = Flushed(call[k], @)]
             /\ call' = [Witnessed(k, f, there) EXCEPT ![k].spc = "stat"]
    <2>1. c \in CallRecord /\ c.spc = "stat"
      BY <1>1 DEF CallRecord, ServerPcs
    <2>2. Settled(c) = c
      BY <2>1 DEF Settled
    <2>3. Witnessed(k, f, there)[k] = call[k]
      BY <1>1 DEF Listing, Witnessed
    <2>4. call' = [Witnessed(k, f, there) EXCEPT ![k] = Settled(c)]
      BY <1>3, <2>2, <2>3 DEF Witnessed
    <2>5. there \in BOOLEAN
      OBVIOUS
    <2> HIDE DEF c, there
    <2>6. StreamOk(req[k], c, Mine(k))
      BY <1>1, <2>1 DEF StreamOk, Reads
    <2>7. StreamsOk'
      BY <1>1, <2>1, <2>4, <2>5, <2>6, WitnessedStream
    <2>8. data[n] \in Texts /\ FilePlaced(data[n])
      BY <1>1 DEF DataInv, ShapeInv, Typed, FilesPlaced
    <2>9. FilePlaced(Flushed(call[k], data[n]))
      BY <1>1, <2>8, WritesPlaced DEF UpOk
    <2>10. FilesPlaced'
      BY <1>1, <1>3, <2>9 DEF DataInv, ShapeInv, Typed, FilesPlaced
    <2> QED
      BY <2>7, <2>10
  <1>4. CASE Set(k, [call[k] EXCEPT !.spc = "stat", !.lost = TRUE]) /\ UNCHANGED data
    <2> DEFINE e == [call[k] EXCEPT !.spc = "stat", !.lost = TRUE]
    <2>1. e \in CallRecord /\ e.spc = "stat"
      BY <1>1 DEF CallRecord, ServerPcs
    <2>2. Set(k, e)
      BY <1>4
    <2> HIDE DEF e
    <2>3. StreamOk(req[k], e, Mine(k))
      BY <1>1, <2>1 DEF StreamOk, Reads
    <2> QED
      BY <1>1, <1>4, <2>1, <2>2, <2>3, SetStream DEF DataInv, FilesPlaced, Mine
  <1> QED
    BY <1>2, <1>3, <1>4 DEF EndOfStream

LEMMA FetchStatPlaced ==
  ASSUME DataInv, NEW k \in Calls, FetchStat(k)
  PROVE  StreamsOk' /\ FilesPlaced'
  <1>1. /\ call[k] \in CallRecord /\ StreamOk(req[k], call[k], Mine(k))
        /\ call[k].spc = "fetch_stat" /\ req[k].op = "fetch"
        /\ UNCHANGED <<dir, data, local, req, crashes>>
    BY CallFacts DEF FetchStat, SAt, Shape, HandlerShape
  <1>2. CASE Set(k, Replied(call[k], "NOT_FOUND"))
    BY <1>1, <1>2, ReplyPlaced DEF Replies
  <1>3. CASE Set(k, [SentDown(call[k], Header) EXCEPT !.spc = "open_read"])
    <2> DEFINE d == SentDown(call[k], Header)
               c == [d EXCEPT !.spc = "open_read"]
    <2>1. /\ d \in CallRecord /\ SameEnds(call[k], d) /\ SameTransfer(call[k], d)
          /\ d.down = IF call[k].cancelled THEN call[k].down ELSE Append(call[k].down, Header)
      BY <1>1, MessagesSent, SentDownFields
    <2> HIDE DEF d
    <2>2. /\ c \in CallRecord /\ c.spc = "open_read" /\ c.pc = d.pc /\ c.down = d.down
          /\ c.sent = d.sent /\ c.taken = d.taken /\ c.kept = d.kept /\ c.cancelled = d.cancelled
      <3>1. c \in CallRecord
        BY <2>1 DEF CallRecord, ServerPcs
      <3>2. c.spc = "open_read" /\ c.pc = d.pc /\ c.down = d.down /\ c.sent = d.sent
        BY <2>1 DEF CallRecord, ServerPcs
      <3>3. c.taken = d.taken /\ c.kept = d.kept /\ c.cancelled = d.cancelled
        BY <2>1 DEF CallRecord, ServerPcs
      <3> HIDE DEF c
      <3> QED
        BY <3>1, <3>2, <3>3
    <2>3. Set(k, c)
      BY <1>3 DEF d
    <2> HIDE DEF c
    <2>4. ASSUME Receives(c) PROVE DownOk(c)
      <3>1. DownOk(call[k])
        BY <1>1, <2>1, <2>2, <2>4 DEF StreamOk, Receives, SameEnds
      <3>2. /\ call[k].down = <<>> /\ call[k].sent = 0 /\ call[k].taken = 0
            /\ call[k].kept = None /\ (~call[k].cancelled => call[k].pc # "receive")
        BY <1>1, <3>1 DEF DownOk
      <3>3. /\ c.sent = 0 /\ c.taken = 0 /\ c.kept = None /\ c.cancelled = call[k].cancelled
            /\ c.pc = call[k].pc
        BY <2>1, <2>2, <3>2 DEF SameEnds, SameTransfer
      <3>4. CASE call[k].cancelled
        <4>1. c.down = <<>> /\ StreamPlaced(<<>>, DownOffset(c), 0) /\ SmallLast(<<>>)
          BY <2>1, <2>2, <3>2, <3>4 DEF StreamPlaced, SmallLast
        <4> QED
          BY <2>2, <3>3, <3>4, <4>1 DEF DownOk
      <3>5. CASE ~call[k].cancelled
        <4>1. c.down = Append(<<>>, Header) /\ DownOffset(c) = 1
          BY <2>1, <2>2, <3>2, <3>3, <3>5 DEF DownOffset
        <4>2. Len(c.down) = 1 /\ c.down[1] = Header /\ ~Header.small
          BY <4>1 DEF Header
        <4>3. StreamPlaced(c.down, 1, 0) /\ SmallLast(c.down)
          BY <4>2 DEF StreamPlaced, SmallLast
        <4>4. ~ \E j \in 1 .. Len(c.down) : c.down[j].small
          BY <4>2
        <4> QED
          BY <2>2, <3>3, <4>1, <4>2, <4>3, <4>4 DEF DownOk
      <3> QED
        BY <3>4, <3>5
    <2>5. StreamOk(req[k], c, Mine(k))
      BY <1>1, <2>4 DEF StreamOk
    <2> QED
      BY <1>1, <2>2, <2>3, <2>5, SetStream DEF DataInv, FilesPlaced, Mine
  <1> QED
    BY <1>2, <1>3 DEF FetchStat

LEMMA OpenForReadPlaced ==
  ASSUME DataInv, NEW k \in Calls, OpenForRead(k)
  PROVE  StreamsOk' /\ FilesPlaced'
  <1> DEFINE n == dir[req[k].file]
             c == [call[k] EXCEPT !.spc = "read", !.fd = n]
  <1>1. /\ call[k] \in CallRecord /\ StreamOk(req[k], call[k], Mine(k))
        /\ call[k].spc = "open_read" /\ req[k].op = "fetch" /\ req[k] \in Request
        /\ UNCHANGED <<dir, data, local, req, crashes>>
    BY CallFacts DEF OpenForRead, SAt, Shape, HandlerShape
  <1>2. CASE n = None
    BY <1>1, <1>2, ReplyPlaced DEF OpenForRead, Replies
  <1>3. CASE n # None
    <2>1. n \in Inodes
      BY <1>1, <1>3 DEF DataInv, ShapeInv, Typed, Request
    <2>2. Set(k, c)
      BY <1>3 DEF OpenForRead
    <2> HIDE DEF n
    <2>3. /\ c \in CallRecord /\ c.spc = "read" /\ c.pc = call[k].pc /\ c.down = call[k].down
          /\ c.sent = call[k].sent /\ c.taken = call[k].taken /\ c.kept = call[k].kept
          /\ c.cancelled = call[k].cancelled
      <3>1. c \in CallRecord
        BY <1>1, <2>1 DEF CallRecord, ServerPcs
      <3>2. c.spc = "read" /\ c.pc = call[k].pc /\ c.down = call[k].down /\ c.sent = call[k].sent
        BY <1>1, <2>1 DEF CallRecord, ServerPcs
      <3>3. c.taken = call[k].taken /\ c.kept = call[k].kept /\ c.cancelled = call[k].cancelled
        BY <1>1, <2>1 DEF CallRecord, ServerPcs
      <3> HIDE DEF c
      <3> QED
        BY <3>1, <3>2, <3>3
    <2> HIDE DEF c
    <2>4. StreamOk(req[k], c, Mine(k))
      BY <1>1, <2>3 DEF StreamOk, DownOk, Receives, DownOffset
    <2> QED
      BY <1>1, <2>2, <2>3, <2>4, SetStream DEF DataInv, FilesPlaced, Mine
  <1> QED
    BY <1>2, <1>3

LEMMA ReadChunkPlaced ==
  ASSUME DataInv, NEW k \in Calls, ReadChunk(k)
  PROVE  StreamsOk' /\ FilesPlaced'
  <1> DEFINE i == call[k].sent + 1
             s == data[call[k].fd]
             x == Message(s, i)
             d == SentDown(call[k], x)
             spc == IF x.small THEN "read_end" ELSE "read"
             c == [d EXCEPT !.sent = i, !.spc = spc]
  <1>1. /\ call[k] \in CallRecord /\ StreamOk(req[k], call[k], Mine(k))
        /\ call[k].spc = "read" /\ req[k].op = "fetch" /\ call[k].fd \in Inodes
        /\ i <= Len(s) /\ Set(k, c)
        /\ UNCHANGED <<dir, data, local, req, crashes>>
        /\ call[k].sent \in Nat /\ call[k].taken \in Nat
    BY CallFacts DEF ReadChunk, SAt, Shape, HandlerShape
  <1>2. s \in Texts /\ FilePlaced(s)
    BY <1>1 DEF DataInv, ShapeInv, Typed, FilesPlaced
  <1>3. i \in Nat /\ i \in 1 .. Len(s) /\ x \in Messages
    BY <1>1, <1>2, MessagesSent DEF Texts
  <1>4. InPlace(x.chunk, i)
    BY <1>2, <1>3, MessagePlaced
  <1> HIDE DEF x, i
  <1>5. /\ d \in CallRecord /\ SameEnds(call[k], d) /\ SameTransfer(call[k], d)
        /\ d.down = IF call[k].cancelled THEN call[k].down ELSE Append(call[k].down, x)
    BY <1>1, <1>3, SentDownFields
  <1>6. /\ spc \in ServerPcs /\ spc \in {"read", "read_end"} /\ (spc = "read" => ~x.small)
    BY DEF ServerPcs
  <1> HIDE DEF d, spc
  <1>7. /\ c \in CallRecord /\ c.spc = spc /\ c.pc = d.pc /\ c.down = d.down
        /\ c.sent = i /\ c.taken = d.taken /\ c.kept = d.kept /\ c.cancelled = d.cancelled
    <2>1. c \in CallRecord
      BY <1>3, <1>5, <1>6 DEF CallRecord
    <2>2. c.spc = spc /\ c.pc = d.pc /\ c.down = d.down /\ c.sent = i
      BY <1>3, <1>5, <1>6 DEF CallRecord
    <2>3. c.taken = d.taken /\ c.kept = d.kept /\ c.cancelled = d.cancelled
      BY <1>3, <1>5, <1>6 DEF CallRecord
    <2> HIDE DEF c
    <2> QED
      BY <2>1, <2>2, <2>3
  <1> HIDE DEF c
  <1>8. ASSUME Receives(c) PROVE DownOk(c)
    <2>1. DownOk(call[k]) /\ call[k].down \in Seq(Messages)
      BY <1>1, <1>5, <1>7, <1>8, CallFacts
         DEF StreamOk, Receives, SameEnds, Shape, ClientShape, StreamShape
    <2>2. /\ call[k].kept = None
          /\ \A j \in 1 .. Len(call[k].down) : ~call[k].down[j].small
      BY <1>1, <2>1 DEF DownOk
    <2>3. /\ DownOffset(c) = DownOffset(call[k]) /\ DownOffset(c) \in {0, 1}
          /\ c.pc = call[k].pc /\ c.cancelled = call[k].cancelled
          /\ c.taken = call[k].taken /\ c.kept = None
      BY <1>5, <1>7, <2>2 DEF DownOffset, SameEnds, SameTransfer
    <2>4. StreamPlaced(call[k].down, DownOffset(c), c.taken) /\ SmallLast(call[k].down)
          /\ (c.pc # "receive" => c.taken = 0)
      BY <2>1, <2>3 DEF DownOk
    <2>5. CASE call[k].cancelled
      <3>1. c.down = call[k].down
        BY <1>5, <1>7, <2>5
      <3> QED
        BY <1>6, <1>7, <2>2, <2>3, <2>4, <2>5, <3>1 DEF DownOk
    <2>6. CASE ~call[k].cancelled
      <3>1. Len(call[k].down) = call[k].sent - call[k].taken + DownOffset(c)
        BY <1>1, <2>1, <2>3, <2>6 DEF DownOk
      <3>2. /\ c.down = Append(call[k].down, x) /\ Len(c.down) = Len(call[k].down) + 1
            /\ c.down[Len(call[k].down) + 1] = x
            /\ \A j \in 1 .. Len(call[k].down) : c.down[j] = call[k].down[j]
        BY <1>3, <1>5, <1>7, <2>1, <2>6
      <3>3. call[k].taken + Len(call[k].down) + 1 - DownOffset(c) = i
        BY <1>1, <2>3, <3>1 DEF i
      <3>4. StreamPlaced(c.down, DownOffset(c), c.taken) /\ SmallLast(c.down)
        <4>1. StreamPlaced(Append(call[k].down, x), DownOffset(c), call[k].taken)
              /\ SmallLast(Append(call[k].down, x))
          BY <1>1, <1>4, <2>1, <2>2, <2>3, <2>4, <3>3, AppendPlaced
        <4> QED
          BY <2>3, <3>2, <4>1
      <3>5. (\E j \in 1 .. Len(c.down) : c.down[j].small) => c.spc = "read_end"
        <4> SUFFICES ASSUME NEW j \in 1 .. Len(c.down), c.down[j].small PROVE x.small
          BY <1>6, <1>7
        <4>1. CASE j = Len(c.down)
          BY <3>2, <4>1
        <4>2. CASE j # Len(c.down)
          BY <2>1, <2>2, <3>2, <4>2
        <4> QED
          BY <4>1, <4>2
      <3>6. Len(c.down) = c.sent - c.taken + DownOffset(c)
        BY <1>1, <1>7, <2>3, <3>1, <3>2 DEF i
      <3> QED
        BY <1>6, <1>7, <2>3, <2>4, <3>4, <3>5, <3>6 DEF DownOk
    <2> QED
      BY <2>5, <2>6
  <1>9. StreamOk(req[k], c, Mine(k))
    BY <1>1, <1>8 DEF StreamOk
  <1> QED
    BY <1>1, <1>7, <1>9, SetStream DEF DataInv, FilesPlaced, Mine

LEMMA RemovePlaced ==
  ASSUME DataInv, NEW k \in Calls, Remove(k)
  PROVE  StreamsOk' /\ FilesPlaced'
  <1> DEFINE f == req[k].file
             c == Replied(call[k], "OK")
  <1>1. /\ call[k] \in CallRecord /\ StreamOk(req[k], call[k], Mine(k))
        /\ call[k].spc = "remove" /\ f \in Files /\ UNCHANGED <<data, local, req, crashes>>
    BY CallFacts DEF Remove, SAt, Shape, ClientShape, Request
  <1>2. CASE dir[f] = None
    BY <1>1, <1>2, ReplyPlaced DEF Remove, Replies
  <1>3. CASE dir[f] # None
    <2>1. Witnessed(k, f, FALSE)[k] = call[k]
      BY <1>1 DEF Listing, Witnessed
    <2>2. call' = [Witnessed(k, f, FALSE) EXCEPT ![k] = Settled(c)]
      BY <1>3, <2>1 DEF Remove, Witnessed
    <2>3. c \in CallRecord /\ StreamOk(req[k], c, Mine(k))
      BY <1>1, RepliedFields, RepliedStream DEF Replies
    <2> HIDE DEF c, f
    <2> QED
      BY <1>1, <2>2, <2>3, WitnessedStream DEF DataInv, FilesPlaced
  <1> QED
    BY <1>2, <1>3

LEMMA OpenFailsPlaced ==
  ASSUME DataInv, NEW k \in Calls, OpenFails(k)
  PROVE  StreamsOk' /\ FilesPlaced'
  BY ReplyPlaced DEF OpenFails, Replies

LEMMA StatAfterWritePlaced ==
  ASSUME DataInv, NEW k \in Calls, StatAfterWrite(k)
  PROVE  StreamsOk' /\ FilesPlaced'
  BY ReplyPlaced DEF StatAfterWrite, Replies

LEMMA ReadEndPlaced ==
  ASSUME DataInv, NEW k \in Calls, ReadEnd(k)
  PROVE  StreamsOk' /\ FilesPlaced'
  BY ReplyPlaced DEF ReadEnd, Replies

LEMMA StatFilePlaced ==
  ASSUME DataInv, NEW k \in Calls, StatFile(k)
  PROVE  StreamsOk' /\ FilesPlaced'
  BY ReplyPlaced DEF StatFile, Replies

LEMMA ReadDirEndPlaced ==
  ASSUME DataInv, NEW k \in Calls, ReadDirEnd(k)
  PROVE  StreamsOk' /\ FilesPlaced'
  BY ReplyPlaced DEF ReadDirEnd, Replies

LEMMA OpenDirPlaced ==
  ASSUME DataInv, NEW k \in Calls, OpenDir(k)
  PROVE  StreamsOk' /\ FilesPlaced'
  <1> DEFINE there == {f \in Files : dir[f] # None}
             c == [call[k] EXCEPT !.spc = "read_dir", !.due = there, !.ever = there]
  <1>1. /\ call[k] \in CallRecord /\ req[k].op = "list"
        /\ UNCHANGED <<dir, data, local, req, crashes>>
    BY CallFacts DEF OpenDir, SAt, Shape, HandlerShape
  <1>2. CASE Set(k, Replied(call[k], "INTERNAL"))
    BY <1>1, <1>2, ReplyPlaced DEF Replies
  <1>3. CASE Set(k, c)
    <2>1. there \in SUBSET Files
      OBVIOUS
    <2> HIDE DEF there
    <2>2. c \in CallRecord
      BY <1>1, <2>1 DEF CallRecord, ServerPcs
    <2> HIDE DEF c
    <2> QED
      BY <1>1, <1>3, <2>2, OtherPlaced
  <1> QED
    BY <1>2, <1>3 DEF OpenDir

LEMMA ReadDirPlaced ==
  ASSUME DataInv, NEW k \in Calls, ReadDir(k)
  PROVE  StreamsOk' /\ FilesPlaced'
  <1>1. /\ call[k] \in CallRecord /\ req[k].op = "list"
        /\ UNCHANGED <<dir, data, local, req, crashes>>
    BY CallFacts DEF ReadDir, SAt, Shape, HandlerShape
  <1>2. PICK f \in Files :
          Set(k, [call[k] EXCEPT !.entry = f, !.listed = call[k].listed \cup {f},
                                 !.spc = "stat_entry"])
    BY <1>1 DEF ReadDir, CallRecord
  <1> DEFINE listed == call[k].listed \cup {f}
             c == [call[k] EXCEPT !.entry = f, !.listed = listed, !.spc = "stat_entry"]
  <1>3. listed \in SUBSET Files /\ Set(k, c)
    BY <1>1, <1>2 DEF CallRecord
  <1> HIDE DEF listed
  <1>4. c \in CallRecord
    BY <1>1, <1>3 DEF CallRecord, ServerPcs
  <1> HIDE DEF c
  <1> QED
    BY <1>1, <1>3, <1>4, OtherPlaced

LEMMA StatEntryPlaced ==
  ASSUME DataInv, NEW k \in Calls, StatEntry(k)
  PROVE  StreamsOk' /\ FilesPlaced'
  <1> DEFINE date == IF dir[call[k].entry] = None THEN call[k].date ELSE call[k].entry
             x == [name |-> call[k].entry, date |-> date]
             d == SentDown(call[k], x)
             c == [d EXCEPT !.date = date, !.spc = "read_dir"]
  <1>1. /\ call[k] \in CallRecord /\ req[k].op = "list" /\ call[k].entry \in Files /\ Set(k, c)
        /\ UNCHANGED <<dir, data, local, req, crashes>>
    BY CallFacts DEF StatEntry, SAt, Shape, HandlerShape
  <1>2. date \in Files \cup {0} /\ x \in Entries
    BY <1>1 DEF CallRecord, Entries
  <1> HIDE DEF x, date
  <1>3. d \in CallRecord
    BY <1>1, <1>2, SentDownFields
  <1>4. "read_dir" \in ServerPcs
    BY DEF ServerPcs
  <1> HIDE DEF d
  <1>5. c \in CallRecord
    BY <1>2, <1>3, <1>4 DEF CallRecord
  <1> HIDE DEF c
  <1> QED
    BY <1>1, <1>5, OtherPlaced

----------------------------------------------------------------------------
LEMMA CrashPlaced ==
  ASSUME DataInv, Crash
  PROVE  StreamsOk' /\ FilesPlaced'
  <1>1. /\ call' = [k \in Calls |-> IF Serving(k) THEN Settled(Replied(call[k], "UNAVAILABLE"))
                                                   ELSE call[k]]
        /\ UNCHANGED <<dir, data, local, req>>
    BY DEF Crash
  <1>2. ASSUME NEW k \in Calls PROVE StreamOk(req[k], call'[k], Mine(k))
    <2>1. call[k] \in CallRecord /\ StreamOk(req[k], call[k], Mine(k))
      BY CallFacts
    <2>2. CASE Serving(k)
      <3> DEFINE c == Replied(call[k], "UNAVAILABLE")
      <3>1. c \in CallRecord /\ StreamOk(req[k], c, Mine(k))
        BY <2>1, RepliedFields, RepliedStream DEF Replies
      <3>2. call'[k] = Settled(c)
        BY <1>1, <2>2
      <3> HIDE DEF c
      <3> QED
        BY <3>1, <3>2, SettledStream
    <2>3. CASE ~Serving(k)
      BY <1>1, <2>1, <2>3
    <2> QED
      BY <2>2, <2>3
  <1> QED
    BY <1>1, <1>2 DEF StreamsOk, DataInv, FilesPlaced, Mine

LEMMA InitPlaced == Init => DataInv
  <1> SUFFICES ASSUME Init PROVE DataInv
    OBVIOUS
  <1>1. ShapeInv
    BY InitShaped
  <1>2. \A v \in Versions : FilePlaced(Body(v))
    <2> SUFFICES ASSUME NEW v \in Versions, NEW i \in 1 .. Len(Body(v))
                 PROVE  InPlace(Body(v)[i], i)
      BY DEF FilePlaced
    <2>1. Chunks[v] \in Nat
      BY Part1Assumption
    <2>2. Len(Body(v)) = Chunks[v]
      BY <2>1 DEF Body
    <2>3. Body(v)[i] = <<v, i>> /\ i \in 1 .. Chunks[v]
      BY <2>2 DEF Body
    <2> QED
      BY <2>3 DEF InPlace, Bytes
  <1>3. FilePlaced(<<>>)
    BY DEF FilePlaced
  <1>4. FilesPlaced
    <2>1. \A n \in Inodes : FilePlaced(data[n])
      BY <1>2, <1>3 DEF Init, Versions
    <2>2. ASSUME NEW m \in Mounts, NEW f \in Files, local[m][f] \in Texts
          PROVE  FilePlaced(local[m][f])
      <3>1. local[m][f] = Body(m) \/ local[m][f] = None
        BY DEF Init
      <3> QED
        BY <1>2, <2>2, <3>1, Part1Assumption DEF Versions, Texts
    <2> QED
      BY <2>1, <2>2 DEF FilesPlaced
  <1>5. \A k \in Calls : call[k].pc = "idle" /\ call[k].spc = "none"
    BY DEF Init, NewCall
  <1>6. StreamsOk
    BY <1>5 DEF StreamsOk, StreamOk, Reads, Receives
  <1> QED
    BY <1>1, <1>4, <1>6 DEF DataInv

LEMMA StepPlaced ==
  ASSUME DataInv, [Next]_vars
  PROVE  DataInv'
  <1>1. ShapeInv'
    BY StepShapes DEF DataInv
  <1>2. CASE UNCHANGED vars
    BY <1>2 DEF vars, DataInv, StreamsOk, FilesPlaced, Mine, ShapeInv, Typed, CallsShaped,
       MountsApart, Running, Opened
  <1>3. CASE Crash
    BY <1>1, <1>3, CrashPlaced DEF DataInv
  <1>4. ASSUME NEW k \in Calls, Start(k) \/ Client(k) \/ Deadline(k) \/ HandleSignal(k)
        PROVE  StreamsOk' /\ FilesPlaced'
    BY <1>4, StartPlaced, StoreHeaderPlaced, StoreChunkPlaced, StoreDonePlaced, FetchOpenPlaced,
       FetchFirstPlaced, FetchUnopenedPlaced, FetchChunkPlaced, FetchEndPlaced, ListEntryPlaced,
       ListEndPlaced, FinishPlaced, DeadlinePlaced, HandleSignalPlaced DEF Client
  <1>5. ASSUME NEW k \in Calls, Handler(k)
        PROVE  StreamsOk' /\ FilesPlaced'
    BY <1>5, BeginPlaced, ReadHeaderPlaced, OpenForWritePlaced, OpenFailsPlaced,
       WriteChunkPlaced, EndOfStreamPlaced, StatAfterWritePlaced, FetchStatPlaced,
       OpenForReadPlaced, ReadChunkPlaced, ReadEndPlaced, RemovePlaced, StatFilePlaced,
       OpenDirPlaced, ReadDirPlaced, StatEntryPlaced, ReadDirEndPlaced DEF Handler
  <1> QED
    BY <1>1, <1>2, <1>3, <1>4, <1>5 DEF Next, DataInv

LEMMA DataInvariant == Spec => []DataInv
  <1> QED
    BY InitPlaced, StepPlaced, PTL DEF Spec

(* Every variable has its type, whatever the number of clients, files,     *)
(* chunks and calls: nothing but chunks of some version and gaps is ever   *)
(* written to a file, and no stream holds more than its window.            *)
THEOREM Types == Spec => []TypeOK
  <1>1. DataInv => TypeOK
    <2> SUFFICES ASSUME DataInv PROVE TypeOK
      OBVIOUS
    <2>1. Typed /\ FilesPlaced
      BY DEF DataInv, ShapeInv
    <2>2. \A s \in Texts : FilePlaced(s) => s \in Seq(Bytes)
      <3> SUFFICES ASSUME NEW s \in Texts, FilePlaced(s) PROVE s \in Seq(Bytes)
        OBVIOUS
      <3>1. \A i \in 1 .. Len(s) : s[i] \in Bytes
        BY DEF FilePlaced, InPlace
      <3> QED
        BY <3>1 DEF Texts
    <2>3. data \in [Inodes -> Seq(Bytes)]
      BY <2>1, <2>2 DEF Typed, FilesPlaced
    <2>4. \A m \in Mounts, f \in Files : local[m][f] \in Seq(Bytes) \cup {None}
      BY <2>1, <2>2 DEF Typed, FilesPlaced
    <2>5. ASSUME NEW k \in Calls
          PROVE  LET c == call[k] IN
                 /\ c.pc \in Pcs /\ c.spc \in ServerPcs
                 /\ Len(c.up) <= Window /\ Len(c.down) <= Window
                 /\ c.half \in BOOLEAN /\ c.cancelled \in BOOLEAN /\ c.bad \in BOOLEAN
                 /\ c.reply \in Replies \cup {None} /\ c.status \in Codes \cup {None}
                 /\ c.kept \in Bytes \cup {None} /\ c.fd \in Inodes \cup {None}
                 /\ c.map \in [Files -> Files \cup {None, 0}]
      <3>1. call[k] \in CallRecord /\ Shape(req[k], call[k])
        BY CallFacts
      <3>2. Len(call[k].up) <= Window /\ Len(call[k].down) <= Window
        BY <3>1 DEF Shape, StreamShape
      <3> QED
        BY <3>1, <3>2 DEF CallRecord
    <2> QED
      BY <2>1, <2>3, <2>4, <2>5 DEF TypeOK, Typed
  <1> QED
    BY <1>1, DataInvariant, PTL

(* However many stores and fetches of however many files run at once,      *)
(* whoever of them breaks off and wherever a write fails: every chunk in a *)
(* file, the server's or a client's, is at the place it has in its version.*)
THEOREM ChunksStayInPlace == Spec => []ChunksInPlace
  <1>1. DataInv => ChunksInPlace
    BY DEF DataInv, ShapeInv, Typed, FilesPlaced, FilePlaced, InPlace, ChunksInPlace
  <1> QED
    BY <1>1, DataInvariant, PTL

----------------------------------------------------------------------------
(* Whose file an inode is.  Files keep the inode of their name, a file that *)
(* a store creates has the call's; both tell for which file it was made.    *)

IsOf(n, f) == n = f \/ (n \in Calls /\ call[n].pc # "idle" /\ req[n].file = f)

NamesInv ==
    /\ \A f \in Files : dir[f] # None => IsOf(dir[f], f)
    /\ \A k \in Calls : call[k].spc = "write" => IsOf(call[k].fd, req[k].file)

LEMMA OneFile ==
  ASSUME NEW n, NEW f \in Files, NEW g \in Files, IsOf(n, f), IsOf(n, g)
  PROVE  f = g
  BY Part1Assumption DEF IsOf

LEMMA SettledFd ==
  ASSUME ShapeInv, NEW k \in Calls, NEW c, Set(k, c), c.pc # "idle",
         c.spc = "write" => call[k].spc = "write" /\ c.fd = call[k].fd
  PROVE  /\ call'[k].pc # "idle"
         /\ call'[k].spc = "write" => call[k].spc = "write" /\ call'[k].fd = call[k].fd
  <1>1. call'[k] = Settled(c)
    BY SetOthers
  <1>2. CASE c.pc \in {"done", "killed"} /\ c.spc \in {"none", "done"}
    BY <1>1, <1>2 DEF Settled, NewCall
  <1>3. CASE ~(c.pc \in {"done", "killed"} /\ c.spc \in {"none", "done"})
    BY <1>1, <1>3 DEF Settled
  <1> QED
    BY <1>2, <1>3

LEMMA ClientFd ==
  ASSUME ShapeInv, NEW k \in Calls, Client(k) \/ Deadline(k) \/ HandleSignal(k)
  PROVE  /\ call'[k].pc # "idle"
         /\ call'[k].spc = "write" => call[k].spc = "write" /\ call'[k].fd = call[k].fd
         /\ UNCHANGED <<dir, data, req, crashes>>
         /\ \A j \in Calls \ {k} : call'[j] = call[j]
         /\ Running(k)
  <1>1. /\ call[k] \in CallRecord /\ Shape(req[k], call[k])
        /\ \A s \in Codes : LET c == Returned(call[k], s) IN
              c.pc # "idle" /\ c.spc = call[k].spc /\ c.fd = call[k].fd
    <2>1. call[k] \in CallRecord /\ Shape(req[k], call[k])
      BY DEF ShapeInv, CallsShaped
    <2> QED
      BY <2>1, ReturnedFields DEF SameTransfer
  <1>2. Running(k) /\ UNCHANGED <<dir, data, req, crashes>>
    BY DEF Client, Deadline, HandleSignal, Running, StoreHeader, StoreChunk, StoreDone, FetchOpen,
       FetchFirst, FetchUnopened, FetchChunk, FetchEnd, ListEntry, ListEnd, Finish, At
  <1> SUFFICES \E c : Set(k, c) /\ c.pc # "idle" /\ c.spc = call[k].spc /\ c.fd = call[k].fd
    BY <1>2, SettledFd, SetOthers
  <1>3. CASE StoreHeader(k)
    <2> DEFINE d == SentUp(call[k], Header)
    <2>1. d \in CallRecord /\ d.spc = call[k].spc /\ d.fd = call[k].fd
      BY <1>1, MessagesSent, SentUpFields DEF SameEnds, SameTransfer
    <2>2. Set(k, [d EXCEPT !.pc = "send"])
      BY <1>3 DEF StoreHeader
    <2> HIDE DEF d
    <2> QED
      BY <2>1, <2>2 DEF CallRecord
  <1>4. CASE StoreChunk(k)
    <2> DEFINE x == Message(Mine(k), call[k].sent + 1)
               d == SentUp(call[k], x)
               c == [d EXCEPT !.sent = call[k].sent + 1]
    <2>1. d = call[k] \/ d = [call[k] EXCEPT !.up = Append(call[k].up, x)]
      BY DEF SentUp
    <2>2. Set(k, c)
      BY <1>4 DEF StoreChunk
    <2> HIDE DEF x, d
    <2>3. c.pc = call[k].pc /\ c.spc = call[k].spc /\ c.fd = call[k].fd
      BY <1>1, <2>1 DEF CallRecord
    <2> HIDE DEF c
    <2> QED
      BY <1>2, <2>2, <2>3 DEF Running
  <1>5. CASE StoreDone(k)
    <2> DEFINE c == [call[k] EXCEPT !.half = TRUE, !.pc = "finish"]
    <2>1. Set(k, c)
      BY <1>5 DEF StoreDone
    <2>2. c.pc = "finish" /\ c.spc = call[k].spc /\ c.fd = call[k].fd
      BY <1>1 DEF CallRecord
    <2> HIDE DEF c
    <2> QED
      BY <2>1, <2>2
  <1>6. CASE FetchOpen(k) \/ ListEnd(k)
    BY <1>1, <1>6 DEF FetchOpen, ListEnd, CallRecord
  <1>7. CASE FetchFirst(k)
    <2> DEFINE c == [call[k] EXCEPT !.down = Tail(call[k].down), !.pc = "receive"]
               d == [call[k] EXCEPT !.down = <<>>, !.pc = "receive"]
    <2>1. Set(k, c) \/ Set(k, d)
      BY <1>7 DEF FetchFirst
    <2>2. c.pc = "receive" /\ c.spc = call[k].spc /\ c.fd = call[k].fd
      BY <1>1 DEF CallRecord
    <2>3. d.pc = "receive" /\ d.spc = call[k].spc /\ d.fd = call[k].fd
      BY <1>1 DEF CallRecord
    <2> HIDE DEF c, d
    <2> QED
      BY <2>1, <2>2, <2>3
  <1>8. CASE FetchUnopened(k)
    BY <1>1, <1>8 DEF FetchUnopened, Codes
  <1>9. CASE FetchChunk(k)
    <2> DEFINE d == Taken(call[k], Head(call[k].down))
               r == [d EXCEPT !.down = Tail(d.down)]
               e == [r EXCEPT !.bad = TRUE]
    <2>1. d.pc = call[k].pc /\ d.spc = call[k].spc /\ d.fd = call[k].fd
      BY <1>1 DEF Taken, CallRecord
    <2>2. r.pc = d.pc /\ r.spc = d.spc /\ r.fd = d.fd
      BY <1>1 DEF Taken, CallRecord
    <2>3. e.pc = r.pc /\ e.spc = r.spc /\ e.fd = r.fd
      BY <1>1 DEF Taken, CallRecord
    <2>4. Set(k, r) \/ Set(k, e)
      BY <1>9 DEF FetchChunk
    <2> HIDE DEF d, r, e
    <2> QED
      BY <1>2, <2>1, <2>2, <2>3, <2>4 DEF Running
  <1>10. CASE FetchEnd(k)
    <2> DEFINE c == [call[k] EXCEPT !.pc = "finish"]
               d == [call[k] EXCEPT !.pc = "finish", !.lost = TRUE]
    <2>1. Set(k, Returned(call[k], "CANCELLED")) \/ Set(k, c) \/ Set(k, d)
      BY <1>10 DEF FetchEnd
    <2>2. c.pc = "finish" /\ c.spc = call[k].spc /\ c.fd = call[k].fd
      BY <1>1 DEF CallRecord
    <2>3. d.pc = "finish" /\ d.spc = call[k].spc /\ d.fd = call[k].fd
      BY <1>1 DEF CallRecord
    <2> HIDE DEF c, d
    <2> QED
      BY <1>1, <2>1, <2>2, <2>3 DEF Codes
  <1>11. CASE ListEntry(k)
    <2> DEFINE x == Head(call[k].down)
               down == Tail(call[k].down)
               map == [call[k].map EXCEPT ![x.name] = IF @ = None THEN x.date ELSE @]
               c == [call[k] EXCEPT !.down = down, !.map = map]
    <2>1. Set(k, c)
      BY <1>11 DEF ListEntry
    <2> HIDE DEF map, down
    <2>2. c.pc = call[k].pc /\ c.spc = call[k].spc /\ c.fd = call[k].fd
      BY <1>1 DEF CallRecord
    <2> HIDE DEF c
    <2> QED
      BY <1>2, <2>1, <2>2 DEF Running
  <1>12. CASE Finish(k)
    <2> DEFINE s == IF call[k].cancelled THEN "DEADLINE_EXCEEDED"
                    ELSE IF call[k].reply = "FAILURE" THEN "NOT_FOUND" ELSE call[k].reply
    <2>1. s \in Codes
      BY <1>1, <1>12 DEF Finish, CallRecord, Codes, Replies
    <2>2. Set(k, Returned(call[k], s))
      BY <1>12 DEF Finish
    <2> HIDE DEF s
    <2> QED
      BY <1>1, <2>1, <2>2
  <1>13. CASE Deadline(k)
    <2> DEFINE c == [call[k] EXCEPT !.cancelled = TRUE]
    <2>1. Set(k, c)
      BY <1>13 DEF Deadline
    <2>2. c.pc = call[k].pc /\ c.spc = call[k].spc /\ c.fd = call[k].fd
      BY <1>1 DEF CallRecord
    <2> HIDE DEF c
    <2> QED
      BY <1>2, <2>1, <2>2 DEF Running
  <1>14. CASE HandleSignal(k)
    <2> DEFINE c == [call[k] EXCEPT !.pc = "killed", !.cancelled = TRUE, !.down = <<>>]
    <2>1. Set(k, c)
      BY <1>14 DEF HandleSignal
    <2>2. c.pc = "killed" /\ c.spc = call[k].spc /\ c.fd = call[k].fd
      BY <1>1 DEF CallRecord
    <2> HIDE DEF c
    <2> QED
      BY <2>1, <2>2
  <1> QED
    BY <1>3, <1>4, <1>5, <1>6, <1>7, <1>8, <1>9, <1>10, <1>11, <1>12, <1>13, <1>14 DEF Client

LEMMA HandlerFd ==
  ASSUME ShapeInv, NEW k \in Calls, Handler(k)
  PROVE  /\ call'[k].pc # "idle" /\ call[k].pc # "idle" /\ call[k].spc \notin {"none", "done"}
         /\ call'[k].spc = "write" =>
              OpenForWrite(k) \/ (call[k].spc = "write" /\ call'[k].fd = call[k].fd)
  <1>1. call[k].spc \notin {"none", "done"}
    BY DEF Handler, SAt, Begin, ReadHeader, OpenForWrite, OpenFails, WriteChunk, EndOfStream,
       StatAfterWrite, FetchStat, OpenForRead, ReadChunk, ReadEnd, Remove, StatFile, OpenDir,
       ReadDir, StatEntry, ReadDirEnd
  <1>2. /\ call[k] \in CallRecord /\ Shape(req[k], call[k]) /\ call[k].pc # "idle"
        /\ \A x \in Replies : LET c == Replied(call[k], x) IN
              c.pc # "idle" /\ c.spc = "done" /\ c.fd = call[k].fd
    <2>1. call[k] \in CallRecord /\ Shape(req[k], call[k])
      BY DEF ShapeInv, CallsShaped
    <2>2. call[k].pc # "idle"
      BY <1>1, <2>1 DEF Shape, ClientShape, NewCall
    <2>3. \A x \in Replies : LET c == Replied(call[k], x) IN
             c.pc # "idle" /\ c.spc = "done" /\ c.fd = call[k].fd
      BY <2>1, <2>2, RepliedFields DEF SameTransfer
    <2> QED
      BY <2>1, <2>2, <2>3
  <1>3. ASSUME NEW c, Set(k, c), c.pc # "idle", c.spc # "write"
        PROVE  call'[k].pc # "idle" /\ call'[k].spc # "write"
    <2>1. call'[k] = Settled(c)
      BY <1>3, SetOthers
    <2>2. Settled(c).pc = c.pc /\ Settled(c).spc = c.spc
      BY DEF Settled, NewCall
    <2> QED
      BY <1>3, <2>1, <2>2
  <1>4. CASE OpenFails(k) \/ StatAfterWrite(k) \/ ReadEnd(k) \/ StatFile(k) \/ ReadDirEnd(k)
    <2>1. \E x \in Replies : Set(k, Replied(call[k], x))
      BY <1>4 DEF OpenFails, StatAfterWrite, ReadEnd, StatFile, ReadDirEnd, Replies
    <2> QED
      BY <1>1, <1>2, <1>3, <2>1
  <1>5. CASE Begin(k)
    <2> DEFINE spc == CASE req[k].op = "store" -> "read_header"
                        [] req[k].op = "fetch" -> "fetch_stat"
                        [] req[k].op = "delete" -> "remove"
                        [] req[k].op = "list" -> "open_dir"
                        [] req[k].op = "stat" -> "stat_file"
               c == [call[k] EXCEPT !.spc = spc]
    <2>1. req[k].op \in AllCommands
      BY <1>2, Part1Assumption DEF Request, Shape, ClientShape
    <2>2. spc # "write"
      BY <2>1 DEF AllCommands
    <2>3. Set(k, Replied(call[k], "DEADLINE_EXCEEDED")) \/ Set(k, c)
      BY <1>5 DEF Begin
    <2> HIDE DEF spc
    <2>4. c.pc = call[k].pc /\ c.spc = spc
      BY <1>2 DEF CallRecord
    <2> HIDE DEF c
    <2> QED
      BY <1>1, <1>2, <1>3, <2>2, <2>3, <2>4 DEF Replies
  <1>6. CASE ReadHeader(k)
    <2> DEFINE c == [call[k] EXCEPT !.up = Tail(call[k].up), !.spc = "open"]
    <2>1. Set(k, Replied(call[k], "NOT_FOUND")) \/ Set(k, c)
      BY <1>6 DEF ReadHeader
    <2>2. c.pc = call[k].pc /\ c.spc = "open"
      BY <1>2 DEF CallRecord
    <2> HIDE DEF c
    <2> QED
      BY <1>1, <1>2, <1>3, <2>1, <2>2 DEF Replies
  <1>7. CASE FetchStat(k)
    <2> DEFINE d == SentDown(call[k], Header)
               c == [d EXCEPT !.spc = "open_read"]
    <2>1. Set(k, Replied(call[k], "NOT_FOUND")) \/ Set(k, c)
      BY <1>7 DEF FetchStat
    <2>2. d \in CallRecord /\ d.pc = call[k].pc
      BY <1>2, MessagesSent, SentDownFields DEF SameEnds
    <2> HIDE DEF d
    <2>3. c.pc = call[k].pc /\ c.spc = "open_read"
      BY <2>2 DEF CallRecord
    <2> HIDE DEF c
    <2> QED
      BY <1>1, <1>2, <1>3, <2>1, <2>3 DEF Replies
  <1>8. CASE OpenForRead(k)
    <2> DEFINE c == [call[k] EXCEPT !.spc = "read", !.fd = dir[req[k].file]]
    <2>1. Set(k, Replied(call[k], "NOT_FOUND")) \/ Set(k, c)
      BY <1>8 DEF OpenForRead
    <2>2. c.pc = call[k].pc /\ c.spc = "read"
      BY <1>2 DEF CallRecord
    <2> HIDE DEF c
    <2> QED
      BY <1>1, <1>2, <1>3, <2>1, <2>2 DEF Replies
  <1>9. CASE ReadChunk(k)
    <2> DEFINE i == call[k].sent + 1
               x == Message(data[call[k].fd], i)
               d == SentDown(call[k], x)
               spc == IF x.small THEN "read_end" ELSE "read"
               c == [d EXCEPT !.sent = i, !.spc = spc]
    <2>1. Set(k, c) /\ spc # "write"
      BY <1>9 DEF ReadChunk
    <2>2. d = call[k] \/ d = [call[k] EXCEPT !.down = Append(call[k].down, x)]
      BY DEF SentDown
    <2> HIDE DEF i, x, d, spc
    <2>3. c.pc = call[k].pc /\ c.spc = spc
      BY <1>2, <2>2 DEF CallRecord
    <2> HIDE DEF c
    <2> QED
      BY <1>1, <1>2, <1>3, <2>1, <2>3
  <1>10. CASE OpenDir(k)
    <2> DEFINE there == {f \in Files : dir[f] # None}
               c == [call[k] EXCEPT !.spc = "read_dir", !.due = there, !.ever = there]
    <2>1. Set(k, Replied(call[k], "INTERNAL")) \/ Set(k, c)
      BY <1>10 DEF OpenDir
    <2> HIDE DEF there
    <2>2. c.pc = call[k].pc /\ c.spc = "read_dir"
      BY <1>2 DEF CallRecord
    <2> HIDE DEF c
    <2> QED
      BY <1>1, <1>2, <1>3, <2>1, <2>2 DEF Replies
  <1>11. CASE ReadDir(k)
    <2>1. PICK f : Set(k, [call[k] EXCEPT !.entry = f, !.listed = call[k].listed \cup {f},
                                          !.spc = "stat_entry"])
      BY <1>11 DEF ReadDir
    <2> DEFINE c == [call[k] EXCEPT !.entry = f, !.listed = call[k].listed \cup {f},
                                    !.spc = "stat_entry"]
    <2>2. c.pc = call[k].pc /\ c.spc = "stat_entry"
      BY <1>2 DEF CallRecord
    <2> HIDE DEF c
    <2> QED
      BY <1>1, <1>2, <1>3, <2>1, <2>2 DEF c
  <1>12. CASE StatEntry(k)
    <2> DEFINE date == IF dir[call[k].entry] = None THEN call[k].date ELSE call[k].entry
               x == [name |-> call[k].entry, date |-> date]
               d == SentDown(call[k], x)
               c == [d EXCEPT !.date = date, !.spc = "read_dir"]
    <2>1. Set(k, c)
      BY <1>12 DEF StatEntry
    <2>2. d = call[k] \/ d = [call[k] EXCEPT !.down = Append(call[k].down, x)]
      BY DEF SentDown
    <2> HIDE DEF x, d, date
    <2>3. c.pc = call[k].pc /\ c.spc = "read_dir"
      BY <1>2, <2>2 DEF CallRecord
    <2> HIDE DEF c
    <2> QED
      BY <1>1, <1>2, <1>3, <2>1, <2>3
  <1>13. CASE OpenForWrite(k)
    <2> DEFINE f == req[k].file
               n == IF dir[f] = None THEN k ELSE dir[f]
               w == Witnessed(k, f, TRUE)
    <2>1. call' = [w EXCEPT ![k].spc = "write", ![k].fd = n] /\ ~Listing(call[k])
      BY <1>13 DEF OpenForWrite, SAt, Listing
    <2>2. w[k] = call[k] /\ k \in DOMAIN w
      BY <2>1 DEF Witnessed
    <2> HIDE DEF w, n
    <2>3. call'[k].pc = call[k].pc
      BY <1>2, <2>1, <2>2 DEF CallRecord
    <2> QED
      BY <1>1, <1>2, <1>13, <2>3
  <1>14. CASE WriteChunk(k)
    <2> DEFINE f == req[k].file
               d == Taken(call[k], Head(call[k].up))
               r == [d EXCEPT !.up = Tail(d.up)]
               e == [r EXCEPT !.bad = TRUE]
    <2>1. /\ call[k].spc = "write"
          /\ Set(k, e) \/ call' = [Witnessed(k, f, dir[f] # None) EXCEPT ![k] = r]
      BY <1>14 DEF WriteChunk, SAt
    <2>2. d.pc = call[k].pc /\ d.spc = call[k].spc /\ d.fd = call[k].fd
      BY <1>2 DEF Taken, CallRecord
    <2>3. r.pc = d.pc /\ r.spc = d.spc /\ r.fd = d.fd
      BY <1>2 DEF Taken, CallRecord
    <2>4. e.pc = r.pc /\ e.spc = r.spc /\ e.fd = r.fd
      BY <1>2 DEF Taken, CallRecord
    <2> HIDE DEF d, r, e
    <2>5. call' = [Witnessed(k, f, dir[f] # None) EXCEPT ![k] = r] => call'[k] = r
      BY DEF Witnessed
    <2> QED
      BY <1>1, <1>2, <2>1, <2>2, <2>3, <2>4, <2>5, SettledFd
  <1>15. CASE EndOfStream(k)
    <2> DEFINE f == req[k].file
               w == Witnessed(k, f, dir[f] # None)
               e == [call[k] EXCEPT !.spc = "stat", !.lost = TRUE]
    <2>1. /\ \/ Set(k, Replied(call[k], "NOT_FOUND")) \/ Set(k, e)
             \/ call' = [w EXCEPT ![k].spc = "stat"]
          /\ ~Listing(call[k])
      BY <1>15 DEF EndOfStream, SAt, Listing
    <2>2. w[k] = call[k] /\ k \in DOMAIN w
      BY <2>1 DEF Witnessed
    <2> HIDE DEF w
    <2>3. call' = [w EXCEPT ![k].spc = "stat"] => call'[k].pc = call[k].pc /\ call'[k].spc = "stat"
      BY <1>2, <2>2 DEF CallRecord
    <2>4. e.pc = call[k].pc /\ e.spc = "stat"
      BY <1>2 DEF CallRecord
    <2> HIDE DEF e
    <2> QED
      BY <1>1, <1>2, <1>3, <2>1, <2>3, <2>4 DEF Replies
  <1>16. CASE Remove(k)
    <2> DEFINE f == req[k].file
               w == Witnessed(k, f, FALSE)
    <2>1. /\ \/ Set(k, Replied(call[k], "NOT_FOUND"))
             \/ call' = [w EXCEPT ![k] = Settled(Replied(w[k], "OK"))]
          /\ ~Listing(call[k])
      BY <1>16 DEF Remove, SAt, Listing
    <2>2. w[k] = call[k] /\ k \in DOMAIN w
      BY <2>1 DEF Witnessed
    <2> HIDE DEF w
    <2>3. CASE call' = [w EXCEPT ![k] = Settled(Replied(w[k], "OK"))]
      <3>1. call'[k] = Settled(Replied(call[k], "OK"))
        BY <2>2, <2>3
      <3>2. \A c : Settled(c).pc = c.pc /\ Settled(c).spc = c.spc
        BY DEF Settled, NewCall
      <3> QED
        BY <1>1, <1>2, <3>1, <3>2 DEF Replies
    <2> QED
      BY <1>1, <1>2, <1>3, <2>1, <2>3 DEF Replies
  <1> QED
    BY <1>4, <1>5, <1>6, <1>7, <1>8, <1>9, <1>10, <1>11, <1>12, <1>13, <1>14, <1>15, <1>16
       DEF Handler

(* A call that was made stays made, and its request the same.              *)
LEMMA NamesKept ==
  ASSUME ShapeInv, [Next]_vars, NEW n, NEW f, IsOf(n, f)
  PROVE  IsOf(n, f)'
  <1> SUFFICES ASSUME n \in Calls, call[n].pc # "idle"
               PROVE  call'[n].pc # "idle" /\ req'[n] = req[n]
    BY DEF IsOf
  <1>1. ASSUME NEW k \in Calls, Start(k) PROVE n # k /\ call'[n] = call[n] /\ req'[n] = req[n]
    <2>1. n # k /\ (\E c : Set(k, c)) /\ \E r : req' = [req EXCEPT ![k] = r]
      BY <1>1 DEF Start
    <2> QED
      BY <2>1, SetOthers DEF ShapeInv, Typed
  <1>2. ASSUME NEW k \in Calls, Client(k) \/ Deadline(k) \/ HandleSignal(k)
        PROVE  call'[n].pc # "idle" /\ req'[n] = req[n]
    BY <1>2, ClientFd
  <1>3. ASSUME NEW k \in Calls, Handler(k)
        PROVE  call'[n].pc # "idle" /\ req'[n] = req[n]
    BY <1>3, HandlerFd, HandlerWatched DEF Watches, SameButWitness, SameEnds
  <1>4. CASE Crash
    <2>1. call'[n] = call[n] \/ call'[n] = Settled(Replied(call[n], "UNAVAILABLE"))
      BY <1>4 DEF Crash
    <2>2. call[n] \in CallRecord
      BY DEF ShapeInv, CallsShaped
    <2>3. Replied(call[n], "UNAVAILABLE").pc = call[n].pc
      BY <2>2, RepliedFields DEF Replies
    <2>4. \A c : Settled(c).pc = c.pc
      BY DEF Settled, NewCall
    <2> QED
      BY <1>4, <2>1, <2>3, <2>4 DEF Crash
  <1> QED
    BY <1>1, <1>2, <1>3, <1>4 DEF Next, vars

(* A handler writes its own file only.                                     *)
LEMMA HandlerWrites ==
  ASSUME ShapeInv, NamesInv, NEW k \in Calls, Handler(k)
  PROVE  /\ req[k] \in Request
         /\ \A g \in Files : g # req[k].file => dir'[g] = dir[g]
         /\ dir'[req[k].file] # None => IsOf(dir'[req[k].file], req[k].file)
         /\ OpenForWrite(k) => call'[k].fd = dir'[req[k].file] /\ dir'[req[k].file] # None
         /\ \A n \in Inodes : ~IsOf(n, req[k].file) => data'[n] = data[n]
  <1> DEFINE f == req[k].file
  <1>1. /\ Typed /\ call[k] \in CallRecord /\ Shape(req[k], call[k])
        /\ call[k].pc # "idle" /\ req[k] \in Request /\ f \in Files
    <2>1. Typed /\ call[k] \in CallRecord /\ Shape(req[k], call[k])
      BY DEF ShapeInv, CallsShaped
    <2>2. call[k].pc # "idle" /\ req[k] \in Request
      BY <2>1, HandlerFd DEF Shape, ClientShape
    <2> QED
      BY <2>1, <2>2 DEF Request
  <1>2. dir[f] # None => IsOf(dir[f], f)
    BY <1>1 DEF NamesInv
  <1>3. call[k].spc = "write" => IsOf(call[k].fd, f)
    BY DEF NamesInv
  <1>4. CASE OpenForWrite(k)
    <2> DEFINE n == IF dir[f] = None THEN k ELSE dir[f]
               w == Witnessed(k, f, TRUE)
    <2>1. /\ dir' = [dir EXCEPT ![f] = n] /\ data' = [data EXCEPT ![n] = <<>>]
          /\ call' = [w EXCEPT ![k].spc = "write", ![k].fd = n] /\ ~Listing(call[k])
      BY <1>4 DEF OpenForWrite, SAt, Listing
    <2>2. w[k] = call[k] /\ k \in DOMAIN w
      BY <2>1 DEF Witnessed
    <2>3. IsOf(n, f) /\ n # None
      BY <1>1, <1>2, Part1Assumption DEF IsOf
    <2> HIDE DEF w, n, f
    <2>4. call'[k].fd = n
      BY <1>1, <2>1, <2>2 DEF CallRecord
    <2>5. dir'[f] = n /\ \A g \in Files : g # f => dir'[g] = dir[g]
      BY <1>1, <2>1 DEF Typed
    <2>6. \A m \in Inodes : m # n => data'[m] = data[m]
      BY <1>1, <2>1 DEF Typed
    <2> QED
      BY <1>1, <2>3, <2>4, <2>5, <2>6 DEF f
  <1>5. CASE WriteChunk(k)
    <2>1. /\ UNCHANGED dir
          /\ UNCHANGED data \/ \E s : data' = [data EXCEPT ![call[k].fd] = s]
      BY <1>5 DEF WriteChunk
    <2>2. call[k].spc = "write"
      BY <1>5 DEF WriteChunk, SAt
    <2>3. \A n \in Inodes : n # call[k].fd => data'[n] = data[n]
      BY <1>1, <2>1 DEF Typed
    <2> QED
      BY <1>1, <1>2, <1>3, <2>1, <2>2, <2>3 DEF OpenForWrite, SAt
  <1>6. CASE EndOfStream(k)
    <2>1. /\ UNCHANGED dir
          /\ UNCHANGED data \/ \E s : data' = [data EXCEPT ![call[k].fd] = s]
      BY <1>6 DEF EndOfStream
    <2>2. call[k].spc = "write"
      BY <1>6 DEF EndOfStream, SAt
    <2>3. \A n \in Inodes : n # call[k].fd => data'[n] = data[n]
      BY <1>1, <2>1 DEF Typed
    <2> QED
      BY <1>1, <1>2, <1>3, <2>1, <2>2, <2>3 DEF OpenForWrite, SAt
  <1>7. CASE Remove(k)
    <2>1. dir' = [dir EXCEPT ![f] = None] /\ UNCHANGED data /\ call[k].spc = "remove"
      BY <1>7 DEF Remove, SAt
    <2>2. dir'[f] = None /\ \A g \in Files : g # f => dir'[g] = dir[g]
      BY <1>1, <2>1 DEF Typed
    <2> QED
      BY <1>1, <2>1, <2>2 DEF OpenForWrite, SAt
  <1>8. CASE ~OpenForWrite(k) /\ UNCHANGED <<dir, data>>
    BY <1>1, <1>2, <1>8
  <1> QED
    BY <1>4, <1>5, <1>6, <1>7, <1>8 DEF Handler, Begin, ReadHeader, OpenFails, StatAfterWrite,
       FetchStat, OpenForRead, ReadChunk, ReadEnd, StatFile, OpenDir, ReadDir, StatEntry,
       ReadDirEnd

LEMMA NamesInit == Init => NamesInv
  <1> SUFFICES ASSUME Init PROVE NamesInv
    OBVIOUS
  <1>1. \A f \in Files : dir[f] # None => dir[f] = f
    BY DEF Init
  <1>2. \A k \in Calls : call[k].spc = "none"
    BY DEF Init, NewCall
  <1> QED
    BY <1>1, <1>2 DEF NamesInv, IsOf

LEMMA NamesStep ==
  ASSUME ShapeInv, NamesInv, [Next]_vars
  PROVE  NamesInv'
  <1>1. ASSUME NEW n, NEW f, IsOf(n, f) PROVE IsOf(n, f)'
    BY <1>1, NamesKept
  <1>2. ASSUME UNCHANGED dir
        PROVE  \A f \in Files : dir'[f] # None => IsOf(dir[f], f)'
    BY <1>1, <1>2 DEF NamesInv
  <1>3. ASSUME NEW j \in Calls, call'[j].spc = "write", call[j].spc = "write",
               call'[j].fd = call[j].fd, req'[j] = req[j]
        PROVE  IsOf(call[j].fd, req[j].file)'
    <2>1. IsOf(call[j].fd, req[j].file)
      BY <1>3 DEF NamesInv
    <2> DEFINE n == call[j].fd
               f == req[j].file
    <2>2. IsOf(n, f) /\ call'[j].fd = n /\ req'[j].file = f
      BY <1>3, <2>1
    <2> HIDE DEF n, f
    <2> QED
      BY <1>1, <2>2
  <1>4. ASSUME NEW k \in Calls, Start(k) PROVE NamesInv'
    <2>1. /\ \E r : req' = [req EXCEPT ![k] = r]
          /\ UNCHANGED dir /\ call[k].pc = "idle"
      BY <1>4 DEF Start
    <2>2. call[k] = NewCall
      BY <2>1 DEF ShapeInv, CallsShaped, Shape, ClientShape
    <2>3. PICK c : Set(k, c) /\ c.spc # "write"
      <3>1. \A pc : [NewCall EXCEPT !.spc = "start", !.pc = pc].spc = "start"
        BY DEF NewCall
      <3>2. Returned(NewCall, "NOT_FOUND").spc = "none"
        BY DEF NewCall, Returned
      <3> QED
        BY <1>4, <2>2, <3>1, <3>2 DEF Start
    <2>4. call'[k].spc # "write"
      <3>1. call'[k] = Settled(c)
        BY <2>3, SetOthers
      <3> QED
        BY <2>3, <3>1 DEF Settled, NewCall
    <2>5. \A j \in Calls \ {k} : call'[j] = call[j] /\ req'[j] = req[j]
      BY <2>1, <2>3, SetOthers DEF ShapeInv, Typed
    <2> QED
      BY <1>2, <1>3, <2>1, <2>4, <2>5 DEF NamesInv
  <1>5. ASSUME NEW k \in Calls, Client(k) \/ Deadline(k) \/ HandleSignal(k) PROVE NamesInv'
    <2>1. UNCHANGED <<dir, req>>
      BY <1>5, ClientFd
    <2>2. \A j \in Calls : call'[j].spc = "write" =>
             call[j].spc = "write" /\ call'[j].fd = call[j].fd
      BY <1>5, ClientFd
    <2> QED
      BY <1>2, <1>3, <2>1, <2>2 DEF NamesInv
  <1>6. ASSUME NEW k \in Calls, Handler(k) PROVE NamesInv'
    <2> DEFINE f == req[k].file
    <2>1. /\ f \in Files /\ UNCHANGED req
          /\ \A g \in Files : g # f => dir'[g] = dir[g]
          /\ dir'[f] # None => IsOf(dir'[f], f)
          /\ OpenForWrite(k) => call'[k].fd = dir'[f] /\ dir'[f] # None
      BY <1>6, HandlerWrites, HandlerWatched DEF Request
    <2>2. \A g \in Files : dir'[g] # None => IsOf(dir[g], g)'
      BY <1>1, <2>1 DEF NamesInv
    <2>3. call'[k].spc = "write" => OpenForWrite(k) \/ (call[k].spc = "write" /\ call'[k].fd = call[k].fd)
      BY <1>6, HandlerFd
    <2>4. call'[k].spc = "write" => IsOf(call[k].fd, req[k].file)'
      BY <1>3, <2>1, <2>2, <2>3
    <2>5. \A j \in Calls \ {k} : call'[j].spc = call[j].spc /\ call'[j].fd = call[j].fd
      BY <1>6, HandlerWatched DEF Watches, SameButWitness, SameEnds
    <2> QED
      BY <1>3, <2>1, <2>2, <2>4, <2>5 DEF NamesInv
  <1>7. CASE Crash
    <2>1. UNCHANGED <<dir, req>>
      BY <1>7 DEF Crash
    <2>2. ASSUME NEW j \in Calls, call'[j].spc = "write" PROVE call'[j] = call[j]
      <3>1. CASE Serving(j)
        <4>1. call'[j] = Settled(Replied(call[j], "UNAVAILABLE")) /\ call[j] \in CallRecord
          BY <1>7, <3>1 DEF Crash, ShapeInv, CallsShaped
        <4>2. Replied(call[j], "UNAVAILABLE").spc = "done"
          BY <4>1, RepliedFields DEF Replies
        <4> QED
          BY <2>2, <4>1, <4>2 DEF Settled, NewCall
      <3>2. CASE ~Serving(j)
        BY <1>7, <3>2 DEF Crash
      <3> QED
        BY <3>1, <3>2
    <2> QED
      BY <1>2, <1>3, <2>1, <2>2 DEF NamesInv
  <1>8. CASE UNCHANGED vars
    BY <1>2, <1>3, <1>8 DEF vars, NamesInv
  <1> QED
    BY <1>4, <1>5, <1>6, <1>7, <1>8 DEF Next

----------------------------------------------------------------------------
(* What a step of call k leaves of the files of the others.                *)

(* The bytes of the file f on the server.                                  *)
Text(f) == IF dir[f] = None THEN <<>> ELSE data[dir[f]]

LEMMA OthersLeave ==
  ASSUME ShapeInv, NamesInv, NEW k \in Calls, Handler(k), NEW f \in Files,
         UNCHANGED <<dir, data>> \/ req[k].file # f
  PROVE  dir'[f] = dir[f] /\ Text(f)' = Text(f)
  <1>1. CASE UNCHANGED <<dir, data>>
    BY <1>1 DEF Text
  <1>2. CASE req[k].file # f
    <2>1. req[k].file \in Files /\ dir'[f] = dir[f]
      BY <1>2, HandlerWrites DEF Request
    <2>2. CASE dir[f] = None
      BY <2>1, <2>2 DEF Text
    <2>3. CASE dir[f] # None
      <3>1. IsOf(dir[f], f) /\ dir[f] \in Inodes
        BY <2>3 DEF NamesInv, ShapeInv, Typed
      <3>2. ~IsOf(dir[f], req[k].file)
        BY <1>2, <2>1, <3>1, OneFile
      <3> QED
        BY <2>1, <2>3, <3>1, <3>2, HandlerWrites DEF Text
    <2> QED
      BY <2>2, <2>3
  <1> QED
    BY <1>1, <1>2

----------------------------------------------------------------------------
(* A text on its way from one file to another.                             *)

(* After the d messages that are no data, stream q has what lies between   *)
(* the places n and m of text s.                                           *)
Under(q, d, n, m, s) ==
    /\ n <= m /\ m <= Len(s)
    /\ Len(q) = d + (m - n)
    /\ \A j \in 1 .. Len(q) : j > d => q[j] = Message(s, n + j - d)

(* Of the text s its receiver c has written t and buffers the rest of what *)
(* it took.                                                                *)
Received(t, c, s) ==
    /\ Len(t) = IF c.kept = None THEN c.taken ELSE c.taken - 1
    /\ \A i \in 1 .. Len(t) : t[i] = s[i]
    /\ c.taken <= Len(s)
    /\ c.kept # None => c.taken = Len(s) /\ c.taken > 0 /\ c.kept = s[c.taken]

LEMMA UnderAppend ==
  ASSUME NEW S, NEW q \in Seq(S), NEW d \in {0, 1}, NEW n \in Nat, NEW m \in Nat,
         NEW s \in Texts, Under(q, d, n, m, s), m + 1 <= Len(s)
  PROVE  Under(Append(q, Message(s, m + 1)), d, n, m + 1, s)
  <1> DEFINE x == Message(s, m + 1)
             e == Append(q, x)
  <1> HIDE DEF x
  <1>1. /\ Len(q) \in Nat /\ Len(e) = Len(q) + 1 /\ e[Len(q) + 1] = x
        /\ \A j \in 1 .. Len(q) : e[j] = q[j]
    OBVIOUS
  <1>2. n <= m /\ Len(q) = d + (m - n) /\ \A j \in 1 .. Len(q) : j > d => q[j] = Message(s, n + j - d)
    BY DEF Under
  <1> HIDE DEF e
  <1>3. n + (Len(q) + 1) - d = m + 1
    BY <1>2
  <1>4. ASSUME NEW j \in 1 .. Len(e), j > d PROVE e[j] = Message(s, n + j - d)
    <2>1. CASE j = Len(q) + 1
      BY <1>1, <1>3, <2>1 DEF x
    <2>2. CASE j # Len(q) + 1
      <3>1. j \in 1 .. Len(q)
        BY <1>1, <2>2
      <3> QED
        BY <1>1, <1>2, <1>4, <3>1
    <2> QED
      BY <2>1, <2>2
  <1>5. Len(e) = d + ((m + 1) - n) /\ n <= m + 1
    BY <1>1, <1>2
  <1> QED
    BY <1>4, <1>5 DEF Under, e, x

LEMMA UnderTail ==
  ASSUME NEW S, NEW q \in Seq(S), q # <<>>, NEW n \in Nat, NEW m \in Nat, NEW s \in Texts
  PROVE  /\ Under(q, 1, n, m, s) => Under(Tail(q), 0, n, m, s)
         /\ Under(q, 0, n, m, s) =>
              /\ n + 1 <= Len(s) /\ Head(q) = Message(s, n + 1)
              /\ Under(Tail(q), 0, n + 1, m, s)
  <1>1. /\ Head(q) = q[1] /\ Len(Tail(q)) = Len(q) - 1 /\ Len(q) \in Nat \ {0}
        /\ \A i \in 1 .. Len(q) - 1 : Tail(q)[i] = q[i + 1]
    BY HeadTaken
  <1> DEFINE e == Tail(q)
  <1>2. ASSUME Under(q, 1, n, m, s) PROVE Under(e, 0, n, m, s)
    <2> HIDE DEF e
    <2>1. /\ n <= m /\ m <= Len(s) /\ Len(q) = 1 + (m - n)
          /\ \A j \in 1 .. Len(q) : j > 1 => q[j] = Message(s, n + j - 1)
      BY <1>2 DEF Under
    <2>2. ASSUME NEW j \in 1 .. Len(e) PROVE e[j] = Message(s, n + j - 0)
      <3>1. j + 1 \in 1 .. Len(q) /\ e[j] = q[j + 1] /\ n + (j + 1) - 1 = n + j - 0
        BY <1>1 DEF e
      <3> QED
        BY <2>1, <3>1
    <2>3. Len(e) = 0 + (m - n)
      BY <1>1, <2>1 DEF e
    <2> QED
      BY <2>1, <2>2, <2>3 DEF Under
  <1>3. ASSUME Under(q, 0, n, m, s)
        PROVE  n + 1 <= Len(s) /\ Head(q) = Message(s, n + 1) /\ Under(e, 0, n + 1, m, s)
    <2> HIDE DEF e
    <2>1. /\ n <= m /\ m <= Len(s) /\ Len(q) = 0 + (m - n) /\ Len(s) \in Nat
          /\ \A j \in 1 .. Len(q) : j > 0 => q[j] = Message(s, n + j - 0)
      BY <1>3 DEF Under, Texts
    <2>2. ASSUME NEW j \in 1 .. Len(e) PROVE e[j] = Message(s, (n + 1) + j - 0)
      <3>1. j + 1 \in 1 .. Len(q) /\ e[j] = q[j + 1] /\ n + (j + 1) - 0 = (n + 1) + j - 0
        BY <1>1 DEF e
      <3> QED
        BY <2>1, <3>1
    <2>3. Len(e) = 0 + (m - (n + 1)) /\ n + 1 <= m
      BY <1>1, <2>1 DEF e
    <2>4. 1 \in 1 .. Len(q) /\ n + 1 - 0 = n + 1
      BY <1>1
    <2>5. Head(q) = Message(s, n + 1)
      BY <1>1, <2>1, <2>4
    <2> QED
      BY <2>1, <2>2, <2>3, <2>5 DEF Under
  <1> QED
    BY <1>2, <1>3

LEMMA UnderEnds ==
  ASSUME NEW n \in Nat, NEW m \in Nat, NEW s \in Texts
  PROVE  /\ Under(<<>>, 0, n, m, s) => n = m
         /\ ~Under(<<>>, 1, n, m, s)
         /\ Under(<<Header>>, 1, 0, 0, s)
  <1>1. Len(<<>>) = 0 /\ Len(<<Header>>) = 1 /\ Len(s) \in Nat
    BY DEF Texts
  <1> QED
    BY <1>1 DEF Under

(* Writing right behind the end.                                           *)
LEMMA WriteNext ==
  ASSUME NEW t \in Texts, NEW b \in Bytes \cup {None}
  PROVE  LET w == WriteAt(t, Len(t) + 1, b) IN
         /\ Len(w) = Len(t) + 1 /\ w[Len(t) + 1] = b
         /\ \A i \in 1 .. Len(t) : w[i] = t[i]
  <1> DEFINE n == Len(t) + 1
             w == WriteAt(t, n, b)
             e(j) == IF j = n THEN b ELSE IF j <= Len(t) THEN t[j] ELSE Hole
  <1>1. n \in Nat /\ Len(t) \in Nat
    BY DEF Texts
  <1>2. w = [j \in 1 .. (IF n > Len(t) THEN n ELSE Len(t)) |-> e(j)]
    BY DEF WriteAt
  <1>3. w = [j \in 1 .. n |-> e(j)]
    BY <1>1, <1>2
  <1>4. w \in Seq(Bytes \cup {None})
    BY <1>1, HoleIsText, WriteAtTyped DEF Texts
  <1>5. DOMAIN w = 1 .. n
    BY <1>3
  <1> HIDE DEF w
  <1>6. Len(w) = n
    BY <1>1, <1>4, <1>5
  <1>7. \A j \in 1 .. n : w[j] = e(j)
    BY <1>3
  <1> QED
    BY <1>1, <1>6, <1>7 DEF w

LEMMA ReceivedChunk ==
  ASSUME NEW c \in CallRecord, NEW s \in Texts, FilePlaced(s), NEW t \in Texts, ~c.bad,
         Received(t, c, s), c.taken + 1 <= Len(s)
  PROVE  LET x == Message(s, c.taken + 1) IN Received(Written(c, x, t), Taken(c, x), s)
  <1> DEFINE i == c.taken + 1
             x == Message(s, i)
             d == Taken(c, x)
             w == Written(c, x, t)
  <1>1. /\ c.taken \in Nat /\ Len(s) \in Nat /\ Len(t) \in Nat /\ i \in 1 .. Len(s) /\ i \in Nat
    BY DEF CallRecord, Texts
  <1>2. c.kept = None /\ Len(t) = c.taken /\ \A j \in 1 .. Len(t) : t[j] = s[j]
    BY <1>1 DEF Received
  <1>3. x.chunk = s[i] /\ s[i] \in Bytes /\ s[i] # None /\ (x.small => i = Len(s)) /\ x \in Messages
    <2>1. s[i] \in Bytes
      BY <1>1 DEF FilePlaced, InPlace
    <2> QED
      BY <1>1, <2>1, MessagesSent, Part1Assumption DEF Message
  <1> HIDE DEF x
  <1>4. d.taken = i /\ d.kept = IF x.small THEN x.chunk ELSE None
    BY <1>2, <1>3, TakenFields
  <1> HIDE DEF d
  <1>5. CASE x.small
    <2>1. w = t
      BY <1>5 DEF Written
    <2> HIDE DEF w
    <2> QED
      BY <1>1, <1>2, <1>3, <1>4, <1>5, <2>1 DEF Received, w, d, x
  <1>6. CASE ~x.small
    <2>1. w = WriteAt(t, Len(t) + 1, x.chunk)
      BY <1>2, <1>6 DEF Written
    <2> HIDE DEF w
    <2>2. Len(w) = i /\ w[i] = s[i] /\ \A j \in 1 .. Len(t) : w[j] = t[j]
      BY <1>2, <1>3, <2>1, WriteNext
    <2>3. \A j \in 1 .. Len(w) : w[j] = s[j]
      BY <1>1, <1>2, <2>2
    <2> QED
      BY <1>1, <1>4, <1>6, <2>2, <2>3 DEF Received, w, d, x
  <1> QED
    BY <1>5, <1>6

LEMMA ReceivedAll ==
  ASSUME NEW c \in CallRecord, NEW s \in Texts, NEW t \in Texts, Received(t, c, s),
         c.taken = Len(s)
  PROVE  Flushed(c, t) = s
  <1>1. c.taken \in Nat /\ Len(s) \in Nat /\ Len(t) \in Nat
    BY DEF CallRecord, Texts
  <1>2. \A u \in Texts : Len(u) = Len(s) /\ (\A i \in 1 .. Len(u) : u[i] = s[i]) => u = s
    BY SeqEqual DEF Texts
  <1>3. CASE c.kept = None
    BY <1>1, <1>2, <1>3 DEF Received, Flushed
  <1>4. CASE c.kept # None
    <2> DEFINE w == Flushed(c, t)
    <2>1. Len(t) + 1 = c.taken /\ c.kept = s[c.taken] /\ c.taken > 0
          /\ \A i \in 1 .. Len(t) : t[i] = s[i]
      BY <1>1, <1>4 DEF Received
    <2>2. w = WriteAt(t, Len(t) + 1, c.kept) /\ c.kept \in Bytes \cup {None}
      BY <1>4, <2>1 DEF Flushed, CallRecord
    <2>3. w \in Texts
      BY WritesTyped
    <2> HIDE DEF w
    <2>4. Len(w) = Len(s) /\ w[Len(s)] = s[Len(s)] /\ \A i \in 1 .. Len(t) : w[i] = t[i]
      <3>1. Len(w) = Len(t) + 1 /\ w[Len(t) + 1] = c.kept /\ \A i \in 1 .. Len(t) : w[i] = t[i]
        BY <2>2, WriteNext
      <3>2. Len(t) + 1 = Len(s)
        BY <2>1
      <3> QED
        BY <2>1, <3>1, <3>2
    <2>5. \A i \in 1 .. Len(w) : w[i] = s[i]
      BY <1>1, <2>1, <2>4
    <2> QED
      BY <1>2, <2>3, <2>4, <2>5 DEF w
  <1> QED
    BY <1>3, <1>4

----------------------------------------------------------------------------
(* What transfers whose client still waits for the result have done.  Here *)
(* s is the client's file, n the inode of the server's, t the bytes of n.  *)

(* A store c.  Until another call changes the server's file, its handler   *)
(* has what it took in the file or the buffer.                             *)
StoreOk(c, s, n, t) ==
    /\ s \in Texts
    /\ Reads(c) /\ c.pc # "header" => Under(c.up, UpOffset(c), c.taken, c.sent, s)
    /\ c.half => c.sent = Len(s)
    /\ c.alone /\ c.spc = "write" => n = c.fd /\ (c.bad \/ Received(t, c, s))
    /\ c.alone /\ ~c.lost =>
          /\ c.spc = "stat" => t = s
          /\ c.reply = "OK" => n # None /\ t = s

(* The handler found the file, and has not failed since.                   *)
Sending(c) == c.spc \in {"open_read", "read", "read_end"} \/ c.reply = "OK"

(* A fetch c whose file no other call changed.                             *)
FetchOk(c, s, n, t) ==
    /\ c.pc = "first" => s = <<>>
    /\ c.pc = "finish" => c.spc = "done"
    /\ c.spc \in {"read", "read_end"} => n = c.fd
    /\ Sending(c) =>
          /\ n # None
          /\ Receives(c) => Under(c.down, DownOffset(c), c.taken, c.sent, t)
          /\ Receives(c) /\ c.spc \notin {"open_read", "read"} => c.sent = Len(t)
          /\ c.pc = "receive" => c.bad \/ Received(s, c, t)
          /\ c.pc = "finish" /\ ~c.lost => s = t

Waits(c) == c.pc \notin {"idle", "done", "killed"} /\ ~c.cancelled

WholeOk(r, c, s, n, t) ==
    /\ r.op = "store" /\ Waits(c) => StoreOk(c, s, n, t)
    /\ r.op = "fetch" /\ Waits(c) /\ c.alone => FetchOk(c, s, n, t)

Whole(k) == WholeOk(req[k], call[k], Mine(k), dir[req[k].file], Text(req[k].file))

WholeInv == DataInv /\ NamesInv /\ \A k \in Calls : Whole(k)

LEMMA SettledWhole ==
  ASSUME NEW r, NEW c \in CallRecord, NEW s, NEW n, NEW t, WholeOk(r, c, s, n, t)
  PROVE  WholeOk(r, Settled(c), s, n, t)
  <1>1. CASE c.pc \in {"done", "killed"} /\ c.spc \in {"none", "done"}
    BY <1>1, SettledFields DEF WholeOk, Waits
  <1>2. CASE ~(c.pc \in {"done", "killed"} /\ c.spc \in {"none", "done"})
    BY <1>2 DEF Settled
  <1> QED
    BY <1>1, <1>2

LEMMA WitnessWhole ==
  ASSUME NEW r, NEW c \in CallRecord, NEW d \in CallRecord, SameButWitness(c, d),
         NEW s, NEW n, NEW t, WholeOk(r, c, s, n, t), NEW s2, NEW n2, NEW t2,
         Waits(c) => s2 = s,
         Waits(c) /\ r.op \in {"store", "fetch"} /\ d.alone => c.alone /\ n2 = n /\ t2 = t
  PROVE  WholeOk(r, d, s2, n2, t2)
  <1>1. Waits(d) <=> Waits(c)
    BY DEF Waits, SameButWitness, SameEnds
  <1>2. ASSUME r.op = "store", Waits(d) PROVE StoreOk(d, s2, n2, t2)
    <2>1. StoreOk(c, s, n, t) /\ s2 = s /\ (d.alone => c.alone /\ n2 = n /\ t2 = t)
      BY <1>1, <1>2 DEF WholeOk
    <2>2. Reads(d) /\ d.pc # "header" => Under(d.up, UpOffset(d), d.taken, d.sent, s2)
      BY <2>1 DEF StoreOk, SameButWitness, SameEnds, Reads, UpOffset
    <2>3. d.alone /\ d.spc = "write" => n2 = d.fd /\ (d.bad \/ Received(t2, d, s2))
      BY <2>1 DEF StoreOk, SameButWitness, SameEnds, Received
    <2> QED
      BY <2>1, <2>2, <2>3 DEF StoreOk, SameButWitness, SameEnds
  <1>3. ASSUME r.op = "fetch", Waits(d), d.alone PROVE FetchOk(d, s2, n2, t2)
    <2>1. FetchOk(c, s, n, t) /\ s2 = s /\ n2 = n /\ t2 = t
      BY <1>1, <1>3 DEF WholeOk
    <2>2. /\ d.down = c.down /\ d.sent = c.sent /\ d.taken = c.taken /\ d.kept = c.kept
          /\ d.bad = c.bad /\ d.fd = c.fd /\ d.lost = c.lost /\ d.pc = c.pc /\ d.spc = c.spc
          /\ d.reply = c.reply
      BY DEF SameButWitness, SameEnds
    <2> QED
      BY <2>1, <2>2 DEF FetchOk, Sending, Receives, DownOffset, Received
  <1> QED
    BY <1>2, <1>3 DEF WholeOk

LEMMA RepliedWhole ==
  ASSUME NEW r, NEW c \in CallRecord, NEW s, NEW n, NEW t, WholeOk(r, c, s, n, t),
         NEW x \in Replies, x # "OK", NEW n2, NEW t2
  PROVE  WholeOk(r, Replied(c, x), s, n2, t2)
  <1> DEFINE d == Replied(c, x)
  <1>1. /\ d.spc = "done" /\ d.reply = x /\ d.pc = c.pc /\ d.cancelled = c.cancelled
        /\ d.half = c.half /\ d.sent = c.sent /\ d.alone = c.alone
    BY RepliedFields DEF SameTransfer
  <1> HIDE DEF d
  <1>2. WholeOk(r, d, s, n2, t2)
    BY <1>1 DEF WholeOk, Waits, StoreOk, FetchOk, Sending, Reads
  <1> QED
    BY <1>2 DEF d

(* What holds of a transfer k.                                             *)
LEMMA WholeFacts ==
  ASSUME WholeInv, NEW k \in Calls
  PROVE  /\ DataInv /\ ShapeInv /\ NamesInv
         /\ call[k] \in CallRecord /\ Shape(req[k], call[k])
         /\ StreamOk(req[k], call[k], Mine(k))
         /\ WholeOk(req[k], call[k], Mine(k), dir[req[k].file], Text(req[k].file))
         /\ call[k].pc # "idle" =>
              /\ req[k] \in Request /\ req[k].file \in Files
              /\ dir[req[k].file] \in Inodes \cup {None}
              /\ Text(req[k].file) \in Texts /\ FilePlaced(Text(req[k].file))
  <1>1. /\ DataInv /\ ShapeInv /\ NamesInv
        /\ call[k] \in CallRecord /\ Shape(req[k], call[k])
        /\ StreamOk(req[k], call[k], Mine(k))
        /\ call[k].pc # "idle" => req[k] \in Request
    BY CallFacts DEF WholeInv, DataInv
  <1>2. WholeOk(req[k], call[k], Mine(k), dir[req[k].file], Text(req[k].file))
    BY DEF WholeInv, Whole
  <1>3. Typed /\ FilesPlaced
    BY <1>1 DEF DataInv, ShapeInv
  <1>4. \A f \in Files : dir[f] \in Inodes \cup {None}
    BY <1>3 DEF Typed
  <1>5. ASSUME NEW f \in Files PROVE Text(f) \in Texts /\ FilePlaced(Text(f))
    <2>1. <<>> \in Texts /\ FilePlaced(<<>>)
      BY HoleIsText DEF FilePlaced
    <2> QED
      BY <1>3, <1>4, <2>1 DEF Text, Typed, FilesPlaced
  <1> QED
    BY <1>1, <1>2, <1>4, <1>5 DEF Request

(* A step of call k, for itself.                                           *)
LEMMA OwnWhole ==
  ASSUME NEW k \in Calls, NEW c \in CallRecord, call'[k] = Settled(c),
         NEW s, s = Mine(k)', NEW f, f = req'[k].file, NEW n, n = dir'[f], NEW t, t = Text(f)',
         WholeOk(req'[k], c, s, n, t)
  PROVE  Whole(k)'
  <1>1. WholeOk(req'[k], Settled(c), s, n, t)
    BY SettledWhole
  <1> QED
    BY <1>1 DEF Whole, Text, Mine

(* ... that leaves all files alone.                                        *)
LEMMA SetWhole ==
  ASSUME ShapeInv, NEW k \in Calls, NEW c \in CallRecord, Set(k, c),
         UNCHANGED <<dir, data, local, req>>,
         WholeOk(req[k], c, Mine(k), dir[req[k].file], Text(req[k].file))
  PROVE  Whole(k)'
  <1>1. WholeOk(req[k], Settled(c), Mine(k), dir[req[k].file], Text(req[k].file))
    BY SettledWhole
  <1>2. call'[k] = Settled(c)
    BY SetOthers
  <1>3. Mine(k)' = Mine(k) /\ Text(req[k].file)' = Text(req[k].file)
    BY DEF Mine, Text
  <1> QED
    BY <1>1, <1>2, <1>3 DEF Whole

LEMMA ReplyWhole ==
  ASSUME WholeInv, NEW k \in Calls, NEW x \in Replies, x # "OK", Set(k, Replied(call[k], x)),
         UNCHANGED <<dir, data, local, req>>
  PROVE  Whole(k)'
  <1> DEFINE c == Replied(call[k], x)
  <1>1. ShapeInv /\ call[k] \in CallRecord
        /\ WholeOk(req[k], call[k], Mine(k), dir[req[k].file], Text(req[k].file))
    BY WholeFacts
  <1>2. c \in CallRecord /\ WholeOk(req[k], c, Mine(k), dir[req[k].file], Text(req[k].file))
    BY <1>1, RepliedFields, RepliedWhole
  <1>3. Set(k, c)
    OBVIOUS
  <1> HIDE DEF c
  <1> QED
    BY <1>1, <1>2, <1>3, SetWhole

(* A step after which the client waits for nothing more, or of a call that *)
(* is no transfer.                                                         *)
LEMMA LeftWhole ==
  ASSUME ShapeInv, NEW k \in Calls, NEW c, Set(k, c),
         ~Waits(c) \/ req'[k].op \notin {"store", "fetch"}
  PROVE  Whole(k)'
  <1>1. call'[k] = Settled(c)
    BY SetOthers
  <1>2. ~Waits(c) => ~Waits(Settled(c))
    BY DEF Settled, Waits, NewCall
  <1> QED
    BY <1>1, <1>2 DEF Whole, WholeOk

----------------------------------------------------------------------------
(* The steps of a store.                                                   *)

LEMMA StoreFacts ==
  ASSUME WholeInv, NEW k \in Calls, req[k].op = "store", Waits(call[k])
  PROVE  /\ StoreOk(call[k], Mine(k), dir[req[k].file], Text(req[k].file))
         /\ Reads(call[k]) => UpOk(call[k], Mine(k)) /\ ~Broken(call[k])
         /\ call[k].up \in Seq(Messages) /\ call[k].sent \in Nat /\ call[k].taken \in Nat
         /\ Mine(k) \in Texts /\ Len(Mine(k)) \in Nat /\ FilePlaced(Mine(k))
  <1>1. /\ call[k] \in CallRecord /\ Shape(req[k], call[k])
        /\ StreamOk(req[k], call[k], Mine(k))
        /\ StoreOk(call[k], Mine(k), dir[req[k].file], Text(req[k].file))
    BY WholeFacts DEF WholeOk
  <1>2. Mine(k) \in Texts
    BY <1>1 DEF StoreOk
  <1>3. Reads(call[k]) => call[k].reply = None
    BY <1>1 DEF Reads, Shape, HandlerShape
  <1>4. FilePlaced(Mine(k))
    <2>1. FilesPlaced /\ req[k] \in Request
      BY WholeFacts DEF DataInv, Waits
    <2> QED
      BY <1>2, <2>1 DEF FilesPlaced, Mine, Request
  <1> QED
    BY <1>1, <1>2, <1>3, <1>4 DEF StreamOk, Broken, Waits, CallRecord, Texts

LEMMA StoreHeaderWhole ==
  ASSUME WholeInv, NEW k \in Calls, StoreHeader(k)
  PROVE  Whole(k)'
  <1> DEFINE d == SentUp(call[k], Header)
             c == [d EXCEPT !.pc = "send"]
             s == Mine(k)
             n == dir[req[k].file]
             t == Text(req[k].file)
  <1>1. /\ ShapeInv /\ call[k] \in CallRecord /\ call[k].pc = "header" /\ req[k].op = "store"
        /\ Set(k, c) /\ UNCHANGED <<dir, data, local, req, crashes>>
    BY WholeFacts DEF StoreHeader, At
  <1>2. /\ d \in CallRecord /\ SameEnds(call[k], d) /\ SameTransfer(call[k], d)
        /\ d.up = IF Broken(call[k]) THEN call[k].up ELSE Append(call[k].up, Header)
    BY <1>1, MessagesSent, SentUpFields
  <1> HIDE DEF d
  <1>3. /\ c \in CallRecord /\ c.pc = "send" /\ c.up = d.up /\ c.spc = d.spc
        /\ c.taken = d.taken /\ c.kept = d.kept /\ c.sent = d.sent /\ c.cancelled = d.cancelled
    <2>1. c \in CallRecord
      BY <1>2 DEF CallRecord, Pcs
    <2>2. c.pc = "send" /\ c.up = d.up /\ c.spc = d.spc /\ c.taken = d.taken
      BY <1>2 DEF CallRecord, Pcs
    <2>3. c.kept = d.kept /\ c.sent = d.sent /\ c.cancelled = d.cancelled
      BY <1>2 DEF CallRecord, Pcs
    <2> HIDE DEF c
    <2> QED
      BY <2>1, <2>2, <2>3
  <1>4. /\ c.half = d.half /\ c.alone = d.alone /\ c.fd = d.fd /\ c.bad = d.bad
        /\ c.lost = d.lost /\ c.reply = d.reply
    BY <1>2 DEF CallRecord
  <1> HIDE DEF c
  <1>5. ASSUME Waits(c) PROVE StoreOk(c, s, n, t)
    <2>1. /\ StoreOk(call[k], s, n, t) /\ (Reads(call[k]) => UpOk(call[k], s) /\ ~Broken(call[k]))
          /\ s \in Texts
      BY <1>1, <1>2, <1>3, <1>5, StoreFacts DEF Waits, SameEnds
    <2> HIDE DEF s, n, t
    <2>2. ASSUME Reads(c) PROVE Under(c.up, UpOffset(c), c.taken, c.sent, s)
      <3>1. UpOk(call[k], s) /\ ~Broken(call[k])
        BY <1>2, <1>3, <2>1, <2>2 DEF Reads, SameEnds
      <3>2. /\ call[k].up = <<>> /\ call[k].sent = 0 /\ call[k].spc \in {"start", "read_header"}
            /\ call[k].taken = 0
        BY <1>1, <3>1 DEF UpOk
      <3>3. c.up = <<Header>> /\ c.taken = 0 /\ c.sent = 0 /\ UpOffset(c) = 1
        BY <1>2, <1>3, <3>1, <3>2 DEF SameEnds, SameTransfer, UpOffset
      <3> QED
        BY <2>1, <3>3, UnderEnds
    <2>3. /\ c.half => c.sent = Len(s)
          /\ c.alone /\ ~c.lost => /\ c.spc = "stat" => t = s
                                   /\ c.reply = "OK" => n # None /\ t = s
      BY <1>2, <1>3, <1>4, <2>1 DEF StoreOk, SameEnds, SameTransfer
    <2>4. c.alone /\ c.spc = "write" => n = c.fd /\ (c.bad \/ Received(t, c, s))
      BY <1>2, <1>3, <1>4, <2>1 DEF StoreOk, SameEnds, SameTransfer, Received
    <2> QED
      BY <2>1, <2>2, <2>3, <2>4 DEF StoreOk
  <1>6. WholeOk(req[k], c, s, n, t)
    BY <1>1, <1>5 DEF WholeOk
  <1> QED
    BY <1>1, <1>3, <1>6, SetWhole

LEMMA StoreChunkWhole ==
  ASSUME WholeInv, NEW k \in Calls, StoreChunk(k)
  PROVE  Whole(k)'
  <1> DEFINE s == Mine(k)
             n == dir[req[k].file]
             t == Text(req[k].file)
             i == call[k].sent + 1
             x == Message(s, i)
             d == SentUp(call[k], x)
             c == [d EXCEPT !.sent = i]
  <1>1. /\ ShapeInv /\ call[k] \in CallRecord /\ call[k].pc = "send" /\ req[k].op = "store"
        /\ Set(k, c) /\ UNCHANGED <<dir, data, local, req, crashes>>
        /\ i <= Len(s) /\ call[k].sent \in Nat /\ s \in Texts
    <2>1. Opens(req[k], call[k])
      BY DEF StoreChunk, At, Opens
    <2> QED
      BY <2>1, WholeFacts, CallFacts DEF StoreChunk, At, Opened
  <1>2. i \in Nat /\ x \in Messages
    BY <1>1, MessagesSent DEF Texts
  <1>3. /\ d \in CallRecord /\ SameEnds(call[k], d) /\ SameTransfer(call[k], d)
        /\ d.up = IF Broken(call[k]) THEN call[k].up ELSE Append(call[k].up, x)
    BY <1>1, <1>2, SentUpFields
  <1> HIDE DEF d, x, i
  <1>4. /\ c \in CallRecord /\ c.pc = d.pc /\ c.up = d.up /\ c.spc = d.spc
        /\ c.taken = d.taken /\ c.kept = d.kept /\ c.sent = i /\ c.cancelled = d.cancelled
    <2>1. c \in CallRecord
      BY <1>2, <1>3 DEF CallRecord
    <2>2. c.pc = d.pc /\ c.up = d.up /\ c.spc = d.spc /\ c.taken = d.taken
      BY <1>2, <1>3 DEF CallRecord
    <2>3. c.kept = d.kept /\ c.sent = i /\ c.cancelled = d.cancelled
      BY <1>2, <1>3 DEF CallRecord
    <2> HIDE DEF c
    <2> QED
      BY <2>1, <2>2, <2>3
  <1>5. /\ c.half = d.half /\ c.alone = d.alone /\ c.fd = d.fd /\ c.bad = d.bad
        /\ c.lost = d.lost /\ c.reply = d.reply
    BY <1>3 DEF CallRecord
  <1> HIDE DEF c
  <1>6. ASSUME Waits(c) PROVE StoreOk(c, s, n, t)
    <2>1. /\ StoreOk(call[k], s, n, t) /\ (Reads(call[k]) => UpOk(call[k], s) /\ ~Broken(call[k]))
          /\ call[k].up \in Seq(Messages) /\ call[k].taken \in Nat /\ Len(s) \in Nat
      BY <1>1, <1>3, <1>4, <1>6, StoreFacts DEF Waits, SameEnds
    <2> HIDE DEF s, n, t
    <2>2. ASSUME Reads(c) PROVE Under(c.up, UpOffset(c), c.taken, c.sent, s)
      <3>1. ~Broken(call[k]) /\ UpOffset(c) = UpOffset(call[k]) /\ UpOffset(c) \in {0, 1}
        BY <1>3, <1>4, <2>1, <2>2 DEF Reads, SameEnds, UpOffset
      <3>2. Under(call[k].up, UpOffset(c), call[k].taken, call[k].sent, s)
        BY <1>1, <1>3, <1>4, <2>1, <2>2, <3>1 DEF StoreOk, Reads, SameEnds
      <3>3. call[k].sent + 1 <= Len(s) /\ x = Message(s, call[k].sent + 1)
        BY <1>1 DEF i, x
      <3>4. Under(Append(call[k].up, x), UpOffset(c), call[k].taken, call[k].sent + 1, s)
        BY <1>1, <2>1, <3>1, <3>2, <3>3, UnderAppend
      <3> QED
        BY <1>3, <1>4, <3>1, <3>4 DEF SameTransfer, i
    <2>3. ~c.half
      <3>1. ~call[k].half
        BY <1>1, <2>1 DEF StoreOk, i
      <3> QED
        BY <1>3, <1>5, <3>1 DEF SameEnds
    <2>4. c.alone /\ ~c.lost => /\ c.spc = "stat" => t = s
                                /\ c.reply = "OK" => n # None /\ t = s
      BY <1>3, <1>4, <1>5, <2>1 DEF StoreOk, SameEnds, SameTransfer
    <2>5. c.alone /\ c.spc = "write" => n = c.fd /\ (c.bad \/ Received(t, c, s))
      BY <1>3, <1>4, <1>5, <2>1 DEF StoreOk, SameEnds, SameTransfer, Received
    <2> QED
      BY <2>1, <2>2, <2>3, <2>4, <2>5 DEF StoreOk
  <1>7. WholeOk(req[k], c, s, n, t)
    BY <1>1, <1>6 DEF WholeOk
  <1> QED
    BY <1>1, <1>4, <1>7, SetWhole

LEMMA StoreDoneWhole ==
  ASSUME WholeInv, NEW k \in Calls, StoreDone(k)
  PROVE  Whole(k)'
  <1> DEFINE s == Mine(k)
             n == dir[req[k].file]
             t == Text(req[k].file)
             c == [call[k] EXCEPT !.half = TRUE, !.pc = "finish"]
  <1>1. /\ ShapeInv /\ call[k] \in CallRecord /\ call[k].pc = "send" /\ req[k].op = "store"
        /\ Set(k, c) /\ UNCHANGED <<dir, data, local, req, crashes>>
        /\ call[k].sent = Len(s)
    BY WholeFacts DEF StoreDone, At
  <1>2. /\ c \in CallRecord /\ c.pc = "finish" /\ c.up = call[k].up /\ c.spc = call[k].spc
        /\ c.taken = call[k].taken /\ c.kept = call[k].kept /\ c.sent = call[k].sent
        /\ c.cancelled = call[k].cancelled
    <2>1. c \in CallRecord
      BY <1>1 DEF CallRecord, Pcs
    <2>2. c.pc = "finish" /\ c.up = call[k].up /\ c.spc = call[k].spc /\ c.taken = call[k].taken
      BY <1>1 DEF CallRecord, Pcs
    <2>3. c.kept = call[k].kept /\ c.sent = call[k].sent /\ c.cancelled = call[k].cancelled
      BY <1>1 DEF CallRecord, Pcs
    <2> HIDE DEF c
    <2> QED
      BY <2>1, <2>2, <2>3
  <1>3. /\ c.alone = call[k].alone /\ c.fd = call[k].fd /\ c.bad = call[k].bad
        /\ c.lost = call[k].lost /\ c.reply = call[k].reply
    BY <1>1 DEF CallRecord
  <1> HIDE DEF c
  <1>4. ASSUME Waits(c) PROVE StoreOk(c, s, n, t)
    <2>1. StoreOk(call[k], s, n, t)
      BY <1>1, <1>2, <1>4, StoreFacts DEF Waits
    <2> HIDE DEF s, n, t
    <2>2. Reads(c) => Under(c.up, UpOffset(c), c.taken, c.sent, s)
      BY <1>1, <1>2, <2>1 DEF StoreOk, Reads, UpOffset
    <2>3. c.alone /\ ~c.lost => /\ c.spc = "stat" => t = s
                                /\ c.reply = "OK" => n # None /\ t = s
      BY <1>2, <1>3, <2>1 DEF StoreOk
    <2>4. c.alone /\ c.spc = "write" => n = c.fd /\ (c.bad \/ Received(t, c, s))
      BY <1>2, <1>3, <2>1 DEF StoreOk, Received
    <2> QED
      BY <1>1, <1>2, <2>1, <2>2, <2>3, <2>4 DEF StoreOk
  <1>5. WholeOk(req[k], c, s, n, t)
    BY <1>1, <1>4 DEF WholeOk
  <1> QED
    BY <1>1, <1>2, <1>5, SetWhole

LEMMA BeginWhole ==
  ASSUME WholeInv, NEW k \in Calls, Begin(k)
  PROVE  Whole(k)'
  <1>1. /\ ShapeInv /\ call[k] \in CallRecord /\ call[k].spc = "start" /\ call[k].reply = None
        /\ UNCHANGED <<dir, data, local, req, crashes>>
        /\ WholeOk(req[k], call[k], Mine(k), dir[req[k].file], Text(req[k].file))
        /\ req[k] \in Request
    BY WholeFacts, CallFacts DEF Begin, SAt, Shape, HandlerShape
  <1>2. CASE call[k].cancelled
    BY <1>1, <1>2, ReplyWhole DEF Begin, Replies
  <1>3. CASE ~call[k].cancelled
    <2> DEFINE spc == CASE req[k].op = "store" -> "read_header"
                        [] req[k].op = "fetch" -> "fetch_stat"
                        [] req[k].op = "delete" -> "remove"
                        [] req[k].op = "list" -> "open_dir"
                        [] req[k].op = "stat" -> "stat_file"
               c == [call[k] EXCEPT !.spc = spc]
               s == Mine(k)
               n == dir[req[k].file]
               t == Text(req[k].file)
    <2>1. req[k].op \in AllCommands
      BY <1>1, Part1Assumption DEF Request
    <2>2. /\ spc \in ServerPcs
          /\ (req[k].op = "store" => spc = "read_header")
          /\ (req[k].op = "fetch" => spc = "fetch_stat")
      BY <2>1 DEF AllCommands, ServerPcs
    <2>3. Set(k, c)
      BY <1>3 DEF Begin
    <2> HIDE DEF spc
    <2>4. /\ c \in CallRecord /\ c.spc = spc /\ c.pc = call[k].pc /\ c.up = call[k].up
          /\ c.down = call[k].down /\ c.cancelled = call[k].cancelled /\ c.sent = call[k].sent
          /\ c.taken = call[k].taken
      <3>1. c \in CallRecord
        BY <1>1, <2>2 DEF CallRecord
      <3>2. c.spc = spc /\ c.pc = call[k].pc /\ c.up = call[k].up /\ c.down = call[k].down
        BY <1>1, <2>2 DEF CallRecord
      <3>3. c.cancelled = call[k].cancelled /\ c.sent = call[k].sent /\ c.taken = call[k].taken
        BY <1>1, <2>2 DEF CallRecord
      <3> HIDE DEF c
      <3> QED
        BY <3>1, <3>2, <3>3
    <2>10. c.half = call[k].half /\ c.reply = call[k].reply /\ c.alone = call[k].alone
      BY <1>1 DEF CallRecord
    <2> HIDE DEF c
    <2>5. c.reply # "OK"
      BY <1>1, <2>10, NoneIsNoReply
    <2> HIDE DEF c, s, n, t
    <2>6. WholeOk(req[k], call[k], s, n, t)
      BY <1>1 DEF s, n, t
    <2>7. ASSUME req[k].op = "store", Waits(c) PROVE StoreOk(c, s, n, t)
      <3>1. StoreOk(call[k], s, n, t)
        BY <2>4, <2>6, <2>7 DEF WholeOk, Waits
      <3>2. c.spc = "read_header"
        BY <2>2, <2>4, <2>7
      <3> QED
        BY <1>1, <2>4, <2>5, <2>10, <3>1, <3>2 DEF StoreOk, Reads, UpOffset
    <2>8. ASSUME req[k].op = "fetch", Waits(c), c.alone PROVE FetchOk(c, s, n, t)
      <3>1. FetchOk(call[k], s, n, t)
        BY <2>4, <2>6, <2>8, <2>10 DEF WholeOk, Waits
      <3>2. c.spc = "fetch_stat"
        BY <2>2, <2>4, <2>8
      <3> QED
        BY <1>1, <2>4, <2>5, <2>10, <3>1, <3>2 DEF FetchOk, Sending
    <2>9. WholeOk(req[k], c, s, n, t)
      BY <2>7, <2>8 DEF WholeOk
    <2> QED
      BY <1>1, <2>3, <2>4, <2>9, SetWhole DEF s, n, t
  <1> QED
    BY <1>2, <1>3

LEMMA ReadHeaderWhole ==
  ASSUME WholeInv, NEW k \in Calls, ReadHeader(k)
  PROVE  Whole(k)'
  <1>1. /\ ShapeInv /\ call[k] \in CallRecord /\ call[k].spc = "read_header"
        /\ req[k].op = "store" /\ UNCHANGED <<dir, data, local, req, crashes>>
    BY WholeFacts DEF ReadHeader, SAt, Shape, HandlerShape
  <1>2. CASE Set(k, Replied(call[k], "NOT_FOUND"))
    BY <1>1, <1>2, ReplyWhole DEF Replies
  <1>3. CASE call[k].up # <<>> /\ Set(k, [call[k] EXCEPT !.up = Tail(@), !.spc = "open"])
    <2> DEFINE up == Tail(call[k].up)
               c == [call[k] EXCEPT !.up = up, !.spc = "open"]
               s == Mine(k)
               n == dir[req[k].file]
               t == Text(req[k].file)
    <2>1. call[k].up \in Seq(Messages)
      BY <1>1 DEF CallRecord
    <2>2. up \in Seq(Messages)
      BY <1>3, <2>1, HeadTaken
    <2>3. Set(k, c)
      BY <1>3
    <2> HIDE DEF up
    <2>4. /\ c \in CallRecord /\ c.spc = "open" /\ c.pc = call[k].pc /\ c.up = up
          /\ c.cancelled = call[k].cancelled /\ c.sent = call[k].sent
          /\ c.taken = call[k].taken /\ c.half = call[k].half /\ c.reply = call[k].reply
          /\ c.alone = call[k].alone /\ c.lost = call[k].lost
      <3>1. c \in CallRecord
        BY <1>1, <2>2 DEF CallRecord, ServerPcs
      <3>2. c.spc = "open" /\ c.pc = call[k].pc /\ c.up = up /\ c.cancelled = call[k].cancelled /\ c.sent = call[k].sent
        BY <1>1, <2>2 DEF CallRecord, ServerPcs
      <3>3. c.taken = call[k].taken /\ c.half = call[k].half /\ c.reply = call[k].reply /\ c.alone = call[k].alone /\ c.lost = call[k].lost
        BY <1>1, <2>2 DEF CallRecord, ServerPcs
      <3> HIDE DEF c
      <3> QED
        BY <3>1, <3>2, <3>3
    <2> HIDE DEF c
    <2>5. ASSUME Waits(c) PROVE StoreOk(c, s, n, t)
      <3>1. /\ StoreOk(call[k], s, n, t) /\ UpOk(call[k], s)
            /\ call[k].sent \in Nat /\ call[k].taken \in Nat /\ s \in Texts
        BY <1>1, <2>4, <2>5, StoreFacts DEF Waits, Reads
      <3> HIDE DEF s, n, t
      <3>2. Under(call[k].up, 1, call[k].taken, call[k].sent, s)
        BY <1>1, <1>3, <3>1 DEF UpOk, StoreOk, Reads, UpOffset
      <3>3. Under(up, 0, call[k].taken, call[k].sent, s)
        BY <1>3, <2>1, <3>1, <3>2, UnderTail DEF up
      <3> QED
        BY <2>4, <3>1, <3>3 DEF StoreOk, Reads, UpOffset
    <2>6. WholeOk(req[k], c, s, n, t)
      BY <1>1, <2>5 DEF WholeOk
    <2> QED
      BY <1>1, <2>3, <2>4, <2>6, SetWhole
  <1> QED
    BY <1>2, <1>3 DEF ReadHeader

LEMMA OpenFailsWhole ==
  ASSUME WholeInv, NEW k \in Calls, OpenFails(k)
  PROVE  Whole(k)'
  BY ReplyWhole DEF OpenFails, Replies

LEMMA OpenForWriteWhole ==
  ASSUME WholeInv, NEW k \in Calls, OpenForWrite(k)
  PROVE  Whole(k)'
  <1>0. PICK f \in Files : f = req[k].file
    BY WholeFacts, CallFacts DEF OpenForWrite, SAt
  <1> DEFINE n == IF dir[f] = None THEN k ELSE dir[f]
             c == [call[k] EXCEPT !.spc = "write", !.fd = n]
             s == Mine(k)
  <1>1. /\ Typed /\ call[k] \in CallRecord /\ call[k].spc = "open"
        /\ req[k].op = "store"
        /\ dir' = [dir EXCEPT ![f] = n] /\ data' = [data EXCEPT ![n] = <<>>]
        /\ call' = [Witnessed(k, f, TRUE) EXCEPT ![k].spc = "write", ![k].fd = n]
        /\ UNCHANGED <<local, req, crashes>>
    BY <1>0, WholeFacts DEF OpenForWrite, SAt, Shape, HandlerShape, ShapeInv
  <1>2. n \in Inodes /\ n # None
    BY <1>1, Part1Assumption DEF Typed, Inodes
  <1>3. Witnessed(k, f, TRUE)[k] = call[k]
    BY <1>1 DEF Listing, Witnessed
  <1> HIDE DEF n
  <1>4. call'[k] = c
    BY <1>1, <1>3 DEF Witnessed
  <1>5. /\ c \in CallRecord /\ c.spc = "write" /\ c.fd = n /\ c.pc = call[k].pc
        /\ c.up = call[k].up /\ c.cancelled = call[k].cancelled /\ c.sent = call[k].sent
        /\ c.taken = call[k].taken /\ c.kept = call[k].kept /\ c.half = call[k].half
        /\ c.reply = call[k].reply
    <2>1. c \in CallRecord
      BY <1>1, <1>2 DEF CallRecord, ServerPcs
    <2>2. c.spc = "write" /\ c.fd = n /\ c.pc = call[k].pc /\ c.up = call[k].up /\ c.cancelled = call[k].cancelled
      BY <1>1, <1>2 DEF CallRecord, ServerPcs
    <2>3. c.sent = call[k].sent /\ c.taken = call[k].taken /\ c.kept = call[k].kept /\ c.half = call[k].half /\ c.reply = call[k].reply
      BY <1>1, <1>2 DEF CallRecord, ServerPcs
    <2> HIDE DEF c
    <2> QED
      BY <2>1, <2>2, <2>3
  <1> HIDE DEF c
  <1>6. Settled(c) = c
    BY <1>5 DEF Settled
  <1>7. dir'[f] = n /\ Text(f)' = <<>>
    <2>1. dir'[f] = n /\ data'[n] = <<>>
      BY <1>1, <1>2 DEF Typed
    <2> QED
      BY <1>2, <2>1 DEF Text
  <1>8. ASSUME Waits(c) PROVE StoreOk(c, s, n, <<>>)
    <2>1. /\ StoreOk(call[k], s, dir[f], Text(f)) /\ UpOk(call[k], s) /\ ~Broken(call[k])
          /\ s \in Texts /\ Len(s) \in Nat
      BY <1>0, <1>1, <1>5, <1>8, StoreFacts DEF Waits, Reads
    <2> HIDE DEF s
    <2>2. c.taken = 0 /\ c.kept = None /\ c.pc # "header" /\ c.reply = None
      BY <1>1, <1>5, <2>1 DEF UpOk, Broken
    <2>3. Under(c.up, UpOffset(c), c.taken, c.sent, s)
      BY <1>1, <1>5, <2>1, <2>2 DEF StoreOk, Reads, UpOffset
    <2>4. Received(<<>>, c, s)
      <3>1. Len(<<>>) = 0
        OBVIOUS
      <3> QED
        BY <2>1, <2>2, <3>1 DEF Received
    <2>5. c.half => c.sent = Len(s)
      BY <1>5, <2>1 DEF StoreOk
    <2> QED
      BY <1>5, <2>1, <2>2, <2>3, <2>4, <2>5, NoneIsNoReply DEF StoreOk
  <1>9. WholeOk(req'[k], c, s, n, <<>>)
    BY <1>1, <1>8 DEF WholeOk
  <1>10. Mine(k)' = s /\ f = req'[k].file /\ call'[k] = Settled(c)
    BY <1>0, <1>1, <1>4, <1>6 DEF Mine
  <1> HIDE DEF s
  <1> QED
    BY <1>5, <1>7, <1>9, <1>10, OwnWhole

LEMMA WriteChunkWhole ==
  ASSUME WholeInv, NEW k \in Calls, WriteChunk(k)
  PROVE  Whole(k)'
  <1>0. PICK f \in Files : f = req[k].file
    BY WholeFacts, CallFacts DEF WriteChunk, SAt
  <1> DEFINE x == Head(call[k].up)
             up == Tail(call[k].up)
             d == Taken(call[k], x)
             m == call[k].fd
             s == Mine(k)
             t == Text(f)
  <1>1. /\ Typed /\ ShapeInv /\ call[k] \in CallRecord /\ call[k].spc = "write"
        /\ req[k].op = "store" /\ call[k].up \in Seq(Messages) /\ call[k].up # <<>>
        /\ m \in Inodes /\ UNCHANGED <<dir, local, req, crashes>>
        /\ t \in Texts
    BY <1>0, WholeFacts, CallFacts DEF WriteChunk, SAt, Shape, HandlerShape, ShapeInv
  <1>2. x \in Messages /\ up \in Seq(Messages)
    BY <1>1, HeadTaken
  <1>3. /\ d \in CallRecord /\ SameEnds(call[k], d) /\ d.up = call[k].up
        /\ d.taken = call[k].taken + 1 /\ d.sent = call[k].sent /\ d.bad = call[k].bad
        /\ d.fd = m /\ d.alone = call[k].alone /\ d.lost = call[k].lost
    BY <1>1, <1>2, TakenFields
  <1>4. PICK bad \in BOOLEAN :
          LET c == [d EXCEPT !.up = up, !.bad = bad] IN
          /\ call'[k] = Settled(c)
          /\ \/ bad = d.bad /\ data' = [data EXCEPT ![m] = Written(call[k], x, @)]
             \/ bad /\ UNCHANGED data
    <2>1. d.bad \in BOOLEAN
      BY <1>3 DEF CallRecord
    <2>2. [d EXCEPT !.up = up, !.bad = d.bad] = [d EXCEPT !.up = up]
      BY <1>3 DEF CallRecord
    <2>3. CASE /\ data' = [data EXCEPT ![m] = Written(call[k], x, @)]
               /\ call' = [Witnessed(k, req[k].file, dir[req[k].file] # None) EXCEPT
                              ![k] = [d EXCEPT !.up = Tail(@)]]
      <3> DEFINE c == [d EXCEPT !.up = up]
      <3>1. call'[k] = c
        BY <1>3, <2>3 DEF Witnessed
      <3>2. c.spc = "write"
        BY <1>1, <1>3 DEF CallRecord, SameEnds
      <3> HIDE DEF c
      <3>3. Settled(c) = c
        BY <3>2 DEF Settled
      <3>4. call'[k] = Settled([d EXCEPT !.up = up, !.bad = d.bad])
        BY <2>2, <3>1, <3>3 DEF c
      <3> QED
        BY <2>1, <2>3, <3>4
    <2>4. CASE Set(k, [[d EXCEPT !.up = Tail(@)] EXCEPT !.bad = TRUE]) /\ UNCHANGED data
      <3> DEFINE c == [d EXCEPT !.up = up, !.bad = TRUE]
      <3>1. Set(k, c)
        BY <1>3, <2>4
      <3> HIDE DEF c
      <3>2. call'[k] = Settled(c)
        BY <1>1, <3>1, SetOthers
      <3> QED
        BY <2>4, <3>2 DEF c
    <2> QED
      BY <2>3, <2>4 DEF WriteChunk
  <1> DEFINE c == [d EXCEPT !.up = up, !.bad = bad]
  <1> HIDE DEF x, d, up
  <1>5. /\ c \in CallRecord /\ c.up = up /\ c.pc = d.pc /\ c.spc = d.spc /\ c.sent = d.sent
        /\ c.taken = d.taken /\ c.kept = d.kept /\ c.cancelled = d.cancelled
        /\ c.fd = d.fd /\ c.reply = d.reply
    <2>1. c \in CallRecord
      BY <1>2, <1>3 DEF CallRecord
    <2>2. c.up = up /\ c.pc = d.pc /\ c.spc = d.spc /\ c.sent = d.sent /\ c.taken = d.taken
      BY <1>2, <1>3 DEF CallRecord
    <2>3. c.kept = d.kept /\ c.cancelled = d.cancelled /\ c.fd = d.fd /\ c.reply = d.reply
      BY <1>2, <1>3 DEF CallRecord
    <2> HIDE DEF c
    <2> QED
      BY <2>1, <2>2, <2>3
  <1>6. c.bad = bad /\ c.half = d.half /\ c.alone = d.alone
    BY <1>3 DEF CallRecord
  <1>7. /\ call'[k] = Settled(c)
        /\ \/ bad = d.bad /\ data' = [data EXCEPT ![m] = Written(call[k], x, @)]
           \/ bad /\ UNCHANGED data
    BY <1>4
  <1> HIDE DEF c
  <1>8. PICK u : u = Text(f)'
    OBVIOUS
  <1>9. ASSUME Waits(c) PROVE StoreOk(c, s, dir[f], u)
    <2>1. /\ StoreOk(call[k], s, dir[f], t) /\ UpOk(call[k], s) /\ ~Broken(call[k])
          /\ s \in Texts /\ FilePlaced(s)
          /\ call[k].sent \in Nat /\ call[k].taken \in Nat
      BY <1>0, <1>1, <1>3, <1>5, <1>9, StoreFacts DEF Waits, Reads, SameEnds
    <2> HIDE DEF s, t
    <2>2. /\ c.pc = call[k].pc /\ c.spc = "write" /\ c.pc # "header" /\ c.reply = None
          /\ c.half = call[k].half /\ c.sent = call[k].sent
      BY <1>1, <1>3, <1>5, <1>6, <2>1 DEF UpOk, Broken, SameEnds
    <2>3. Under(call[k].up, 0, call[k].taken, call[k].sent, s)
      BY <1>1, <2>1, <2>2 DEF StoreOk, Reads, UpOffset
    <2>4. /\ call[k].taken + 1 <= Len(s) /\ x = Message(s, call[k].taken + 1)
          /\ Under(up, 0, call[k].taken + 1, call[k].sent, s)
      BY <1>1, <2>1, <2>3, UnderTail DEF x, up
    <2>5. Under(c.up, UpOffset(c), c.taken, c.sent, s)
      BY <1>3, <1>5, <2>2, <2>4 DEF UpOffset
    <2>6. ASSUME c.alone PROVE dir[f] = c.fd /\ (c.bad \/ Received(u, c, s))
      <3>1. dir[f] = m /\ (call[k].bad \/ Received(t, call[k], s))
        BY <1>1, <1>3, <1>6, <2>1, <2>6 DEF StoreOk
      <3>2. CASE bad
        BY <1>3, <1>5, <1>6, <3>1, <3>2
      <3>3. CASE ~bad
        <4>1. ~call[k].bad /\ data' = [data EXCEPT ![m] = Written(call[k], x, data[m])]
          BY <1>3, <1>7, <3>3
        <4>2. m # None
          BY <1>1, Part1Assumption DEF Inodes
        <4>3. t = data[m] /\ u = data'[m]
          BY <1>1, <1>8, <3>1, <4>2 DEF Text, t
        <4>4. u = Written(call[k], x, t)
          BY <1>1, <4>1, <4>3 DEF Typed
        <4>5. Received(Written(call[k], x, t), Taken(call[k], x), s)
          BY <1>1, <2>1, <2>4, <3>1, <4>1, ReceivedChunk
        <4>6. Received(u, d, s)
          BY <4>4, <4>5 DEF d
        <4>7. Received(u, c, s)
          BY <1>5, <4>6 DEF Received
        <4> QED
          BY <1>3, <1>5, <3>1, <4>7
      <3> QED
        BY <3>2, <3>3
    <2>7. c.half => c.sent = Len(s)
      BY <2>1, <2>2 DEF StoreOk
    <2>8. c.reply # "OK"
      BY <2>2, NoneIsNoReply
    <2> QED
      BY <2>1, <2>2, <2>5, <2>6, <2>7, <2>8 DEF StoreOk
  <1>10. WholeOk(req'[k], c, s, dir[f], u)
    BY <1>1, <1>9 DEF WholeOk
  <1>11. Mine(k)' = s /\ f = req'[k].file /\ dir'[f] = dir[f]
    BY <1>0, <1>1 DEF Mine
  <1> HIDE DEF s
  <1> QED
    BY <1>5, <1>7, <1>8, <1>10, <1>11, OwnWhole

LEMMA EndOfStreamWhole ==
  ASSUME WholeInv, NEW k \in Calls, EndOfStream(k)
  PROVE  Whole(k)'
  <1>0. PICK f \in Files : f = req[k].file
    BY WholeFacts, CallFacts DEF EndOfStream, SAt
  <1> DEFINE m == call[k].fd
             s == Mine(k)
             t == Text(f)
             e == [call[k] EXCEPT !.spc = "stat", !.lost = TRUE]
             w == Witnessed(k, req[k].file, dir[req[k].file] # None)
             c == [call[k] EXCEPT !.spc = "stat"]
  <1>1. /\ Typed /\ ShapeInv /\ call[k] \in CallRecord /\ call[k].spc = "write"
        /\ req[k].op = "store" /\ UpEnded(call[k])
        /\ m \in Inodes /\ UNCHANGED <<dir, local, req, crashes>>
        /\ t \in Texts
    BY <1>0, WholeFacts, CallFacts DEF EndOfStream, SAt, Shape, HandlerShape, ShapeInv
  <1>2. ASSUME Waits(call[k])
        PROVE  /\ s \in Texts /\ call[k].reply = None /\ call[k].sent = Len(s)
               /\ call[k].taken = Len(s)
               /\ call[k].alone => dir[f] = m /\ (call[k].bad \/ Received(t, call[k], s))
    <2>1. /\ StoreOk(call[k], s, dir[f], t) /\ UpOk(call[k], s) /\ ~Broken(call[k])
          /\ s \in Texts /\ call[k].sent \in Nat /\ call[k].taken \in Nat
      BY <1>0, <1>1, <1>2, StoreFacts DEF Reads
    <2> HIDE DEF s, t
    <2>2. call[k].half /\ call[k].up = <<>> /\ call[k].pc # "header" /\ call[k].reply = None
      BY <1>1, <2>1 DEF UpEnded, Broken, UpOk
    <2>3. Under(<<>>, 0, call[k].taken, call[k].sent, s)
      BY <1>1, <2>1, <2>2 DEF StoreOk, Reads, UpOffset
    <2>4. call[k].taken = call[k].sent
      BY <2>1, <2>3, UnderEnds
    <2>5. call[k].sent = Len(s)
      BY <2>1, <2>2 DEF StoreOk
    <2>6. call[k].alone => dir[f] = m /\ (call[k].bad \/ Received(t, call[k], s))
      BY <1>1, <2>1 DEF StoreOk
    <2> QED
      BY <2>1, <2>2, <2>4, <2>5, <2>6
  <1>3. CASE Set(k, Replied(call[k], "NOT_FOUND")) /\ UNCHANGED data
    BY <1>1, <1>3, ReplyWhole DEF Replies
  <1>4. CASE /\ ~call[k].bad /\ data' = [data EXCEPT ![m] = Flushed(call[k], @)]
             /\ call' = [w EXCEPT ![k].spc = "stat"]
    <2>1. w[k] = call[k] /\ k \in DOMAIN w
      BY <1>1 DEF Listing, Witnessed
    <2> HIDE DEF w
    <2>2. call'[k] = c
      BY <1>4, <2>1
    <2>3. /\ c \in CallRecord /\ c.spc = "stat" /\ c.pc = call[k].pc /\ c.sent = call[k].sent
          /\ c.cancelled = call[k].cancelled /\ c.reply = call[k].reply
      <3>1. c \in CallRecord
        BY <1>1 DEF CallRecord, ServerPcs
      <3>2. c.spc = "stat" /\ c.pc = call[k].pc /\ c.sent = call[k].sent
        BY <1>1 DEF CallRecord, ServerPcs
      <3>3. c.cancelled = call[k].cancelled /\ c.reply = call[k].reply
        BY <1>1 DEF CallRecord, ServerPcs
      <3> HIDE DEF c
      <3> QED
        BY <3>1, <3>2, <3>3
    <2>4. c.alone = call[k].alone
      BY <1>1 DEF CallRecord
    <2> HIDE DEF c
    <2>5. Settled(c) = c
      BY <2>3 DEF Settled
    <2>6. PICK u : u = Text(f)'
      OBVIOUS
    <2>7. ASSUME Waits(c) PROVE StoreOk(c, s, dir[f], u)
      <3>1. /\ s \in Texts /\ c.reply = None /\ c.sent = Len(s) /\ call[k].taken = Len(s)
            /\ call[k].alone => dir[f] = m /\ Received(t, call[k], s)
        BY <1>2, <1>4, <2>3, <2>7 DEF Waits
      <3>2. ASSUME c.alone PROVE u = s
        <4>1. dir[f] = m /\ Received(t, call[k], s)
          BY <2>4, <3>1, <3>2
        <4>2. m # None
          BY <1>1, Part1Assumption DEF Inodes
        <4>3. t = data[m] /\ u = data'[m]
          BY <1>1, <2>6, <4>1, <4>2 DEF Text
        <4> HIDE DEF s, t
        <4>4. u = Flushed(call[k], t)
          BY <1>1, <1>4, <4>3 DEF Typed
        <4> QED
          BY <1>1, <3>1, <4>1, <4>4, ReceivedAll
      <3>3. c.reply # "OK" /\ ~Reads(c)
        BY <2>3, <3>1, NoneIsNoReply DEF Reads
      <3> QED
        BY <2>3, <3>1, <3>2, <3>3 DEF StoreOk
    <2>8. WholeOk(req'[k], c, s, dir[f], u)
      BY <1>1, <2>7 DEF WholeOk
    <2>9. Mine(k)' = s /\ f = req'[k].file /\ dir'[f] = dir[f] /\ call'[k] = Settled(c)
      BY <1>0, <1>1, <2>2, <2>5 DEF Mine
    <2> HIDE DEF s
    <2> QED
      BY <2>3, <2>6, <2>8, <2>9, OwnWhole
  <1>5. CASE Set(k, e) /\ UNCHANGED data
    <2>1. /\ e \in CallRecord /\ e.spc = "stat" /\ e.pc = call[k].pc /\ e.sent = call[k].sent
          /\ e.cancelled = call[k].cancelled /\ e.reply = call[k].reply
      BY <1>1 DEF CallRecord, ServerPcs
    <2>2. e.lost
      BY <1>1 DEF CallRecord
    <2> HIDE DEF e
    <2>3. ASSUME Waits(e) PROVE StoreOk(e, s, dir[f], t)
      <3>1. s \in Texts /\ e.sent = Len(s)
        BY <1>2, <2>1, <2>3 DEF Waits
      <3> QED
        BY <2>1, <2>2, <3>1 DEF StoreOk, Reads
    <2>4. WholeOk(req[k], e, s, dir[f], t)
      BY <1>1, <2>3 DEF WholeOk
    <2> QED
      BY <1>0, <1>1, <1>5, <2>1, <2>4, SetWhole
  <1> QED
    BY <1>3, <1>4, <1>5 DEF EndOfStream

(* The handler answers OK.                                                 *)
LEMMA AnswerWhole ==
  ASSUME WholeInv, NEW k \in Calls, Set(k, Replied(call[k], "OK")),
         UNCHANGED <<dir, data, local, req>>,
         WholeOk(req[k], Replied(call[k], "OK"), Mine(k), dir[req[k].file], Text(req[k].file))
  PROVE  Whole(k)'
  <1> DEFINE c == Replied(call[k], "OK")
  <1>1. ShapeInv /\ c \in CallRecord /\ Set(k, c)
    BY WholeFacts, RepliedFields DEF Replies
  <1>2. WholeOk(req[k], c, Mine(k), dir[req[k].file], Text(req[k].file))
    OBVIOUS
  <1> HIDE DEF c
  <1> QED
    BY <1>1, <1>2, SetWhole

LEMMA StatAfterWriteWhole ==
  ASSUME WholeInv, NEW k \in Calls, StatAfterWrite(k)
  PROVE  Whole(k)'
  <1> DEFINE s == Mine(k)
             n == dir[req[k].file]
             t == Text(req[k].file)
             c == Replied(call[k], "OK")
  <1>1. /\ ShapeInv /\ call[k] \in CallRecord /\ call[k].spc = "stat" /\ req[k].op = "store"
        /\ UNCHANGED <<dir, data, local, req, crashes>>
    BY WholeFacts DEF StatAfterWrite, SAt, Shape, HandlerShape
  <1>2. CASE n = None
    BY <1>1, <1>2, ReplyWhole DEF StatAfterWrite, Replies
  <1>3. CASE n # None
    <2>1. Set(k, c)
      BY <1>3 DEF StatAfterWrite
    <2>2. /\ c.spc = "done" /\ c.pc = call[k].pc /\ c.cancelled = call[k].cancelled
          /\ c.half = call[k].half /\ c.sent = call[k].sent /\ c.alone = call[k].alone
          /\ c.lost = call[k].lost
      BY <1>1, RepliedFields DEF Replies, SameTransfer
    <2>3. ASSUME Waits(c) PROVE StoreOk(c, s, n, t)
      <3> HIDE DEF c
      <3>1. StoreOk(call[k], s, n, t)
        BY <1>1, <2>2, <2>3, StoreFacts DEF Waits
      <3> HIDE DEF s, n, t
      <3> QED
        BY <1>1, <1>3, <2>2, <3>1 DEF StoreOk, Reads
    <2>4. WholeOk(req[k], c, s, n, t)
      <3> HIDE DEF c
      <3> QED
        BY <1>1, <2>3 DEF WholeOk
    <2> QED
      BY <1>1, <2>1, <2>4, AnswerWhole
  <1> QED
    BY <1>2, <1>3

----------------------------------------------------------------------------
(* The steps of a fetch.                                                   *)

LEMMA FetchFacts ==
  ASSUME WholeInv, NEW k \in Calls, req[k].op = "fetch", Waits(call[k])
  PROVE  /\ call[k].alone => FetchOk(call[k], Mine(k), dir[req[k].file], Text(req[k].file))
         /\ Receives(call[k]) => DownOk(call[k])
         /\ call[k].down \in Seq(Messages) /\ call[k].sent \in Nat /\ call[k].taken \in Nat
         /\ call[k].pc \in {"first", "receive"} => Mine(k) \in Texts
         /\ Text(req[k].file) \in Texts /\ FilePlaced(Text(req[k].file))
         /\ Len(Text(req[k].file)) \in Nat
         /\ call[k].spc # "done" => call[k].reply # "OK"
  <1>1. /\ call[k] \in CallRecord /\ Shape(req[k], call[k])
        /\ StreamOk(req[k], call[k], Mine(k))
        /\ WholeOk(req[k], call[k], Mine(k), dir[req[k].file], Text(req[k].file))
        /\ Text(req[k].file) \in Texts /\ FilePlaced(Text(req[k].file))
    BY WholeFacts DEF Waits
  <1>2. call[k].pc \in {"first", "receive"} => Mine(k) \in Texts
    BY CallFacts, WholeFacts DEF Opened, Opens
  <1>3. call[k].spc # "done" => call[k].reply # "OK"
    BY <1>1, NoneIsNoReply DEF Shape, HandlerShape
  <1>4. call[k].down \in Seq(Messages)
    BY <1>1 DEF Shape, StreamShape, Waits
  <1> QED
    BY <1>1, <1>2, <1>3, <1>4 DEF StreamOk, WholeOk, CallRecord, Texts

LEMMA FetchStatWhole ==
  ASSUME WholeInv, NEW k \in Calls, FetchStat(k)
  PROVE  Whole(k)'
  <1> DEFINE s == Mine(k)
             n == dir[req[k].file]
             t == Text(req[k].file)
             d == SentDown(call[k], Header)
             c == [d EXCEPT !.spc = "open_read"]
  <1>1. /\ ShapeInv /\ call[k] \in CallRecord /\ call[k].spc = "fetch_stat"
        /\ req[k].op = "fetch" /\ UNCHANGED <<dir, data, local, req, crashes>>
    BY WholeFacts DEF FetchStat, SAt, Shape, HandlerShape
  <1>2. CASE n = None
    BY <1>1, <1>2, ReplyWhole DEF FetchStat, Replies
  <1>3. CASE n # None
    <2>1. Set(k, c)
      BY <1>3 DEF FetchStat
    <2>2. /\ d \in CallRecord /\ SameEnds(call[k], d) /\ SameTransfer(call[k], d)
          /\ d.down = IF call[k].cancelled THEN call[k].down ELSE Append(call[k].down, Header)
      BY <1>1, MessagesSent, SentDownFields
    <2> HIDE DEF d
    <2>3. /\ c \in CallRecord /\ c.spc = "open_read" /\ c.pc = d.pc /\ c.down = d.down
          /\ c.sent = d.sent /\ c.taken = d.taken /\ c.cancelled = d.cancelled
      <3>1. c \in CallRecord
        BY <2>2 DEF CallRecord, ServerPcs
      <3>2. c.spc = "open_read" /\ c.pc = d.pc /\ c.down = d.down
        BY <2>2 DEF CallRecord, ServerPcs
      <3>3. c.sent = d.sent /\ c.taken = d.taken /\ c.cancelled = d.cancelled
        BY <2>2 DEF CallRecord, ServerPcs
      <3> HIDE DEF c
      <3> QED
        BY <3>1, <3>2, <3>3
    <2>4. c.alone = d.alone
      BY <2>2 DEF CallRecord
    <2> HIDE DEF c
    <2>5. ASSUME Waits(c), c.alone PROVE FetchOk(c, s, n, t)
      <3>1. /\ FetchOk(call[k], s, n, t) /\ (Receives(call[k]) => DownOk(call[k]))
            /\ t \in Texts /\ ~call[k].cancelled /\ c.pc = call[k].pc
        BY <1>1, <2>2, <2>3, <2>4, <2>5, FetchFacts DEF Waits, SameEnds, SameTransfer
      <3> HIDE DEF s, n, t
      <3>2. c.pc \notin {"receive", "finish"}
        BY <1>1, <3>1 DEF FetchOk, DownOk, Receives
      <3>3. ASSUME Receives(c) PROVE Under(c.down, DownOffset(c), c.taken, c.sent, t)
        <4>1. call[k].down = <<>> /\ call[k].sent = 0 /\ call[k].taken = 0
          BY <1>1, <3>1, <3>3 DEF DownOk, Receives
        <4>2. c.down = <<Header>> /\ c.sent = 0 /\ c.taken = 0 /\ DownOffset(c) = 1
          BY <2>2, <2>3, <3>1, <3>2, <4>1 DEF SameTransfer, DownOffset
        <4> QED
          BY <3>1, <4>2, UnderEnds
      <3> QED
        BY <1>3, <2>3, <3>1, <3>2, <3>3 DEF FetchOk, n
    <2>6. WholeOk(req[k], c, s, n, t)
      BY <1>1, <2>5 DEF WholeOk
    <2> QED
      BY <1>1, <2>1, <2>3, <2>6, SetWhole
  <1> QED
    BY <1>2, <1>3

LEMMA OpenForReadWhole ==
  ASSUME WholeInv, NEW k \in Calls, OpenForRead(k)
  PROVE  Whole(k)'
  <1> DEFINE s == Mine(k)
             n == dir[req[k].file]
             t == Text(req[k].file)
             c == [call[k] EXCEPT !.spc = "read", !.fd = n]
  <1>1. /\ ShapeInv /\ call[k] \in CallRecord /\ call[k].spc = "open_read"
        /\ req[k].op = "fetch" /\ UNCHANGED <<dir, data, local, req, crashes>>
        /\ n \in Inodes \cup {None}
    BY WholeFacts, CallFacts DEF OpenForRead, SAt, Shape, HandlerShape
  <1>2. CASE n = None
    BY <1>1, <1>2, ReplyWhole DEF OpenForRead, Replies
  <1>3. CASE n # None
    <2>1. Set(k, c)
      BY <1>3 DEF OpenForRead
    <2> HIDE DEF n
    <2>2. /\ c \in CallRecord /\ c.spc = "read" /\ c.pc = call[k].pc /\ c.down = call[k].down
          /\ c.sent = call[k].sent /\ c.taken = call[k].taken /\ c.kept = call[k].kept
          /\ c.cancelled = call[k].cancelled /\ c.fd = n
      <3>1. c \in CallRecord
        BY <1>1 DEF CallRecord, ServerPcs
      <3>2. c.spc = "read" /\ c.pc = call[k].pc /\ c.down = call[k].down /\ c.sent = call[k].sent
        BY <1>1 DEF CallRecord, ServerPcs
      <3>3. c.taken = call[k].taken /\ c.kept = call[k].kept /\ c.cancelled = call[k].cancelled /\ c.fd = n
        BY <1>1 DEF CallRecord, ServerPcs
      <3> HIDE DEF c
      <3> QED
        BY <3>1, <3>2, <3>3
    <2>3. c.alone = call[k].alone /\ c.bad = call[k].bad /\ c.lost = call[k].lost
      BY <1>1 DEF CallRecord
    <2> HIDE DEF c
    <2>4. ASSUME Waits(c), c.alone PROVE FetchOk(c, s, n, t)
      <3>1. FetchOk(call[k], s, n, t)
        BY <1>1, <2>2, <2>3, <2>4, FetchFacts DEF Waits, n
      <3> HIDE DEF s, t
      <3>2. Sending(call[k])
        BY <1>1 DEF Sending
      <3>3. Receives(c) => Under(c.down, DownOffset(c), c.taken, c.sent, t)
        BY <2>2, <3>1, <3>2 DEF FetchOk, Receives, DownOffset
      <3>4. c.pc = "receive" => c.bad \/ Received(s, c, t)
        BY <2>2, <2>3, <3>1, <3>2 DEF FetchOk, Received
      <3>5. c.pc # "finish"
        BY <1>1, <2>2, <3>1 DEF FetchOk
      <3> QED
        BY <1>3, <2>2, <3>1, <3>3, <3>4, <3>5 DEF FetchOk
    <2>5. WholeOk(req[k], c, s, n, t)
      BY <1>1, <2>4 DEF WholeOk
    <2> QED
      BY <1>1, <2>1, <2>2, <2>5, SetWhole DEF n
  <1> QED
    BY <1>2, <1>3

LEMMA ReadChunkWhole ==
  ASSUME WholeInv, NEW k \in Calls, ReadChunk(k)
  PROVE  Whole(k)'
  <1> DEFINE s == Mine(k)
             n == dir[req[k].file]
             t == Text(req[k].file)
             i == call[k].sent + 1
             u == data[call[k].fd]
             x == Message(u, i)
             d == SentDown(call[k], x)
             spc == IF x.small THEN "read_end" ELSE "read"
             c == [d EXCEPT !.sent = i, !.spc = spc]
  <1>1. /\ Typed /\ ShapeInv /\ call[k] \in CallRecord /\ call[k].spc = "read"
        /\ req[k].op = "fetch" /\ call[k].fd \in Inodes
        /\ i <= Len(u) /\ Set(k, c)
        /\ UNCHANGED <<dir, data, local, req, crashes>> /\ call[k].sent \in Nat
    BY WholeFacts, CallFacts DEF ReadChunk, SAt, Shape, HandlerShape, ShapeInv
  <1>2. u \in Texts /\ FilePlaced(u)
    BY <1>1, WholeFacts DEF Typed, DataInv, FilesPlaced
  <1>3. i \in Nat /\ i \in 1 .. Len(u) /\ x \in Messages
    BY <1>1, <1>2, MessagesSent DEF Texts
  <1>4. x.small => i = Len(u)
    BY <1>2, <1>3, MessagePlaced
  <1> HIDE DEF u, x, i
  <1>5. /\ d \in CallRecord /\ SameEnds(call[k], d) /\ SameTransfer(call[k], d)
        /\ d.down = IF call[k].cancelled THEN call[k].down ELSE Append(call[k].down, x)
    BY <1>1, <1>3, SentDownFields
  <1>6. spc \in ServerPcs /\ (spc = "read" \/ (spc = "read_end" /\ i = Len(u)))
    BY <1>4 DEF ServerPcs
  <1> HIDE DEF d, spc
  <1>7. /\ c \in CallRecord /\ c.spc = spc /\ c.pc = d.pc /\ c.down = d.down
        /\ c.sent = i /\ c.taken = d.taken /\ c.kept = d.kept /\ c.cancelled = d.cancelled
        /\ c.fd = d.fd
    <2>1. c \in CallRecord
      BY <1>3, <1>5, <1>6 DEF CallRecord
    <2>2. c.spc = spc /\ c.pc = d.pc /\ c.down = d.down /\ c.sent = i
      BY <1>3, <1>5, <1>6 DEF CallRecord
    <2>3. c.taken = d.taken /\ c.kept = d.kept /\ c.cancelled = d.cancelled /\ c.fd = d.fd
      BY <1>3, <1>5, <1>6 DEF CallRecord
    <2> HIDE DEF c
    <2> QED
      BY <2>1, <2>2, <2>3
  <1>8. c.alone = d.alone /\ c.bad = d.bad /\ c.lost = d.lost
    BY <1>5 DEF CallRecord
  <1> HIDE DEF c
  <1>9. ASSUME Waits(c), c.alone PROVE FetchOk(c, s, n, t)
    <2>1. /\ FetchOk(call[k], s, n, t) /\ call[k].down \in Seq(Messages)
          /\ call[k].taken \in Nat /\ t \in Texts /\ ~call[k].cancelled
      BY <1>1, <1>5, <1>7, <1>8, <1>9, FetchFacts DEF Waits, SameEnds, SameTransfer
    <2>2. n = call[k].fd /\ n # None
      BY <1>1, <2>1, Part1Assumption DEF FetchOk, Inodes
    <2>3. t = u
      BY <2>2 DEF Text, u
    <2> HIDE DEF s, n, t
    <2>4. /\ c.pc = call[k].pc /\ c.fd = n /\ c.taken = call[k].taken /\ c.bad = call[k].bad
          /\ c.kept = call[k].kept /\ c.down = Append(call[k].down, x)
      BY <1>5, <1>7, <1>8, <2>1, <2>2 DEF SameEnds, SameTransfer
    <2>5. Sending(call[k])
      BY <1>1 DEF Sending
    <2>6. ASSUME Receives(c) PROVE Under(c.down, DownOffset(c), c.taken, c.sent, t)
      <3>1. DownOffset(c) = DownOffset(call[k]) /\ DownOffset(c) \in {0, 1}
        BY <2>4 DEF DownOffset
      <3>2. Under(call[k].down, DownOffset(c), call[k].taken, call[k].sent, t)
        BY <2>1, <2>4, <2>5, <2>6, <3>1 DEF FetchOk, Receives
      <3>3. call[k].sent + 1 <= Len(t) /\ x = Message(t, call[k].sent + 1)
        BY <1>1, <2>3 DEF i, x
      <3>4. Under(Append(call[k].down, x), DownOffset(c), call[k].taken, call[k].sent + 1, t)
        BY <1>1, <2>1, <3>1, <3>2, <3>3, UnderAppend
      <3> QED
        BY <1>7, <2>4, <3>4 DEF i
    <2>7. c.pc = "receive" => c.bad \/ Received(s, c, t)
      BY <2>1, <2>4, <2>5 DEF FetchOk, Received
    <2>8. c.pc # "finish" /\ (c.pc = "first" => s = <<>>)
      BY <1>1, <2>1, <2>4 DEF FetchOk
    <2>9. c.spc \notin {"open_read", "read"} => c.sent = Len(t)
      BY <1>6, <1>7, <2>3
    <2> QED
      BY <2>2, <2>4, <2>6, <2>7, <2>8, <2>9 DEF FetchOk
  <1>10. WholeOk(req[k], c, s, n, t)
    BY <1>1, <1>9 DEF WholeOk
  <1> QED
    BY <1>1, <1>7, <1>10, SetWhole

LEMMA ReadEndWhole ==
  ASSUME WholeInv, NEW k \in Calls, ReadEnd(k)
  PROVE  Whole(k)'
  <1> DEFINE s == Mine(k)
             n == dir[req[k].file]
             t == Text(req[k].file)
             c == Replied(call[k], "OK")
  <1>1. /\ Typed /\ ShapeInv /\ call[k] \in CallRecord /\ call[k].spc \in {"read", "read_end"}
        /\ req[k].op = "fetch" /\ UNCHANGED <<dir, data, local, req, crashes>>
        /\ call[k].spc = "read" => /\ call[k].sent >= Len(data[call[k].fd])
                                   /\ call[k].fd \in Inodes
        /\ Set(k, c)
    BY WholeFacts DEF ReadEnd, SAt, Shape, HandlerShape, ShapeInv
  <1>2. /\ c.spc = "done" /\ c.pc = call[k].pc /\ c.cancelled = call[k].cancelled
        /\ c.down = call[k].down /\ c.sent = call[k].sent /\ c.taken = call[k].taken
        /\ c.kept = call[k].kept /\ c.bad = call[k].bad /\ c.alone = call[k].alone
    BY <1>1, RepliedFields DEF Replies, SameTransfer
  <1>3. ASSUME Waits(c), c.alone PROVE FetchOk(c, s, n, t)
    <2> HIDE DEF c
    <2>1. /\ FetchOk(call[k], s, n, t) /\ t \in Texts /\ Len(t) \in Nat /\ call[k].sent \in Nat
      BY <1>1, <1>2, <1>3, FetchFacts DEF Waits
    <2>2. Sending(call[k])
      BY <1>1 DEF Sending
    <2>3. ASSUME call[k].spc = "read" PROVE call[k].sent >= Len(t)
      <3>1. n = call[k].fd /\ n # None
        BY <1>1, <2>1, <2>3, Part1Assumption DEF FetchOk, Inodes
      <3> QED
        BY <1>1, <2>3, <3>1 DEF Text
    <2> HIDE DEF s, n, t
    <2>4. Receives(c) => Under(c.down, DownOffset(c), c.taken, c.sent, t)
      BY <1>2, <2>1, <2>2 DEF FetchOk, Receives, DownOffset
    <2>5. ASSUME Receives(c) PROVE c.sent = Len(t)
      <3>1. CASE call[k].spc = "read"
        <4>1. c.sent <= Len(t)
          BY <2>4, <2>5 DEF Under
        <4> QED
          BY <1>2, <2>1, <2>3, <3>1, <4>1
      <3>2. CASE call[k].spc = "read_end"
        BY <1>2, <2>1, <2>2, <2>5, <3>2 DEF FetchOk, Receives
      <3> QED
        BY <1>1, <3>1, <3>2
    <2>6. c.pc = "receive" => c.bad \/ Received(s, c, t)
      BY <1>2, <2>1, <2>2 DEF FetchOk, Received
    <2>7. c.pc # "finish" /\ (c.pc = "first" => s = <<>>) /\ n # None
      BY <1>1, <1>2, <2>1, <2>2 DEF FetchOk
    <2> QED
      BY <1>2, <2>4, <2>5, <2>6, <2>7 DEF FetchOk
  <1>4. WholeOk(req[k], c, s, n, t)
    <2> HIDE DEF c
    <2> QED
      BY <1>1, <1>3 DEF WholeOk
  <1> QED
    BY <1>1, <1>4, AnswerWhole

(* A client's step that changes its own file at most.                      *)
LEMMA MineWhole ==
  ASSUME ShapeInv, NEW k \in Calls, NEW c \in CallRecord, Set(k, c),
         UNCHANGED <<dir, data, req>>, NEW s, s = Mine(k)',
         WholeOk(req[k], c, s, dir[req[k].file], Text(req[k].file))
  PROVE  Whole(k)'
  <1>1. WholeOk(req[k], Settled(c), s, dir[req[k].file], Text(req[k].file))
    BY SettledWhole
  <1>2. call'[k] = Settled(c)
    BY SetOthers
  <1>3. Text(req[k].file)' = Text(req[k].file)
    BY DEF Text
  <1> QED
    BY <1>1, <1>2, <1>3 DEF Whole

LEMMA FetchOpenWhole ==
  ASSUME WholeInv, NEW k \in Calls, FetchOpen(k)
  PROVE  Whole(k)'
  <1> DEFINE n == dir[req[k].file]
             t == Text(req[k].file)
  <1>1. /\ DataInv /\ ShapeInv /\ call[k] \in CallRecord /\ call[k].pc = "open"
        /\ req[k].op = "fetch" /\ UNCHANGED <<dir, data, req, crashes>>
    BY WholeFacts DEF FetchOpen, At
  <1>2. PICK pc \in {"first", "first_unopened"} :
          /\ Set(k, [call[k] EXCEPT !.pc = pc])
          /\ pc = "first" => local' = [local EXCEPT ![req[k].mount][req[k].file] = <<>>]
    BY DEF FetchOpen
  <1> DEFINE c == [call[k] EXCEPT !.pc = pc]
  <1>3. /\ c \in CallRecord /\ c.pc = pc /\ c.spc = call[k].spc /\ c.down = call[k].down
        /\ c.sent = call[k].sent /\ c.taken = call[k].taken /\ c.kept = call[k].kept
        /\ c.cancelled = call[k].cancelled
    <2>1. c \in CallRecord
      BY <1>1 DEF CallRecord, Pcs
    <2>2. c.pc = pc /\ c.spc = call[k].spc /\ c.down = call[k].down /\ c.sent = call[k].sent
      BY <1>1 DEF CallRecord, Pcs
    <2>3. c.taken = call[k].taken /\ c.kept = call[k].kept /\ c.cancelled = call[k].cancelled
      BY <1>1 DEF CallRecord, Pcs
    <2> HIDE DEF c
    <2> QED
      BY <2>1, <2>2, <2>3
  <1>4. c.alone = call[k].alone /\ c.reply = call[k].reply /\ c.fd = call[k].fd
    BY <1>1 DEF CallRecord
  <1>5. Set(k, c)
    BY <1>2
  <1> HIDE DEF c
  <1>6. PICK s : s = Mine(k)'
    OBVIOUS
  <1>7. pc = "first" => s = <<>>
    <2>1. <<>> \in Texts /\ FilePlaced(<<>>)
      BY HoleIsText DEF FilePlaced
    <2> QED
      BY <1>1, <1>2, <1>6, <2>1, MineReplaced DEF Running
  <1>8. ASSUME Waits(c), c.alone PROVE FetchOk(c, s, n, t)
    <2>1. FetchOk(call[k], Mine(k), n, t)
      BY <1>1, <1>3, <1>4, <1>8, FetchFacts DEF Waits
    <2> HIDE DEF n, t
    <2> QED
      BY <1>1, <1>3, <1>4, <1>7, <2>1 DEF FetchOk, Sending, Receives, DownOffset
  <1>9. WholeOk(req[k], c, s, n, t)
    BY <1>1, <1>8 DEF WholeOk
  <1> QED
    BY <1>1, <1>3, <1>5, <1>6, <1>9, MineWhole

LEMMA FetchFirstWhole ==
  ASSUME WholeInv, NEW k \in Calls, FetchFirst(k)
  PROVE  Whole(k)'
  <1> DEFINE s == Mine(k)
             n == dir[req[k].file]
             t == Text(req[k].file)
  <1>1. /\ ShapeInv /\ call[k] \in CallRecord /\ call[k].pc = "first"
        /\ req[k].op = "fetch" /\ UNCHANGED <<dir, data, local, req, crashes>>
        /\ call[k].down \in Seq(Messages \cup Entries)
    BY WholeFacts DEF FetchFirst, At, CallRecord
  <1>2. PICK down \in Seq(Messages \cup Entries) :
          /\ Set(k, [call[k] EXCEPT !.down = down, !.pc = "receive"])
          /\ \/ call[k].down # <<>> /\ down = Tail(call[k].down)
             \/ DownEnded(call[k]) /\ call[k].down = <<>>
             \/ call[k].cancelled
    <2>1. call[k].down # <<>> => Tail(call[k].down) \in Seq(Messages \cup Entries)
      BY <1>1, HeadTaken
    <2> QED
      BY <2>1, NothingSent DEF FetchFirst, DownEnded
  <1> DEFINE c == [call[k] EXCEPT !.down = down, !.pc = "receive"]
  <1>3. /\ c \in CallRecord /\ c.pc = "receive" /\ c.spc = call[k].spc /\ c.down = down
        /\ c.sent = call[k].sent /\ c.taken = call[k].taken /\ c.kept = call[k].kept
        /\ c.cancelled = call[k].cancelled /\ c.fd = call[k].fd
    <2>1. c \in CallRecord
      BY <1>1 DEF CallRecord, Pcs
    <2>2. c.pc = "receive" /\ c.spc = call[k].spc /\ c.down = down /\ c.sent = call[k].sent
      BY <1>1 DEF CallRecord, Pcs
    <2>3. c.taken = call[k].taken /\ c.kept = call[k].kept /\ c.cancelled = call[k].cancelled /\ c.fd = call[k].fd
      BY <1>1 DEF CallRecord, Pcs
    <2> HIDE DEF c
    <2> QED
      BY <2>1, <2>2, <2>3
  <1>4. c.alone = call[k].alone /\ c.reply = call[k].reply
    BY <1>1 DEF CallRecord
  <1>5. Set(k, c)
    BY <1>2
  <1> HIDE DEF c
  <1>6. ASSUME Waits(c), c.alone PROVE FetchOk(c, s, n, t)
    <2>1. /\ FetchOk(call[k], s, n, t) /\ DownOk(call[k]) /\ t \in Texts
          /\ call[k].down \in Seq(Messages) /\ ~call[k].cancelled
          /\ call[k].sent \in Nat /\ call[k].taken \in Nat /\ Len(t) \in Nat
      BY <1>1, <1>3, <1>4, <1>6, FetchFacts DEF Waits, Receives
    <2> HIDE DEF s, n, t
    <2>2. s = <<>> /\ c.taken = 0 /\ c.kept = None
      BY <1>1, <1>3, <2>1 DEF FetchOk, DownOk
    <2>3. Received(s, c, t)
      BY <2>1, <2>2 DEF Received
    <2>4. ASSUME Sending(call[k]) PROVE Under(c.down, 0, c.taken, c.sent, t)
      <3>1. Under(call[k].down, 1, call[k].taken, call[k].sent, t)
        BY <1>1, <2>1, <2>4 DEF FetchOk, Receives, DownOffset
      <3>2. call[k].down # <<>>
        BY <2>1, <3>1, UnderEnds
      <3>3. down = Tail(call[k].down)
        BY <1>2, <2>1, <3>2
      <3>4. Under(Tail(call[k].down), 0, call[k].taken, call[k].sent, t)
        BY <2>1, <3>1, <3>2, UnderTail
      <3> QED
        BY <1>3, <3>3, <3>4
    <2> QED
      BY <1>1, <1>3, <1>4, <2>1, <2>3, <2>4 DEF FetchOk, Sending, Receives, DownOffset
  <1>7. WholeOk(req[k], c, s, n, t)
    BY <1>1, <1>6 DEF WholeOk
  <1> QED
    BY <1>1, <1>3, <1>5, <1>7, SetWhole

LEMMA FetchChunkWhole ==
  ASSUME WholeInv, NEW k \in Calls, FetchChunk(k)
  PROVE  Whole(k)'
  <1> DEFINE x == Head(call[k].down)
             d == Taken(call[k], x)
             down == Tail(call[k].down)
             n == dir[req[k].file]
             t == Text(req[k].file)
  <1>1. /\ Typed /\ ShapeInv /\ call[k] \in CallRecord /\ call[k].pc = "receive"
        /\ req[k].op = "fetch" /\ call[k].down # <<>>
        /\ UNCHANGED <<dir, data, req, crashes>>
    BY WholeFacts DEF FetchChunk, At, ShapeInv
  <1>2. /\ call[k].down \in Seq(Messages) /\ req[k] \in Request /\ Mine(k) \in Texts
    BY <1>1, WholeFacts DEF ShapeInv, Shape, StreamShape, Opened, Opens
  <1>3. /\ x \in Messages /\ down \in Seq(Messages) /\ down \in Seq(Messages \cup Entries)
    BY <1>1, <1>2, HeadTaken
  <1>4. /\ d \in CallRecord /\ SameEnds(call[k], d) /\ d.down = call[k].down
        /\ d.taken = call[k].taken + 1 /\ d.sent = call[k].sent /\ d.bad = call[k].bad
        /\ d.fd = call[k].fd /\ d.alone = call[k].alone
    BY <1>1, <1>3, TakenFields
  <1>5. PICK bad \in BOOLEAN :
          /\ Set(k, [d EXCEPT !.down = down, !.bad = bad])
          /\ \/ /\ bad = d.bad
                /\ local' = [local EXCEPT ![req[k].mount][req[k].file] = Written(call[k], x, Mine(k))]
             \/ bad
    <2>1. d.bad \in BOOLEAN
      BY <1>4 DEF CallRecord
    <2>2. [d EXCEPT !.down = down, !.bad = d.bad] = [d EXCEPT !.down = down]
      BY <1>4 DEF CallRecord
    <2>3. CASE /\ Set(k, [d EXCEPT !.down = Tail(@)])
               /\ local' = [local EXCEPT ![req[k].mount][req[k].file] = Written(call[k], x, @)]
      BY <1>4, <2>1, <2>2, <2>3 DEF Mine
    <2>4. CASE Set(k, [[d EXCEPT !.down = Tail(@)] EXCEPT !.bad = TRUE])
      BY <1>4, <2>4
    <2> QED
      BY <2>3, <2>4 DEF FetchChunk
  <1> DEFINE c == [d EXCEPT !.down = down, !.bad = bad]
  <1> HIDE DEF x, d, down
  <1>6. /\ c \in CallRecord /\ c.down = down /\ c.pc = d.pc /\ c.spc = d.spc /\ c.sent = d.sent
        /\ c.taken = d.taken /\ c.kept = d.kept /\ c.cancelled = d.cancelled
    <2>1. c \in CallRecord
      BY <1>3, <1>4 DEF CallRecord
    <2>2. c.down = down /\ c.pc = d.pc /\ c.spc = d.spc /\ c.sent = d.sent
      BY <1>3, <1>4 DEF CallRecord
    <2>3. c.taken = d.taken /\ c.kept = d.kept /\ c.cancelled = d.cancelled
      BY <1>3, <1>4 DEF CallRecord
    <2> HIDE DEF c
    <2> QED
      BY <2>1, <2>2, <2>3
  <1>7. c.bad = bad /\ c.alone = d.alone /\ c.reply = d.reply /\ c.fd = d.fd
    BY <1>4 DEF CallRecord
  <1>8. Set(k, c)
    BY <1>5
  <1> HIDE DEF c
  <1>9. PICK u : u = Mine(k)'
    OBVIOUS
  <1>10. bad \/ (~call[k].bad /\ u = Written(call[k], x, Mine(k)))
    <2>1. CASE local' = [local EXCEPT ![req[k].mount][req[k].file] = Written(call[k], x, Mine(k))]
      <3>1. PICK s \in Texts : s = Written(call[k], x, Mine(k))
        BY <1>1, <1>2, <1>3, WritesTyped
      <3>2. local'[req[k].mount][req[k].file] = s
        BY <1>1, <1>2, <2>1, <3>1, MineWritten
      <3> QED
        BY <1>1, <1>4, <1>5, <1>9, <3>1, <3>2 DEF Mine
    <2> QED
      BY <1>4, <1>5, <2>1
  <1>11. ASSUME Waits(c), c.alone PROVE FetchOk(c, u, n, t)
    <2>1. /\ FetchOk(call[k], Mine(k), n, t) /\ t \in Texts /\ FilePlaced(t)
          /\ call[k].sent \in Nat /\ call[k].taken \in Nat
      BY <1>1, <1>4, <1>6, <1>7, <1>11, FetchFacts DEF Waits, SameEnds
    <2> HIDE DEF n, t
    <2>2. /\ c.pc = "receive" /\ c.spc = call[k].spc /\ c.reply = call[k].reply
          /\ c.sent = call[k].sent /\ c.taken = call[k].taken + 1 /\ c.fd = call[k].fd
      BY <1>1, <1>4, <1>6, <1>7 DEF SameEnds
    <2>3. ASSUME Sending(call[k])
          PROVE  /\ n # None /\ Under(c.down, 0, c.taken, c.sent, t)
                 /\ call[k].spc \notin {"open_read", "read"} => call[k].sent = Len(t)
                 /\ c.bad \/ Received(u, c, t)
      <3>1. /\ n # None /\ Under(call[k].down, 0, call[k].taken, call[k].sent, t)
            /\ call[k].spc \notin {"open_read", "read"} => call[k].sent = Len(t)
            /\ call[k].bad \/ Received(Mine(k), call[k], t)
        BY <1>1, <2>1, <2>3 DEF FetchOk, Receives, DownOffset
      <3>2. /\ call[k].taken + 1 <= Len(t) /\ x = Message(t, call[k].taken + 1)
            /\ Under(down, 0, call[k].taken + 1, call[k].sent, t)
        BY <1>1, <1>2, <2>1, <3>1, UnderTail DEF x, down
      <3>3. ASSUME ~bad PROVE Received(u, c, t)
        <4>1. ~call[k].bad /\ u = Written(call[k], x, Mine(k)) /\ Received(Mine(k), call[k], t)
          BY <1>10, <3>1, <3>3
        <4>2. Received(Written(call[k], x, Mine(k)), Taken(call[k], x), t)
          BY <1>1, <1>2, <2>1, <3>2, <4>1, ReceivedChunk
        <4>3. Received(u, d, t)
          BY <4>1, <4>2 DEF d
        <4> QED
          BY <1>6, <4>3 DEF Received
      <3> QED
        BY <1>6, <1>7, <2>2, <3>1, <3>2, <3>3
    <2>4. Sending(c) => Sending(call[k])
      BY <2>2 DEF Sending
    <2>5. c.spc \in {"read", "read_end"} => n = c.fd
      BY <2>1, <2>2 DEF FetchOk
    <2> QED
      BY <2>2, <2>3, <2>4, <2>5 DEF FetchOk, DownOffset
  <1>12. WholeOk(req[k], c, u, n, t)
    BY <1>1, <1>11 DEF WholeOk
  <1> QED
    BY <1>1, <1>6, <1>8, <1>9, <1>12, MineWhole

LEMMA FetchEndWhole ==
  ASSUME WholeInv, NEW k \in Calls, FetchEnd(k)
  PROVE  Whole(k)'
  <1> DEFINE n == dir[req[k].file]
             t == Text(req[k].file)
             c == [call[k] EXCEPT !.pc = "finish"]
             e == [call[k] EXCEPT !.pc = "finish", !.lost = TRUE]
  <1>1. /\ Typed /\ ShapeInv /\ call[k] \in CallRecord /\ Shape(req[k], call[k])
        /\ call[k].pc = "receive" /\ req[k].op = "fetch" /\ DownEnded(call[k])
        /\ UNCHANGED <<dir, data, req, crashes>>
    BY WholeFacts DEF FetchEnd, At, ShapeInv
  <1>2. req[k] \in Request /\ Mine(k) \in Texts
    BY <1>1, WholeFacts DEF ShapeInv, Opened, Opens
  <1>3. ASSUME Waits(call[k])
        PROVE  /\ call[k].spc = "done" /\ call[k].reply # None
               /\ call[k].alone /\ call[k].reply = "OK" =>
                     n # None /\ (call[k].bad \/ Flushed(call[k], Mine(k)) = t)
    <2>1. call[k].spc = "done" /\ call[k].reply # None /\ call[k].down = <<>>
      BY <1>1, <1>3 DEF DownEnded, Waits, Shape, HandlerShape
    <2>2. ASSUME call[k].alone, call[k].reply = "OK"
          PROVE  n # None /\ (call[k].bad \/ Flushed(call[k], Mine(k)) = t)
      <3>1. /\ FetchOk(call[k], Mine(k), n, t) /\ t \in Texts
            /\ call[k].sent \in Nat /\ call[k].taken \in Nat
        BY <1>1, <1>3, <2>2, FetchFacts
      <3> HIDE DEF n, t
      <3>2. /\ n # None /\ Under(<<>>, 0, call[k].taken, call[k].sent, t)
            /\ call[k].sent = Len(t) /\ (call[k].bad \/ Received(Mine(k), call[k], t))
        BY <1>1, <2>1, <2>2, <3>1 DEF FetchOk, Sending, Receives, DownOffset
      <3>3. call[k].taken = Len(t)
        BY <3>1, <3>2, UnderEnds
      <3> QED
        BY <1>1, <1>2, <3>1, <3>2, <3>3, ReceivedAll
    <2> QED
      BY <2>1, <2>2
  <1>4. CASE Set(k, Returned(call[k], "CANCELLED"))
    <2> DEFINE r == Returned(call[k], "CANCELLED")
    <2>1. ~Waits(r) /\ Set(k, r)
      BY <1>1, <1>4, ReturnedFields DEF Codes, Waits
    <2> HIDE DEF r
    <2> QED
      BY <1>1, <2>1, LeftWhole
  <1>5. CASE /\ ~call[k].bad /\ Set(k, c)
             /\ local' = [local EXCEPT ![req[k].mount][req[k].file] = Flushed(call[k], @)]
    <2>1. /\ c \in CallRecord /\ c.pc = "finish" /\ c.spc = call[k].spc
          /\ c.cancelled = call[k].cancelled /\ c.reply = call[k].reply
      BY <1>1 DEF CallRecord, Pcs
    <2>2. c.alone = call[k].alone
      BY <1>1 DEF CallRecord
    <2> HIDE DEF c
    <2>3. PICK u : u = Mine(k)'
      OBVIOUS
    <2>4. u = Flushed(call[k], Mine(k))
      <3>1. PICK s \in Texts : s = Flushed(call[k], Mine(k))
        BY <1>1, <1>2, WritesTyped
      <3>2. local'[req[k].mount][req[k].file] = s
        BY <1>1, <1>2, <1>5, <3>1, MineWritten DEF Mine
      <3> QED
        BY <1>1, <2>3, <3>1, <3>2 DEF Mine
    <2>5. ASSUME Waits(c), c.alone PROVE FetchOk(c, u, n, t)
      <3>1. /\ c.spc = "done"
            /\ c.reply = "OK" => n # None /\ Flushed(call[k], Mine(k)) = t
        BY <1>1, <1>3, <1>5, <2>1, <2>2, <2>5 DEF Waits
      <3> HIDE DEF n, t
      <3> QED
        BY <2>1, <2>4, <3>1 DEF FetchOk, Sending, Receives
    <2>6. WholeOk(req[k], c, u, n, t)
      BY <1>1, <2>5 DEF WholeOk
    <2> QED
      BY <1>1, <1>5, <2>1, <2>3, <2>6, MineWhole
  <1>6. CASE Set(k, e) /\ UNCHANGED local
    <2>1. /\ e \in CallRecord /\ e.pc = "finish" /\ e.spc = call[k].spc
          /\ e.cancelled = call[k].cancelled /\ e.reply = call[k].reply
      BY <1>1 DEF CallRecord, Pcs
    <2>2. e.alone = call[k].alone /\ e.lost
      BY <1>1 DEF CallRecord
    <2> HIDE DEF e
    <2>3. ASSUME Waits(e), e.alone PROVE FetchOk(e, Mine(k), n, t)
      <3>1. e.spc = "done" /\ (e.reply = "OK" => n # None)
        BY <1>1, <1>3, <2>1, <2>2, <2>3 DEF Waits
      <3> HIDE DEF n, t
      <3> QED
        BY <2>1, <2>2, <3>1 DEF FetchOk, Sending, Receives
    <2>4. WholeOk(req[k], e, Mine(k), n, t)
      BY <1>1, <2>3 DEF WholeOk
    <2> QED
      BY <1>1, <1>6, <2>1, <2>4, SetWhole
  <1> QED
    BY <1>4, <1>5, <1>6 DEF FetchEnd

----------------------------------------------------------------------------
(* The other steps of a call.                                              *)

LEMMA StartWhole ==
  ASSUME WholeInv, NEW k \in Calls, Start(k)
  PROVE  Whole(k)'
  <1>1. /\ Typed /\ ShapeInv /\ call[k] = NewCall /\ call[k] \in CallRecord
        /\ UNCHANGED <<dir, data, local, crashes>>
    BY WholeFacts DEF Start, Shape, ClientShape, ShapeInv
  <1>2. PICK r \in Request :
          /\ req' = [req EXCEPT ![k] = r]
          /\ IF r.op = "store" /\ local[r.mount][r.file] = None
             THEN Set(k, Returned(call[k], "NOT_FOUND"))
             ELSE Set(k, [call[k] EXCEPT
                      !.spc = "start",
                      !.pc = CASE r.op = "store" -> "header"
                               [] r.op = "fetch" -> "open"
                               [] r.op = "list" -> "receive"
                               [] OTHER -> "finish"])
    BY DEF Start
  <1>3. req'[k] = r
    BY <1>1, <1>2 DEF Typed
  <1>4. CASE Set(k, Returned(call[k], "NOT_FOUND"))
    <2> DEFINE c == Returned(call[k], "NOT_FOUND")
    <2>1. ~Waits(c) /\ Set(k, c)
      BY <1>1, <1>4, ReturnedFields DEF Codes, Replies, Waits
    <2> HIDE DEF c
    <2> QED
      BY <1>1, <2>1, LeftWhole
  <1>5. CASE /\ r.op = "store" => local[r.mount][r.file] # None
             /\ Set(k, [call[k] EXCEPT
                      !.spc = "start",
                      !.pc = CASE r.op = "store" -> "header"
                               [] r.op = "fetch" -> "open"
                               [] r.op = "list" -> "receive"
                               [] OTHER -> "finish"])
    <2> DEFINE pc == CASE r.op = "store" -> "header"
                       [] r.op = "fetch" -> "open"
                       [] r.op = "list" -> "receive"
                       [] OTHER -> "finish"
               c == [call[k] EXCEPT !.spc = "start", !.pc = pc]
    <2>1. pc \in Pcs /\ (r.op = "store" => pc = "header") /\ (r.op = "fetch" => pc = "open")
      BY DEF Pcs
    <2> HIDE DEF pc
    <2>2. c \in CallRecord /\ c.pc = pc /\ c.spc = "start"
      BY <1>1, <2>1 DEF CallRecord, ServerPcs
    <2>3. ~c.half /\ c.reply = None
      BY <1>1 DEF NewCall
    <2>4. Set(k, c)
      BY <1>5 DEF pc
    <2> HIDE DEF c
    <2>5. call'[k] = Settled(c) /\ c.reply # "OK"
      BY <1>1, <2>3, <2>4, SetOthers, NoneIsNoReply
    <2>6. PICK s : s = Mine(k)'
      OBVIOUS
    <2>7. PICK f : f = req'[k].file
      OBVIOUS
    <2>8. PICK n : n = dir'[f]
      OBVIOUS
    <2>9. PICK t : t = Text(f)'
      OBVIOUS
    <2>10. r.op = "store" => s \in Texts
      BY <1>1, <1>3, <1>5, <2>6 DEF Typed, Mine, Request
    <2>11. WholeOk(r, c, s, n, t)
      BY <2>1, <2>2, <2>3, <2>5, <2>10 DEF WholeOk, StoreOk, FetchOk, Sending, Receives, Reads
    <2> QED
      BY <1>3, <2>2, <2>5, <2>6, <2>7, <2>8, <2>9, <2>11, OwnWhole
  <1> QED
    BY <1>2, <1>4, <1>5

LEMMA ReturnWhole ==
  ASSUME WholeInv, NEW k \in Calls, FetchUnopened(k) \/ Finish(k)
  PROVE  Whole(k)'
  <1>1. ShapeInv /\ call[k] \in CallRecord /\ call[k].reply \in Replies \cup {None}
    BY WholeFacts DEF CallRecord
  <1>2. PICK s \in Codes : Set(k, Returned(call[k], s))
    <2>1. CASE FetchUnopened(k)
      BY <2>1 DEF FetchUnopened, Codes
    <2>2. CASE Finish(k)
      <3> DEFINE s == IF call[k].cancelled THEN "DEADLINE_EXCEEDED"
                      ELSE IF call[k].reply = "FAILURE" THEN "NOT_FOUND" ELSE call[k].reply
      <3>1. s \in Codes /\ Set(k, Returned(call[k], s))
        BY <1>1, <2>2 DEF Finish, Codes, Replies
      <3> QED
        BY <3>1
    <2> QED
      BY <2>1, <2>2
  <1> DEFINE c == Returned(call[k], s)
  <1>3. ~Waits(c) /\ Set(k, c)
    BY <1>1, <1>2, ReturnedFields DEF Waits
  <1> HIDE DEF c
  <1> QED
    BY <1>1, <1>3, LeftWhole

LEMMA BreakOffWhole ==
  ASSUME WholeInv, NEW k \in Calls, Deadline(k) \/ HandleSignal(k)
  PROVE  Whole(k)'
  <1>1. ShapeInv /\ call[k] \in CallRecord
    BY WholeFacts
  <1>2. PICK c : ~Waits(c) /\ Set(k, c)
    <2>1. CASE Deadline(k)
      <3>1. ~Waits([call[k] EXCEPT !.cancelled = TRUE])
        BY <1>1 DEF Waits, CallRecord
      <3> QED
        BY <2>1, <3>1 DEF Deadline
    <2>2. CASE HandleSignal(k)
      <3>1. ~Waits([call[k] EXCEPT !.pc = "killed", !.cancelled = TRUE, !.down = <<>>])
        BY <1>1 DEF Waits, CallRecord
      <3> QED
        BY <2>2, <3>1 DEF HandleSignal
    <2> QED
      BY <2>1, <2>2
  <1> QED
    BY <1>1, <1>2, LeftWhole

(* The steps of commands that transfer nothing.                            *)
LEMMA NoTransferWhole ==
  ASSUME WholeInv, NEW k \in Calls,
         \/ ListEntry(k) \/ ListEnd(k) \/ Remove(k) \/ StatFile(k)
         \/ OpenDir(k) \/ ReadDir(k) \/ StatEntry(k) \/ ReadDirEnd(k)
  PROVE  Whole(k)'
  <1>1. Shape(req[k], call[k])
    BY WholeFacts
  <1>2. UNCHANGED req
    BY DEF ListEntry, ListEnd, Remove, StatFile, OpenDir, ReadDir, StatEntry, ReadDirEnd
  <1>3. req[k].op \in {"list", "delete", "stat"}
    BY <1>1 DEF ListEntry, ListEnd, Remove, StatFile, OpenDir, ReadDir, StatEntry, ReadDirEnd,
       At, SAt, Shape, HandlerShape
  <1> QED
    BY <1>2, <1>3 DEF Whole, WholeOk

----------------------------------------------------------------------------
(* A step of call k, for another call j.                                   *)

LEMMA OtherWhole ==
  ASSUME WholeInv, NEW j \in Calls, NEW d \in CallRecord, call'[j] = d,
         SameButWitness(call[j], d), req'[j] = req[j], NEW s, s = Mine(j)',
         NEW f, f = req[j].file, NEW n, n = dir'[f], NEW t, t = Text(f)',
         Waits(call[j]) => s = Mine(j),
         Waits(call[j]) /\ req[j].op \in {"store", "fetch"} /\ d.alone =>
            call[j].alone /\ n = dir[f] /\ t = Text(f)
  PROVE  Whole(j)'
  <1>1. /\ call[j] \in CallRecord
        /\ WholeOk(req[j], call[j], Mine(j), dir[f], Text(f))
    BY WholeFacts
  <1>2. WholeOk(req[j], d, s, n, t)
    BY <1>1, WitnessWhole
  <1> QED
    BY <1>2 DEF Whole, Text, Mine

(* Only a fetch writes in a mount directory, which has one command at once. *)
LEMMA ClientMine ==
  ASSUME ShapeInv, NEW k \in Calls, Client(k) \/ Deadline(k) \/ HandleSignal(k)
  PROVE  \A j \in Calls \ {k} : Running(j) => Mine(j)' = Mine(j)
  <1>1. Running(k) /\ UNCHANGED req
    BY ClientFd
  <1>2. \A j \in Calls : Running(j) => req[j] \in Request
    BY DEF ShapeInv, CallsShaped, Shape, ClientShape, Running
  <1>3. UNCHANGED local \/ \E s : local' = [local EXCEPT ![req[k].mount][req[k].file] = s]
    <2>1. CASE FetchOpen(k)
      BY <2>1 DEF FetchOpen
    <2>2. CASE FetchChunk(k)
      BY <2>2 DEF FetchChunk
    <2>3. CASE FetchEnd(k)
      BY <2>3 DEF FetchEnd
    <2>4. CASE ~(FetchOpen(k) \/ FetchChunk(k) \/ FetchEnd(k))
      BY <2>4 DEF Client, Deadline, HandleSignal, StoreHeader, StoreChunk, StoreDone,
         FetchFirst, FetchUnopened, ListEntry, ListEnd, Finish
    <2> QED
      BY <2>1, <2>2, <2>3, <2>4
  <1>4. \A m \in Mounts : m # req[k].mount => local'[m] = local[m]
    BY <1>1, <1>2, <1>3 DEF ShapeInv, Typed, Request
  <1> QED
    BY <1>1, <1>2, <1>4 DEF ShapeInv, MountsApart, Mine, Request

LEMMA OthersWhole ==
  ASSUME WholeInv, NEW k \in Calls,
         Start(k) \/ Client(k) \/ Deadline(k) \/ HandleSignal(k) \/ Handler(k)
  PROVE  \A j \in Calls \ {k} : Whole(j)'
  <1> SUFFICES ASSUME NEW j \in Calls \ {k} PROVE Whole(j)'
    OBVIOUS
  <1>1. /\ Typed /\ ShapeInv /\ NamesInv /\ call[j] \in CallRecord /\ Shape(req[j], call[j])
        /\ SameButWitness(call[j], call[j])
        /\ Waits(call[j]) => Running(j) /\ req[j].file \in Files
    BY WholeFacts DEF ShapeInv, SameButWitness, SameEnds, Waits, Running
  <1>2. PICK f : f = req[j].file
    OBVIOUS
  <1>3. PICK s : s = Mine(j)'
    OBVIOUS
  <1>4. PICK n : n = dir'[f]
    OBVIOUS
  <1>5. PICK t : t = Text(f)'
    OBVIOUS
  <1>6. CASE Start(k)
    <2>1. /\ UNCHANGED <<dir, data, local>> /\ (\E c : Set(k, c))
          /\ \E r : req' = [req EXCEPT ![k] = r]
      BY <1>6 DEF Start
    <2>2. req'[j] = req[j] /\ call'[j] = call[j]
      BY <1>1, <2>1, SetOthers DEF Typed
    <2>3. s = Mine(j) /\ n = dir[f] /\ t = Text(f)
      BY <1>3, <1>4, <1>5, <2>1, <2>2 DEF Mine, Text
    <2> QED
      BY <1>1, <1>2, <1>3, <1>4, <1>5, <2>2, <2>3, OtherWhole
  <1>7. CASE Client(k) \/ Deadline(k) \/ HandleSignal(k)
    <2>1. UNCHANGED <<dir, data, req>> /\ call'[j] = call[j]
      BY <1>1, <1>7, ClientFd
    <2>2. Waits(call[j]) => s = Mine(j)
      BY <1>1, <1>3, <1>7, ClientMine
    <2>3. n = dir[f] /\ t = Text(f)
      BY <1>4, <1>5, <2>1 DEF Text
    <2> QED
      BY <1>1, <1>2, <1>3, <1>4, <1>5, <2>1, <2>2, <2>3, OtherWhole
  <1>8. CASE Handler(k)
    <2>1. UNCHANGED <<local, req>> /\ Watches(j, k)
      BY <1>1, <1>8, HandlerWatched
    <2>2. PICK d : d = call'[j]
      OBVIOUS
    <2>3. /\ d \in CallRecord /\ SameButWitness(call[j], d)
          /\ Running(j) /\ ~Listing(call[j]) /\ d.alone =>
               call[j].alone /\ (UNCHANGED <<dir, data>> \/ req[k].file # req[j].file)
      BY <2>1, <2>2 DEF Watches
    <2>4. s = Mine(j)
      BY <1>3, <2>1 DEF Mine
    <2>5. ASSUME Waits(call[j]), req[j].op \in {"store", "fetch"}, d.alone
          PROVE  call[j].alone /\ n = dir[f] /\ t = Text(f)
      <3>1. ~Listing(call[j])
        BY <1>1, <2>5 DEF Shape, HandlerShape, Listing
      <3>2. call[j].alone /\ (UNCHANGED <<dir, data>> \/ req[k].file # f) /\ f \in Files
        BY <1>1, <1>2, <2>3, <2>5, <3>1
      <3>3. dir'[f] = dir[f] /\ Text(f)' = Text(f)
        BY <1>1, <1>8, <3>2, OthersLeave
      <3> QED
        BY <1>4, <1>5, <3>2, <3>3
    <2> QED
      BY <1>2, <1>3, <1>4, <1>5, <2>1, <2>2, <2>3, <2>4, <2>5, OtherWhole
  <1> QED
    BY <1>6, <1>7, <1>8

----------------------------------------------------------------------------
LEMMA CrashWhole ==
  ASSUME WholeInv, Crash, NEW k \in Calls
  PROVE  Whole(k)'
  <1>1. /\ call'[k] = IF Serving(k) THEN Settled(Replied(call[k], "UNAVAILABLE")) ELSE call[k]
        /\ UNCHANGED <<dir, data, local, req>>
    BY DEF Crash
  <1>2. /\ call[k] \in CallRecord
        /\ WholeOk(req[k], call[k], Mine(k), dir[req[k].file], Text(req[k].file))
    BY WholeFacts
  <1>3. WholeOk(req[k], call'[k], Mine(k), dir[req[k].file], Text(req[k].file))
    <2>1. CASE Serving(k)
      <3> DEFINE c == Replied(call[k], "UNAVAILABLE")
      <3>1. /\ c \in CallRecord
            /\ WholeOk(req[k], c, Mine(k), dir[req[k].file], Text(req[k].file))
        BY <1>2, RepliedFields, RepliedWhole DEF Replies
      <3>2. call'[k] = Settled(c)
        BY <1>1, <2>1
      <3> HIDE DEF c
      <3> QED
        BY <3>1, <3>2, SettledWhole
    <2>2. CASE ~Serving(k)
      BY <1>1, <1>2, <2>2
    <2> QED
      BY <2>1, <2>2
  <1> QED
    BY <1>1, <1>3 DEF Whole, Mine, Text

LEMMA InitWhole == Init => WholeInv
  <1> SUFFICES ASSUME Init PROVE WholeInv
    OBVIOUS
  <1>1. \A k \in Calls : ~Waits(call[k])
    BY DEF Init, NewCall, Waits
  <1> QED
    BY <1>1, InitPlaced, NamesInit DEF WholeInv, Whole, WholeOk

LEMMA StepWhole ==
  ASSUME WholeInv, [Next]_vars
  PROVE  WholeInv'
  <1>1. DataInv' /\ NamesInv'
    BY StepPlaced, NamesStep DEF WholeInv, DataInv
  <1>2. CASE UNCHANGED vars
    BY <1>1, <1>2 DEF vars, WholeInv, Whole, Mine, Text
  <1>3. CASE Crash
    BY <1>1, <1>3, CrashWhole DEF WholeInv
  <1>4. ASSUME NEW k \in Calls, Start(k) \/ Client(k) \/ Deadline(k) \/ HandleSignal(k)
        PROVE  Whole(k)'
    BY <1>4, StartWhole, StoreHeaderWhole, StoreChunkWhole, StoreDoneWhole, FetchOpenWhole,
       FetchFirstWhole, FetchChunkWhole, FetchEndWhole, NoTransferWhole, ReturnWhole,
       BreakOffWhole DEF Client
  <1>5. ASSUME NEW k \in Calls, Handler(k)
        PROVE  Whole(k)'
    BY <1>5, BeginWhole, ReadHeaderWhole, OpenForWriteWhole, OpenFailsWhole, WriteChunkWhole,
       EndOfStreamWhole, StatAfterWriteWhole, FetchStatWhole, OpenForReadWhole, ReadChunkWhole,
       ReadEndWhole, NoTransferWhole DEF Handler
  <1>6. ASSUME NEW k \in Calls,
               Start(k) \/ Client(k) \/ Handler(k) \/ Deadline(k) \/ HandleSignal(k)
        PROVE  WholeInv'
    <2>1. Whole(k)'
      BY <1>4, <1>5, <1>6
    <2>2. \A j \in Calls \ {k} : Whole(j)'
      BY <1>6, OthersWhole
    <2> QED
      BY <1>1, <2>1, <2>2 DEF WholeInv
  <1> QED
    BY <1>2, <1>3, <1>6 DEF Next

(* A store whose command returns OK has left on the server the file of the *)
(* client, whole, unless another call wrote or removed that file meanwhile *)
(* or the last write, at close, failed: the client sent everything before  *)
(* it said so, and the handler wrote all of it and found it by its name    *)
(* before it answered. So it is whatever other calls do to other files,    *)
(* and wherever the server dies or a deadline passes.                      *)
THEOREM StoresAreWhole == Spec => OkStoreIsWhole
  <1> DEFINE Stored ==
        \A k \in Calls :
          Returns(k, "store") /\ call[k].alone /\ ~call[k].lost =>
              /\ dir[req[k].file] # None
              /\ data[dir[req[k].file]] = Mine(k)
  <1>1. ASSUME WholeInv, [Next]_vars PROVE Stored
    <2> SUFFICES ASSUME NEW k \in Calls, Returns(k, "store"), call[k].alone, ~call[k].lost
                 PROVE  dir[req[k].file] # None /\ data[dir[req[k].file]] = Mine(k)
      OBVIOUS
    <2>1. /\ call[k].pc = "finish" /\ ~call[k].cancelled /\ call[k].reply = "OK"
          /\ req[k].op = "store"
      BY <1>1, WholeFacts, OnlyFinishReturnsOk DEF Returns
    <2>2. StoreOk(call[k], Mine(k), dir[req[k].file], Text(req[k].file))
      BY <1>1, <2>1, StoreFacts DEF Waits
    <2> QED
      BY <2>1, <2>2 DEF StoreOk, Text
  <1>2. WholeInv /\ [Next]_vars => [Stored]_vars
    BY <1>1
  <1> HIDE DEF Stored
  <1>3. Spec => [][Stored]_vars
    BY <1>2, InitWhole, StepWhole, PTL DEF Spec
  <1> QED
    BY <1>3 DEF OkStoreIsWhole, Stored

(* A fetch whose command returns OK has, with the same exceptions, left in *)
(* the mount directory the file the server has: the two lookups found the  *)
(* same file, the handler answered OK only behind the end of it, and the   *)
(* client left its stream only behind the last chunk.                      *)
THEOREM FetchesAreWhole == Spec => OkFetchIsWhole
  <1> DEFINE Fetched ==
        \A k \in Calls :
          Returns(k, "fetch") /\ call[k].alone /\ ~call[k].lost =>
              /\ dir[req[k].file] # None
              /\ data[dir[req[k].file]] = Mine(k)
  <1>1. ASSUME WholeInv, [Next]_vars PROVE Fetched
    <2> SUFFICES ASSUME NEW k \in Calls, Returns(k, "fetch"), call[k].alone, ~call[k].lost
                 PROVE  dir[req[k].file] # None /\ data[dir[req[k].file]] = Mine(k)
      OBVIOUS
    <2>1. /\ call[k].pc = "finish" /\ ~call[k].cancelled /\ call[k].reply = "OK"
          /\ req[k].op = "fetch"
      BY <1>1, WholeFacts, OnlyFinishReturnsOk DEF Returns
    <2>2. FetchOk(call[k], Mine(k), dir[req[k].file], Text(req[k].file))
      BY <1>1, <2>1, FetchFacts DEF Waits
    <2> QED
      BY <2>1, <2>2 DEF FetchOk, Sending, Text
  <1>2. WholeInv /\ [Next]_vars => [Fetched]_vars
    BY <1>1
  <1> HIDE DEF Fetched
  <1>3. Spec => [][Fetched]_vars
    BY <1>2, InitWhole, StepWhole, PTL DEF Spec
  <1> QED
    BY <1>3 DEF OkFetchIsWhole, Fetched
=============================================================================
