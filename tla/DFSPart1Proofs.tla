--------------------------- MODULE DFSPart1Proofs ---------------------------
(***************************************************************************)
(* Theorems about DFSPart1: what a call has at each step of its two ends,  *)
(* what the steps of one call are to the others, and what lists show.      *)
(***************************************************************************)
EXTENDS DFSPart1, SequenceTheorems, TLAPS

(* What streams carry: in a transfer chunks, and first the header; in a    *)
(* listing entries.                                                        *)
Messages == [chunk : Bytes \cup {None}, small : BOOLEAN]
Entries == [name : Files, date : Files \cup {0}]

CallRecord ==
    [pc : Pcs, spc : ServerPcs, up : Seq(Messages), down : Seq(Messages \cup Entries),
     half : BOOLEAN, reply : Replies \cup {None}, cancelled : BOOLEAN, sent : Nat,
     taken : Nat, kept : Bytes \cup {None}, bad : BOOLEAN, fd : Inodes \cup {None},
     entry : Files \cup {None}, date : Files \cup {0}, listed : SUBSET Files,
     map : [Files -> Files \cup {None, 0}], status : Codes \cup {None},
     alone : BOOLEAN, lost : BOOLEAN, due : SUBSET Files, ever : SUBSET Files]

(* What a call c with request r has at each position of either end.        *)
ClientShape(r, c) ==
    /\ c.pc = "idle" => c = NewCall
    /\ c.pc # "idle" => r \in Request
    /\ c.pc \in {"header", "send"} => r.op = "store"
    /\ c.pc \in {"open", "first", "first_unopened"} => r.op = "fetch"
    /\ c.pc = "receive" => r.op \in {"fetch", "list"}
    /\ c.pc \notin {"done", "killed"} => c.status # "OK"

HandlerShape(r, c) ==
    /\ c.spc \in {"read_header", "open", "write", "stat"} => r.op = "store"
    /\ c.spc \in {"fetch_stat", "open_read", "read", "read_end"} => r.op = "fetch"
    /\ c.spc = "remove" => r.op = "delete"
    /\ c.spc = "stat_file" => r.op = "stat"
    /\ c.spc \in {"open_dir", "read_dir", "stat_entry"} => r.op = "list"
    /\ c.spc \in {"write", "stat", "read"} => c.fd \in Inodes
    /\ c.spc = "stat_entry" => c.entry \in Files
    /\ c.spc # "done" => c.reply = None

StreamShape(r, c) ==
    /\ c.pc # "idle" => c.down \in Seq(IF r.op = "list" THEN Entries ELSE Messages)
    /\ Len(c.up) <= Window /\ Len(c.down) <= Window
    /\ c.spc \in {"start", "fetch_stat"} => c.down = <<>>

Shape(r, c) == ClientShape(r, c) /\ HandlerShape(r, c) /\ StreamShape(r, c)

(* The bytes of a file.                                                    *)
Texts == Seq(Bytes \cup {None})

(* The file a client reads or writes is there.                             *)
Opens(r, c) == c.pc \in {"header", "send", "first"} \/ (c.pc = "receive" /\ r.op = "fetch")

Opened(k) == Opens(req[k], call[k]) => Mine(k) \in Texts

CallsShaped ==
    /\ call \in [Calls -> CallRecord]
    /\ \A k \in Calls : Shape(req[k], call[k])

(* What is in files is a sequence, of what is said below.                  *)
Typed ==
    /\ dir \in [Files -> Inodes \cup {None}]
    /\ data \in [Inodes -> Texts]
    /\ local \in [Mounts -> [Files -> Texts \cup {None}]]
    /\ req \in [Calls -> Request \cup {None}]
    /\ crashes \in 0 .. MaxCrashes

MountsApart ==
    \A j, k \in Calls : j # k /\ Running(j) /\ Running(k) => req[j].mount # req[k].mount

ShapeInv == Typed /\ CallsShaped /\ MountsApart /\ \A k \in Calls : Opened(k)

----------------------------------------------------------------------------
(* What all steps have in common.                                          *)

LEMMA NothingSent == (\A S : <<>> \in Seq(S)) /\ Len(<<>>) <= Window
  BY Part1Assumption

LEMMA NoneIsNoReply == None \notin Replies /\ None # "OK"
  BY Part1Assumption DEF Replies

LEMMA NewCallShaped ==
  /\ NewCall \in CallRecord
  /\ \A r : Shape(r, NewCall)
  BY Part1Assumption, NoneIsNoReply DEF NewCall, CallRecord, Shape, ClientShape, HandlerShape,
     StreamShape, Pcs, ServerPcs

(* What is left of a call that both ends are done with.                    *)
LEMMA SettledFields ==
  ASSUME NEW c \in CallRecord, c.pc \in {"done", "killed"}, c.spc \in {"none", "done"}
  PROVE  /\ Settled(c).pc = c.pc /\ Settled(c).spc = c.spc
         /\ Settled(c).status = c.status /\ Settled(c).map = c.map
         /\ Settled(c).up = <<>> /\ Settled(c).down = <<>> /\ Settled(c).reply = None
         /\ Settled(c) \in CallRecord
  <1>1. Settled(c) =
          [pc |-> c.pc, spc |-> c.spc, up |-> <<>>, down |-> <<>>, half |-> FALSE,
           reply |-> None, cancelled |-> FALSE, sent |-> 0, taken |-> 0, kept |-> None,
           bad |-> FALSE, fd |-> None, entry |-> None, date |-> 0, listed |-> {},
           map |-> c.map, status |-> c.status, alone |-> TRUE, lost |-> FALSE,
           due |-> {}, ever |-> {}]
    BY DEF Settled, NewCall
  <1>2. c.pc \in Pcs /\ c.spc \in ServerPcs /\ c.status \in Codes \cup {None}
        /\ c.map \in [Files -> Files \cup {None, 0}]
    BY DEF CallRecord
  <1> QED
    BY <1>1, <1>2 DEF CallRecord

LEMMA SettledShaped ==
  ASSUME NEW r, NEW c \in CallRecord, Shape(r, c)
  PROVE  Settled(c) \in CallRecord /\ Shape(r, Settled(c))
  <1>1. CASE c.pc \in {"done", "killed"} /\ c.spc \in {"none", "done"}
    <2>1. ClientShape(r, Settled(c))
      BY <1>1, SettledFields DEF Shape, ClientShape
    <2>2. HandlerShape(r, Settled(c))
      BY <1>1, SettledFields DEF Shape, HandlerShape
    <2>3. StreamShape(r, Settled(c))
      BY <1>1, NothingSent, SettledFields DEF StreamShape
    <2> QED
      BY <1>1, <2>1, <2>2, <2>3, SettledFields DEF Shape
  <1>2. CASE ~(c.pc \in {"done", "killed"} /\ c.spc \in {"none", "done"})
    BY <1>2 DEF Settled
  <1> QED
    BY <1>1, <1>2

LEMMA SetShaped ==
  ASSUME CallsShaped, NEW k \in Calls, NEW c \in CallRecord, Shape(req'[k], c), Set(k, c),
         \A j \in Calls \ {k} : req'[j] = req[j]
  PROVE  CallsShaped'
  <1>1. /\ call' \in [Calls -> CallRecord]
        /\ call'[k] = Settled(c)
        /\ \A j \in Calls \ {k} : call'[j] = call[j]
    BY SettledShaped DEF Set, CallsShaped
  <1>2. ASSUME NEW j \in Calls PROVE Shape(req'[j], call'[j])
    BY <1>1, SettledShaped DEF CallsShaped
  <1> QED
    BY <1>1, <1>2 DEF CallsShaped

(* A step of call k that makes no command start.                           *)
LEMMA StepShaped ==
  ASSUME ShapeInv, NEW k \in Calls, NEW c \in CallRecord, Shape(req[k], c), Set(k, c),
         UNCHANGED req,
         c.pc \notin {"idle", "done", "killed"} => Running(k),
         \A m \in Mounts, f \in Files : local'[m][f] \in {local[m][f]} \cup Texts,
         Opens(req[k], c) => local'[req[k].mount][req[k].file] \in Texts
  PROVE  CallsShaped' /\ MountsApart' /\ \A j \in Calls : Opened(j)'
  <1>1. /\ CallsShaped'
        /\ call'[k] = Settled(c)
        /\ \A j \in Calls \ {k} : call'[j] = call[j]
    BY SetShaped DEF ShapeInv, Set, CallsShaped
  <1>2. Settled(c).pc = c.pc
    BY SettledFields DEF Settled
  <1>3. \A j \in Calls : Running(j)' => Running(j)
    BY <1>1, <1>2 DEF Running
  <1>4. MountsApart'
    BY <1>3 DEF MountsApart, ShapeInv
  <1>5. ASSUME NEW j \in Calls, Opens(req'[j], call'[j])
        PROVE  Mine(j)' \in Texts
    <2>1. CASE j = k
      BY <1>1, <1>2, <1>5, <2>1 DEF Opens, Mine
    <2>2. CASE j # k
      <3>1. Mine(j) \in Texts
        BY <1>1, <1>5, <2>2 DEF Opened, ShapeInv
      <3>2. req[j] \in Request
        BY <1>1, <1>5, <2>2 DEF ShapeInv, CallsShaped, Shape, ClientShape, Opens
      <3> QED
        BY <3>1, <3>2 DEF Mine, Request
    <2> QED
      BY <2>1, <2>2
  <1> QED
    BY <1>1, <1>4, <1>5 DEF Opened

----------------------------------------------------------------------------
(* Field by field, what becomes of a call that sends, takes or ends.       *)
SameEnds(c, d) ==
    /\ d.pc = c.pc /\ d.status = c.status /\ d.cancelled = c.cancelled /\ d.half = c.half
    /\ d.spc = c.spc /\ d.reply = c.reply

SameTransfer(c, d) ==
    /\ d.sent = c.sent /\ d.taken = c.taken /\ d.kept = c.kept /\ d.bad = c.bad
    /\ d.fd = c.fd /\ d.alone = c.alone /\ d.lost = c.lost

SameList(c, d) ==
    /\ d.entry = c.entry /\ d.date = c.date /\ d.listed = c.listed /\ d.map = c.map
    /\ d.due = c.due /\ d.ever = c.ever

LEMMA RepliedFields ==
  ASSUME NEW c \in CallRecord, NEW r \in Replies
  PROVE  LET d == Replied(c, r) IN
         /\ d \in CallRecord
         /\ d.spc = "done" /\ d.reply = r /\ d.up = <<>>
         /\ d.pc = c.pc /\ d.status = c.status /\ d.cancelled = c.cancelled
         /\ d.half = c.half /\ d.down = c.down
         /\ SameTransfer(c, d) /\ SameList(c, d)
  <1>1. Replied(c, r) \in CallRecord
    BY NothingSent DEF Replied, CallRecord, ServerPcs
  <1> QED
    BY <1>1 DEF Replied, SameEnds, SameTransfer, SameList, CallRecord

LEMMA ReturnedFields ==
  ASSUME NEW c \in CallRecord, NEW r \in Codes
  PROVE  LET d == Returned(c, r) IN
         /\ d \in CallRecord
         /\ d.pc = "done" /\ d.status = r /\ d.cancelled = TRUE /\ d.down = <<>>
         /\ d.spc = c.spc /\ d.reply = c.reply /\ d.half = c.half /\ d.up = c.up
         /\ SameTransfer(c, d) /\ SameList(c, d)
  <1>1. Returned(c, r) \in CallRecord
    BY NothingSent DEF Returned, CallRecord, Pcs
  <1> QED
    BY <1>1 DEF Returned, SameEnds, SameTransfer, SameList, CallRecord

LEMMA SentUpFields ==
  ASSUME NEW c \in CallRecord, NEW m \in Messages
  PROVE  LET d == SentUp(c, m) IN
         /\ d \in CallRecord
         /\ d.up = IF Broken(c) THEN c.up ELSE Append(c.up, m)
         /\ d.down = c.down /\ SameEnds(c, d) /\ SameTransfer(c, d) /\ SameList(c, d)
  <1>1. CASE Broken(c)
    <2>1. SentUp(c, m) = c
      BY <1>1 DEF SentUp
    <2> QED
      BY <1>1, <2>1 DEF SameEnds, SameTransfer, SameList
  <1>2. CASE ~Broken(c)
    <2>1. Append(c.up, m) \in Seq(Messages)
      BY DEF CallRecord
    <2>2. SentUp(c, m) \in CallRecord
      BY <1>2, <2>1 DEF SentUp, CallRecord
    <2> QED
      BY <1>2, <2>2 DEF SentUp, SameEnds, SameTransfer, SameList, CallRecord
  <1> QED
    BY <1>1, <1>2

LEMMA SentDownFields ==
  ASSUME NEW c \in CallRecord, NEW m \in Messages \cup Entries
  PROVE  LET d == SentDown(c, m) IN
         /\ d \in CallRecord
         /\ d.down = IF c.cancelled THEN c.down ELSE Append(c.down, m)
         /\ d.up = c.up /\ SameEnds(c, d) /\ SameTransfer(c, d) /\ SameList(c, d)
  <1>1. CASE c.cancelled
    <2>1. SentDown(c, m) = c
      BY <1>1 DEF SentDown
    <2> QED
      BY <1>1, <2>1 DEF SameEnds, SameTransfer, SameList
  <1>2. CASE ~c.cancelled
    <2>1. Append(c.down, m) \in Seq(Messages \cup Entries)
      BY DEF CallRecord
    <2>2. SentDown(c, m) \in CallRecord
      BY <1>2, <2>1 DEF SentDown, CallRecord
    <2> QED
      BY <1>2, <2>2 DEF SentDown, SameEnds, SameTransfer, SameList, CallRecord
  <1> QED
    BY <1>1, <1>2

LEMMA TakenFields ==
  ASSUME NEW c \in CallRecord, NEW x \in Messages
  PROVE  LET d == Taken(c, x) IN
         /\ d \in CallRecord
         /\ d.taken = c.taken + 1
         /\ d.kept = IF x.small /\ ~c.bad THEN x.chunk ELSE c.kept
         /\ d.up = c.up /\ d.down = c.down /\ SameEnds(c, d) /\ SameList(c, d)
         /\ d.sent = c.sent /\ d.bad = c.bad /\ d.fd = c.fd
         /\ d.alone = c.alone /\ d.lost = c.lost
  <1> DEFINE kept == IF x.small /\ ~c.bad THEN x.chunk ELSE c.kept
  <1>1. c.taken + 1 \in Nat /\ kept \in Bytes \cup {None}
    BY DEF CallRecord, Messages
  <1>2. Taken(c, x) = [c EXCEPT !.taken = c.taken + 1, !.kept = kept]
    BY DEF Taken
  <1> HIDE DEF kept
  <1>3. /\ [c EXCEPT !.taken = c.taken + 1, !.kept = kept] \in CallRecord
        /\ [c EXCEPT !.taken = c.taken + 1, !.kept = kept].kept = kept
        /\ [c EXCEPT !.taken = c.taken + 1, !.kept = kept].taken = c.taken + 1
    BY <1>1 DEF CallRecord
  <1>4. SameEnds(c, Taken(c, x)) /\ SameList(c, Taken(c, x))
    BY <1>2 DEF SameEnds, SameList, CallRecord
  <1>5. LET d == Taken(c, x) IN
         /\ d.up = c.up /\ d.down = c.down
         /\ d.sent = c.sent /\ d.bad = c.bad /\ d.fd = c.fd
         /\ d.alone = c.alone /\ d.lost = c.lost
    BY <1>2 DEF CallRecord
  <1> QED
    BY <1>2, <1>3, <1>4, <1>5 DEF kept

LEMMA MessagesSent ==
  /\ Header \in Messages
  /\ \A s \in Texts : \A i \in 1 .. Len(s) : Message(s, i) \in Messages
  <1> SUFFICES ASSUME NEW s \in Texts, NEW i \in 1 .. Len(s) PROVE Message(s, i) \in Messages
    BY DEF Header, Messages
  <1>1. s[i] \in Bytes \cup {None}
    BY DEF Texts
  <1> QED
    BY <1>1 DEF Message, Messages

(* A handler or a command that ends fits its call.                         *)
LEMMA RepliedShaped ==
  ASSUME NEW r, NEW c \in CallRecord, Shape(r, c), c.spc # "none", NEW x \in Replies
  PROVE  Replied(c, x) \in CallRecord /\ Shape(r, Replied(c, x))
  <1>1. c.pc # "idle"
    BY DEF Shape, ClientShape, NewCall
  <1> DEFINE d == Replied(c, x)
  <1>2. /\ d \in CallRecord
        /\ d.spc = "done" /\ d.up = <<>> /\ d.pc = c.pc /\ d.status = c.status /\ d.down = c.down
    BY RepliedFields
  <1> HIDE DEF d
  <1>3. Shape(r, d)
    BY <1>1, <1>2, NothingSent DEF Shape, ClientShape, HandlerShape, StreamShape
  <1> QED
    BY <1>2, <1>3 DEF d

LEMMA ReturnedShaped ==
  ASSUME NEW r, NEW c \in CallRecord, Shape(r, c), c.pc # "idle", NEW x \in Codes
  PROVE  Returned(c, x) \in CallRecord /\ Shape(r, Returned(c, x))
  <1> DEFINE d == Returned(c, x)
  <1>2. /\ d \in CallRecord
        /\ d.pc = "done" /\ d.down = <<>> /\ d.up = c.up /\ d.spc = c.spc /\ d.reply = c.reply
        /\ d.fd = c.fd /\ d.entry = c.entry
    BY ReturnedFields DEF SameTransfer, SameList
  <1> HIDE DEF d
  <1>3. Shape(r, d)
    BY <1>2, NothingSent DEF Shape, ClientShape, HandlerShape, StreamShape
  <1> QED
    BY <1>2, <1>3 DEF d

LEMMA ReplyShaped ==
  ASSUME ShapeInv, NEW k \in Calls, call[k].spc # "none",
         NEW x \in Replies, Set(k, Replied(call[k], x)), UNCHANGED <<local, req>>
  PROVE  CallsShaped' /\ MountsApart' /\ \A j \in Calls : Opened(j)'
  <1>1. call[k] \in CallRecord /\ Shape(req[k], call[k])
    BY DEF ShapeInv, CallsShaped
  <1> DEFINE c == Replied(call[k], x)
  <1>2. c \in CallRecord /\ Shape(req[k], c) /\ c.pc = call[k].pc
    BY <1>1, RepliedShaped, RepliedFields
  <1> HIDE DEF c
  <1>3. Opens(req[k], c) => local'[req[k].mount][req[k].file] \in Texts
    BY <1>2 DEF ShapeInv, Opened, Opens, Mine
  <1>4. Set(k, c)
    BY DEF c
  <1>5. c.pc \notin {"idle", "done", "killed"} => Running(k)
    BY <1>2 DEF Running
  <1> QED
    BY <1>2, <1>3, <1>4, <1>5, StepShaped

----------------------------------------------------------------------------
LEMMA StartShaped ==
  ASSUME ShapeInv, NEW k \in Calls, Start(k)
  PROVE  ShapeInv'
  <1>1. PICK r \in Request :
          /\ \A j \in Calls : Running(j) => req[j].mount # r.mount
          /\ req' = [req EXCEPT ![k] = r]
          /\ IF r.op = "store" /\ local[r.mount][r.file] = None
             THEN Set(k, Returned(call[k], "NOT_FOUND"))
             ELSE Set(k, [call[k] EXCEPT
                      !.spc = "start",
                      !.pc = CASE r.op = "store" -> "header"
                               [] r.op = "fetch" -> "open"
                               [] r.op = "list" -> "receive"
                               [] OTHER -> "finish"])
    BY DEF Start
  <1>2. call[k] = NewCall /\ call[k] \in CallRecord
    BY DEF Start, ShapeInv, CallsShaped, Shape, ClientShape
  <1>3. Typed'
    BY <1>1 DEF Start, ShapeInv, Typed
  <1>4. req'[k] = r /\ \A j \in Calls \ {k} : req'[j] = req[j]
    BY <1>1 DEF ShapeInv, Typed
  <1>5. PICK c \in CallRecord :
          /\ Set(k, c) /\ Shape(r, c)
          /\ c.pc \in {"header", "send", "first"} => local[r.mount][r.file] # None
          /\ ~(c.pc = "receive" /\ r.op = "fetch")
    <2>1. CASE r.op = "store" /\ local[r.mount][r.file] = None
      <3> DEFINE c == Returned(call[k], "NOT_FOUND")
      <3>1. c \in CallRecord /\ c.pc = "done" /\ c.spc = "none" /\ c.reply = None
            /\ c.up = <<>> /\ c.down = <<>>
        <4>1. c \in CallRecord
          BY <1>2, NothingSent DEF Returned, CallRecord, Pcs, Codes, Replies
        <4> QED
          BY <1>2, <4>1 DEF Returned, NewCall
      <3>2. Shape(r, c)
        BY <3>1, NothingSent DEF Shape, ClientShape, HandlerShape, StreamShape
      <3> QED
        BY <1>1, <2>1, <3>1, <3>2
    <2>2. CASE ~(r.op = "store" /\ local[r.mount][r.file] = None)
      <3> DEFINE pc == CASE r.op = "store" -> "header"
                         [] r.op = "fetch" -> "open"
                         [] r.op = "list" -> "receive"
                         [] OTHER -> "finish"
                 c == [call[k] EXCEPT !.spc = "start", !.pc = pc]
      <3>1. pc \in {"header", "open", "receive", "finish"}
            /\ (pc = "header" <=> r.op = "store") /\ (pc = "open" <=> r.op = "fetch")
            /\ (pc = "receive" <=> r.op = "list")
        OBVIOUS
      <3> HIDE DEF pc
      <3>2. c \in CallRecord /\ c.pc = pc /\ c.spc = "start" /\ c.reply = None
            /\ c.up = <<>> /\ c.down = <<>> /\ c.status = None
        <4>1. c \in CallRecord
          BY <1>2, <3>1 DEF CallRecord, Pcs, ServerPcs
        <4> QED
          BY <1>2, <4>1 DEF NewCall
      <3>3. Shape(r, c)
        BY <3>1, <3>2, NothingSent, NoneIsNoReply
           DEF Shape, ClientShape, HandlerShape, StreamShape
      <3>4. Set(k, c)
        BY <1>1, <2>2 DEF pc
      <3> QED
        BY <2>2, <3>1, <3>2, <3>3, <3>4
    <2> QED
      BY <2>1, <2>2
  <1>6. /\ CallsShaped'
        /\ call'[k] = Settled(c) /\ Settled(c).pc = c.pc
        /\ \A j \in Calls \ {k} : call'[j] = call[j]
    BY <1>4, <1>5, SetShaped, SettledFields DEF ShapeInv, Set, CallsShaped, Settled
  <1>7. MountsApart'
    <2> SUFFICES ASSUME NEW i \in Calls, NEW j \in Calls, i # j, Running(i)', Running(j)'
                 PROVE  req'[i].mount # req'[j].mount
      BY DEF MountsApart
    <2>1. \A h \in Calls \ {k} : Running(h)' <=> Running(h)
      BY <1>6 DEF Running
    <2> QED
      BY <1>1, <1>4, <2>1 DEF MountsApart, ShapeInv
  <1>8. ASSUME NEW j \in Calls PROVE Opened(j)'
    <2>1. CASE j = k
      BY <1>4, <1>5, <1>6, <2>1 DEF Opened, Opens, Mine, Start, ShapeInv, Typed, Request
    <2>2. CASE j # k
      BY <1>4, <1>6, <2>2 DEF Opened, Opens, Mine, Start, ShapeInv
    <2> QED
      BY <2>1, <2>2
  <1> QED
    BY <1>3, <1>6, <1>7, <1>8 DEF ShapeInv

----------------------------------------------------------------------------
(* What a step of call k on file f leaves of call j.                       *)
Touched(j, k, f) == Running(j) /\ j # k /\ req[j].file = f

SameButWitness(c, d) ==
    /\ d.up = c.up /\ d.down = c.down /\ SameEnds(c, d)
    /\ d.sent = c.sent /\ d.taken = c.taken /\ d.kept = c.kept /\ d.bad = c.bad
    /\ d.fd = c.fd /\ d.lost = c.lost
    /\ d.entry = c.entry /\ d.date = c.date /\ d.listed = c.listed /\ d.map = c.map

Witness(j, k, f, there) ==
    LET c == call[j]
        d == Witnessed(k, f, there)[j]
    IN  /\ d \in CallRecord
        /\ SameButWitness(c, d)
        /\ Listing(c) => /\ d.alone = c.alone
                         /\ d.due = IF there THEN c.due ELSE c.due \ {f}
                         /\ d.ever = IF there THEN c.ever \cup {f} ELSE c.ever
        /\ ~Listing(c) => /\ d.due = c.due /\ d.ever = c.ever
                          /\ d.alone = (c.alone /\ ~Touched(j, k, f))
        /\ ~Listing(c) /\ ~Touched(j, k, f) => d = c

LEMMA WitnessedFields ==
  ASSUME CallsShaped, NEW k \in Calls, NEW f \in Files, NEW there \in BOOLEAN, NEW j \in Calls
  PROVE  Witness(j, k, f, there)
  <1> DEFINE c == call[j]
             d == Witnessed(k, f, there)[j]
  <1>1. c \in CallRecord
    BY DEF CallsShaped
  <1>2. CASE Listing(c)
    <2> DEFINE due == IF there THEN c.due ELSE c.due \ {f}
               ever == IF there THEN c.ever \cup {f} ELSE c.ever
    <2>1. d = [c EXCEPT !.due = due, !.ever = ever]
      BY <1>2 DEF Witnessed
    <2>2. due \in SUBSET Files /\ ever \in SUBSET Files
      BY <1>1 DEF CallRecord
    <2> HIDE DEF due, ever, d, c
    <2>3. d \in CallRecord /\ d.due = due /\ d.ever = ever
      BY <1>1, <2>1, <2>2 DEF CallRecord
    <2>4. /\ d.up = c.up /\ d.down = c.down /\ SameEnds(c, d)
          /\ d.sent = c.sent /\ d.taken = c.taken /\ d.kept = c.kept /\ d.bad = c.bad
          /\ d.fd = c.fd /\ d.lost = c.lost /\ d.alone = c.alone
          /\ d.entry = c.entry /\ d.date = c.date /\ d.listed = c.listed /\ d.map = c.map
      BY <1>1, <2>1 DEF CallRecord, SameEnds
    <2> QED
      BY <1>2, <2>3, <2>4 DEF due, ever, c, d, Witness, SameButWitness
  <1>3. CASE ~Listing(c) /\ Touched(j, k, f)
    <2>1. d = [c EXCEPT !.alone = FALSE]
      BY <1>3 DEF Witnessed, Touched
    <2> HIDE DEF c, d
    <2>2. d \in CallRecord /\ d.alone = FALSE
      BY <1>1, <2>1 DEF CallRecord
    <2>3. /\ d.up = c.up /\ d.down = c.down /\ SameEnds(c, d) /\ SameList(c, d)
          /\ d.sent = c.sent /\ d.taken = c.taken /\ d.kept = c.kept /\ d.bad = c.bad
          /\ d.fd = c.fd /\ d.lost = c.lost
      BY <1>1, <2>1 DEF CallRecord, SameEnds, SameList
    <2> QED
      BY <1>3, <2>2, <2>3 DEF SameList, c, d, Witness, SameButWitness
  <1>4. CASE ~Listing(c) /\ ~Touched(j, k, f)
    <2>1. d = c
      BY <1>4 DEF Witnessed, Touched
    <2>2. c.alone \in BOOLEAN
      BY <1>1 DEF CallRecord
    <2> QED
      BY <1>1, <1>4, <2>1, <2>2 DEF SameEnds, Witness, SameButWitness
  <1> QED
    BY <1>2, <1>3, <1>4

LEMMA WitnessShaped ==
  ASSUME ShapeInv, NEW k \in Calls, NEW f \in Files, NEW there \in BOOLEAN,
         ~Listing(call[k]), NEW c \in CallRecord, Shape(req[k], c), c.pc = call[k].pc,
         call' = [Witnessed(k, f, there) EXCEPT ![k] = c], UNCHANGED <<local, req>>
  PROVE  CallsShaped' /\ MountsApart' /\ \A j \in Calls : Opened(j)'
  <1>1. call'[k] = c /\ \A j \in Calls \ {k} : call'[j] = Witnessed(k, f, there)[j]
    BY DEF Witnessed
  <1>2. DOMAIN call' = Calls /\ call' = [j \in Calls |-> call'[j]]
    BY DEF Witnessed
  <1>3. ASSUME NEW j \in Calls
        PROVE  call'[j] \in CallRecord /\ Shape(req'[j], call'[j]) /\ call'[j].pc = call[j].pc
    <2>1. CASE j = k
      BY <1>1, <2>1
    <2>2. CASE j # k
      <3> DEFINE d == Witnessed(k, f, there)[j]
      <3>0. CallsShaped
        BY DEF ShapeInv
      <3>1. Witness(j, k, f, there)
        BY <3>0, WitnessedFields
      <3>2. call[j].pc = "idle" => d = call[j]
        <4>1. call[j].pc = "idle" => call[j].spc = "none"
          BY DEF ShapeInv, CallsShaped, Shape, ClientShape, NewCall
        <4> QED
          BY <3>1, <4>1 DEF Witness, Listing, Touched, Running
      <3>5. call'[j] = d
        BY <1>1, <2>2
      <3>3. Shape(req[j], call[j])
        BY DEF ShapeInv, CallsShaped
      <3>6. d \in CallRecord /\ SameButWitness(call[j], d)
        BY <3>1 DEF Witness
      <3> HIDE DEF d
      <3>4. Shape(req[j], d)
        BY <3>2, <3>3, <3>6
           DEF Shape, ClientShape, HandlerShape, StreamShape, SameButWitness, SameEnds
      <3> QED
        BY <3>4, <3>5, <3>6 DEF SameButWitness, SameEnds
    <2> QED
      BY <2>1, <2>2
  <1>4. CallsShaped'
    BY <1>2, <1>3 DEF CallsShaped
  <1>5. \A j \in Calls : Running(j)' = Running(j)
    BY <1>3 DEF Running
  <1>6. MountsApart'
    BY <1>5 DEF MountsApart, ShapeInv
  <1>7. \A j \in Calls : Opened(j)'
    BY <1>3 DEF Opened, Opens, Mine, ShapeInv
  <1> QED
    BY <1>4, <1>6, <1>7

----------------------------------------------------------------------------
(* The client's steps.                                                     *)

(* A file that a step writes stays a sequence.                             *)
LEMMA WriteAtTyped ==
  ASSUME NEW B, Hole \in B, NEW s \in Seq(B), NEW i \in Nat, NEW x \in B
  PROVE  WriteAt(s, i, x) \in Seq(B)
  <1> DEFINE n == IF i > Len(s) THEN i ELSE Len(s)
             e(j) == IF j = i THEN x ELSE IF j <= Len(s) THEN s[j] ELSE Hole
  <1>1. n \in Nat
    OBVIOUS
  <1>2. \A j \in 1 .. n : e(j) \in B
    OBVIOUS
  <1>3. WriteAt(s, i, x) \in [1 .. n -> B]
    BY <1>2 DEF WriteAt
  <1> HIDE DEF n
  <1>4. \A m \in Nat : [1 .. m -> B] \subseteq Seq(B)
    BY SeqDef
  <1> QED
    BY <1>1, <1>3, <1>4

LEMMA HoleIsText == Hole \in Bytes \cup {None} /\ <<>> \in Texts
  BY DEF Bytes, Texts

LEMMA StoreHeaderShaped ==
  ASSUME ShapeInv, NEW k \in Calls, StoreHeader(k)
  PROVE  ShapeInv'
  <1> DEFINE d == SentUp(call[k], Header)
             c == [d EXCEPT !.pc = "send"]
  <1>1. call[k] \in CallRecord /\ Shape(req[k], call[k])
    BY DEF ShapeInv, CallsShaped
  <1>2. /\ call[k].pc = "header" /\ req[k].op = "store" /\ RoomUp(call[k])
        /\ Set(k, c) /\ UNCHANGED <<dir, data, local, req, crashes>>
    BY DEF StoreHeader, At
  <1>3. /\ d \in CallRecord
        /\ d.up = IF Broken(call[k]) THEN call[k].up ELSE Append(call[k].up, Header)
        /\ d.down = call[k].down /\ d.spc = call[k].spc /\ d.reply = call[k].reply
        /\ d.status = call[k].status /\ d.fd = call[k].fd /\ d.entry = call[k].entry
    BY <1>1, SentUpFields, MessagesSent DEF SameEnds, SameTransfer, SameList
  <1> HIDE DEF d
  <1>4. /\ c \in CallRecord /\ c.pc = "send" /\ c.up = d.up /\ c.down = d.down
        /\ c.spc = d.spc /\ c.reply = d.reply /\ c.status = d.status /\ c.fd = d.fd
        /\ c.entry = d.entry
    BY <1>3 DEF CallRecord, Pcs
  <1>5. Len(c.up) <= Window
    BY <1>1, <1>2, <1>3, <1>4, Part1Assumption DEF RoomUp, Shape, StreamShape, CallRecord
  <1> HIDE DEF c
  <1>6. Shape(req[k], c)
    BY <1>1, <1>2, <1>3, <1>4, <1>5 DEF Shape, ClientShape, HandlerShape, StreamShape
  <1>7. Mine(k) \in Texts
    BY <1>2 DEF ShapeInv, Opened, Opens
  <1> QED
    BY <1>2, <1>4, <1>6, <1>7, StepShaped DEF ShapeInv, Typed, Running, Mine

LEMMA StoreChunkShaped ==
  ASSUME ShapeInv, NEW k \in Calls, StoreChunk(k)
  PROVE  ShapeInv'
  <1> DEFINE i == call[k].sent + 1
             x == Message(Mine(k), i)
             d == SentUp(call[k], x)
             c == [d EXCEPT !.sent = i]
  <1>1. call[k] \in CallRecord /\ Shape(req[k], call[k])
    BY DEF ShapeInv, CallsShaped
  <1>2. /\ call[k].pc = "send" /\ req[k].op = "store" /\ RoomUp(call[k]) /\ i <= Len(Mine(k))
        /\ Set(k, c) /\ UNCHANGED <<dir, data, local, req, crashes>>
    BY DEF StoreChunk, At
  <1>3. Mine(k) \in Texts
    BY <1>2 DEF ShapeInv, Opened, Opens
  <1>4. i \in Nat /\ i \in 1 .. Len(Mine(k)) /\ x \in Messages
    BY <1>1, <1>2, <1>3, MessagesSent DEF CallRecord, Texts
  <1> HIDE DEF x, i
  <1>5. /\ d \in CallRecord
        /\ d.up = IF Broken(call[k]) THEN call[k].up ELSE Append(call[k].up, x)
        /\ d.down = call[k].down /\ d.spc = call[k].spc /\ d.reply = call[k].reply
        /\ d.status = call[k].status /\ d.fd = call[k].fd /\ d.entry = call[k].entry
        /\ d.pc = call[k].pc
    BY <1>1, <1>4, SentUpFields DEF SameEnds, SameTransfer, SameList
  <1> HIDE DEF d
  <1>6. /\ c \in CallRecord /\ c.pc = d.pc /\ c.up = d.up /\ c.down = d.down
        /\ c.spc = d.spc /\ c.reply = d.reply /\ c.status = d.status /\ c.fd = d.fd
        /\ c.entry = d.entry
    BY <1>4, <1>5 DEF CallRecord
  <1>7. Len(c.up) <= Window
    BY <1>1, <1>2, <1>5, <1>6, Part1Assumption DEF RoomUp, Shape, StreamShape, CallRecord
  <1> HIDE DEF c
  <1>8. Shape(req[k], c)
    BY <1>1, <1>2, <1>5, <1>6, <1>7 DEF Shape, ClientShape, HandlerShape, StreamShape
  <1> QED
    BY <1>2, <1>3, <1>5, <1>6, <1>8, StepShaped DEF ShapeInv, Typed, Running, Mine

LEMMA StoreDoneShaped ==
  ASSUME ShapeInv, NEW k \in Calls, StoreDone(k)
  PROVE  ShapeInv'
  <1> DEFINE c == [call[k] EXCEPT !.half = TRUE, !.pc = "finish"]
  <1>1. call[k] \in CallRecord /\ Shape(req[k], call[k])
    BY DEF ShapeInv, CallsShaped
  <1>2. /\ call[k].pc = "send" /\ Set(k, c) /\ UNCHANGED <<dir, data, local, req, crashes>>
    BY DEF StoreDone, At
  <1>3. /\ c \in CallRecord /\ c.pc = "finish" /\ c.up = call[k].up /\ c.down = call[k].down
        /\ c.spc = call[k].spc /\ c.reply = call[k].reply /\ c.status = call[k].status
        /\ c.fd = call[k].fd /\ c.entry = call[k].entry
    BY <1>1 DEF CallRecord, Pcs
  <1> HIDE DEF c
  <1>4. Shape(req[k], c)
    BY <1>1, <1>2, <1>3 DEF Shape, ClientShape, HandlerShape, StreamShape
  <1> QED
    BY <1>2, <1>3, <1>4, StepShaped DEF ShapeInv, Typed, Running, Opens

LEMMA FetchOpenShaped ==
  ASSUME ShapeInv, NEW k \in Calls, FetchOpen(k)
  PROVE  ShapeInv'
  <1>1. /\ call[k] \in CallRecord /\ Shape(req[k], call[k])
        /\ call[k].pc = "open" /\ req[k].op = "fetch" /\ UNCHANGED <<dir, data, req, crashes>>
    BY DEF ShapeInv, CallsShaped, FetchOpen, At
  <1>2. req[k] \in Request
    BY <1>1 DEF Shape, ClientShape
  <1>3. PICK pc \in {"first", "first_unopened"} :
          /\ Set(k, [call[k] EXCEPT !.pc = pc])
          /\ local' = IF pc = "first" THEN [local EXCEPT ![req[k].mount][req[k].file] = <<>>]
                                      ELSE local
    BY DEF FetchOpen
  <1> DEFINE c == [call[k] EXCEPT !.pc = pc]
  <1>4. /\ c \in CallRecord /\ c.pc = pc /\ c.up = call[k].up /\ c.down = call[k].down
        /\ c.spc = call[k].spc /\ c.reply = call[k].reply /\ c.status = call[k].status
        /\ c.fd = call[k].fd /\ c.entry = call[k].entry
    BY <1>1 DEF CallRecord, Pcs
  <1>5. Set(k, c)
    BY <1>3
  <1> HIDE DEF c
  <1>6. Shape(req[k], c)
    BY <1>1, <1>2, <1>3, <1>4 DEF Shape, ClientShape, HandlerShape, StreamShape
  <1>7. /\ Typed'
        /\ \A m \in Mounts, f \in Files : local'[m][f] \in {local[m][f]} \cup Texts
        /\ pc = "first" => local'[req[k].mount][req[k].file] \in Texts
    BY <1>1, <1>2, <1>3, HoleIsText DEF ShapeInv, Typed, Request
  <1> QED
    BY <1>1, <1>3, <1>4, <1>5, <1>6, <1>7, StepShaped DEF ShapeInv, Running, Opens

LEMMA FetchFirstShaped ==
  ASSUME ShapeInv, NEW k \in Calls, FetchFirst(k)
  PROVE  ShapeInv'
  <1>1. /\ call[k] \in CallRecord /\ Shape(req[k], call[k])
        /\ call[k].pc = "first" /\ req[k].op = "fetch"
        /\ UNCHANGED <<dir, data, local, req, crashes>>
    BY DEF ShapeInv, CallsShaped, FetchFirst, At
  <1>2. PICK down \in Seq(Messages) :
          /\ Set(k, [call[k] EXCEPT !.down = down, !.pc = "receive"])
          /\ Len(down) <= Window /\ (call[k].down = <<>> => down = <<>>)
    <2>1. call[k].down \in Seq(Messages) /\ Len(call[k].down) <= Window
      BY <1>1 DEF Shape, StreamShape
    <2>2. CASE call[k].down # <<>> /\ Set(k, [call[k] EXCEPT !.down = Tail(@), !.pc = "receive"])
      <3>1. Tail(call[k].down) \in Seq(Messages) /\ Len(Tail(call[k].down)) <= Window
        BY <2>1, <2>2, Part1Assumption
      <3> QED
        BY <2>2, <3>1
    <2>3. CASE Set(k, [call[k] EXCEPT !.down = <<>>, !.pc = "receive"])
      BY <2>3, NothingSent
    <2> QED
      BY <2>2, <2>3 DEF FetchFirst
  <1> DEFINE c == [call[k] EXCEPT !.down = down, !.pc = "receive"]
  <1>3. down \in Seq(Messages \cup Entries)
    OBVIOUS
  <1>4. /\ c \in CallRecord /\ c.pc = "receive" /\ c.up = call[k].up /\ c.down = down
        /\ c.spc = call[k].spc /\ c.reply = call[k].reply /\ c.status = call[k].status
        /\ c.fd = call[k].fd /\ c.entry = call[k].entry
    BY <1>1, <1>3 DEF CallRecord, Pcs
  <1>5. Set(k, c)
    BY <1>2
  <1> HIDE DEF c
  <1>6. Shape(req[k], c)
    BY <1>1, <1>2, <1>4 DEF Shape, ClientShape, HandlerShape, StreamShape
  <1>7. Mine(k) \in Texts
    BY <1>1 DEF ShapeInv, Opened, Opens
  <1> QED
    BY <1>1, <1>4, <1>5, <1>6, <1>7, StepShaped DEF ShapeInv, Typed, Running, Mine

LEMMA WritesTyped ==
  ASSUME NEW c \in CallRecord, NEW s \in Texts
  PROVE  /\ \A x \in Messages : Written(c, x, s) \in Texts
         /\ Flushed(c, s) \in Texts
  <1>1. c.taken \in Nat /\ c.taken + 1 \in Nat /\ c.kept \in Bytes \cup {None}
    BY DEF CallRecord
  <1>2. Flushed(c, s) \in Texts
    BY <1>1, WriteAtTyped, HoleIsText DEF Flushed, Texts
  <1>3. ASSUME NEW x \in Messages PROVE Written(c, x, s) \in Texts
    <2>1. x.chunk \in Bytes \cup {None}
      BY DEF Messages
    <2>2. WriteAt(s, c.taken + 1, x.chunk) \in Texts
      BY <1>1, <2>1, WriteAtTyped, HoleIsText DEF Texts
    <2> QED
      BY <2>2 DEF Written
  <1> QED
    BY <1>2, <1>3

(* A client writes its file.                                               *)
LEMMA MineWritten ==
  ASSUME Typed, NEW k \in Calls, req[k] \in Request, NEW s \in Texts,
         local' = [local EXCEPT ![req[k].mount][req[k].file] = s],
         UNCHANGED <<dir, data, req, crashes>>
  PROVE  /\ Typed'
         /\ \A m \in Mounts, f \in Files : local'[m][f] \in {local[m][f]} \cup Texts
         /\ local'[req[k].mount][req[k].file] = s
         /\ \A m \in Mounts, f \in Files :
               m # req[k].mount \/ f # req[k].file => local'[m][f] = local[m][f]
  <1>1. /\ req[k].mount \in Mounts /\ req[k].file \in Files
        /\ local \in [Mounts -> [Files -> Texts \cup {None}]]
    BY DEF Request, Typed
  <1>2. local' \in [Mounts -> [Files -> Texts \cup {None}]]
    BY <1>1
  <1>3. /\ local'[req[k].mount][req[k].file] = s
        /\ \A m \in Mounts, f \in Files :
               m # req[k].mount \/ f # req[k].file => local'[m][f] = local[m][f]
    BY <1>1
  <1> QED
    BY <1>1, <1>2, <1>3 DEF Typed

LEMMA FetchUnopenedShaped ==
  ASSUME ShapeInv, NEW k \in Calls, FetchUnopened(k)
  PROVE  ShapeInv'
  <1>1. /\ call[k] \in CallRecord /\ Shape(req[k], call[k]) /\ call[k].pc # "idle"
        /\ Set(k, Returned(call[k], "CANCELLED")) /\ UNCHANGED <<dir, data, local, req, crashes>>
    BY DEF ShapeInv, CallsShaped, FetchUnopened, At
  <1> DEFINE c == Returned(call[k], "CANCELLED")
  <1>2. c \in CallRecord /\ Shape(req[k], c) /\ c.pc = "done"
    BY <1>1, ReturnedShaped, ReturnedFields DEF Codes
  <1> HIDE DEF c
  <1>3. Set(k, c)
    BY <1>1 DEF c
  <1> QED
    BY <1>1, <1>2, <1>3, StepShaped DEF ShapeInv, Typed, Opens

(* The head of a stream and what follows it.                               *)
LEMMA HeadTaken ==
  ASSUME NEW S, NEW q \in Seq(S), q # <<>>
  PROVE  /\ Head(q) \in S /\ Head(q) = q[1] /\ Tail(q) \in Seq(S)
         /\ Len(Tail(q)) = Len(q) - 1
         /\ \A i \in 1 .. Len(q) - 1 : Tail(q)[i] = q[i + 1]
  OBVIOUS

LEMMA FetchChunkShaped ==
  ASSUME ShapeInv, NEW k \in Calls, FetchChunk(k)
  PROVE  ShapeInv'
  <1> DEFINE x == Head(call[k].down)
             d == Taken(call[k], x)
             down == Tail(call[k].down)
  <1>1. /\ call[k] \in CallRecord /\ Shape(req[k], call[k])
        /\ call[k].pc = "receive" /\ req[k].op = "fetch" /\ call[k].down # <<>>
        /\ UNCHANGED <<dir, data, req, crashes>>
    BY DEF ShapeInv, CallsShaped, FetchChunk, At
  <1>2. req[k] \in Request /\ call[k].down \in Seq(Messages)
    BY <1>1 DEF Shape, ClientShape, StreamShape
  <1>3. /\ x \in Messages /\ down \in Seq(Messages) /\ down \in Seq(Messages \cup Entries)
        /\ Len(down) <= Len(call[k].down)
    BY <1>1, <1>2, HeadTaken
  <1>4. PICK bad \in BOOLEAN :
          /\ Set(k, IF bad = call[k].bad THEN [d EXCEPT !.down = down]
                    ELSE [[d EXCEPT !.down = down] EXCEPT !.bad = TRUE])
          /\ \/ local' = [local EXCEPT ![req[k].mount][req[k].file] = Written(call[k], x, @)]
             \/ UNCHANGED local
    <2>1. d.down = call[k].down
      BY <1>1, <1>3, TakenFields
    <2>2. call[k].bad \in BOOLEAN
      BY <1>1 DEF CallRecord
    <2>3. CASE /\ Set(k, [d EXCEPT !.down = Tail(@)])
               /\ local' = [local EXCEPT ![req[k].mount][req[k].file] = Written(call[k], x, @)]
      BY <2>1, <2>2, <2>3
    <2>4. CASE /\ ~call[k].bad
               /\ Set(k, [[d EXCEPT !.down = Tail(@)] EXCEPT !.bad = TRUE])
               /\ UNCHANGED local
      BY <2>1, <2>2, <2>4
    <2> QED
      BY <2>3, <2>4 DEF FetchChunk
  <1> DEFINE r == [d EXCEPT !.down = down]
             c == IF bad = call[k].bad THEN r ELSE [r EXCEPT !.bad = TRUE]
  <1>5. /\ d \in CallRecord /\ SameEnds(call[k], d)
        /\ d.up = call[k].up /\ d.fd = call[k].fd /\ d.entry = call[k].entry
    BY <1>1, <1>3, TakenFields DEF SameList
  <1> HIDE DEF d, down, x
  <1>6. /\ r \in CallRecord /\ r.pc = d.pc /\ r.spc = d.spc /\ r.reply = d.reply
        /\ r.status = d.status /\ r.up = d.up /\ r.down = down /\ r.fd = d.fd
        /\ r.entry = d.entry
    BY <1>3, <1>5 DEF CallRecord
  <1> HIDE DEF r
  <1>7. /\ c \in CallRecord /\ c.pc = r.pc /\ c.spc = r.spc /\ c.reply = r.reply
        /\ c.status = r.status /\ c.up = r.up /\ c.down = r.down /\ c.fd = r.fd
        /\ c.entry = r.entry
    <2>1. CASE bad = call[k].bad
      BY <1>6, <2>1
    <2>2. CASE bad # call[k].bad
      <3>1. c = [r EXCEPT !.bad = TRUE]
        BY <2>2
      <3> HIDE DEF c
      <3> QED
        BY <1>6, <3>1 DEF CallRecord
    <2> QED
      BY <2>1, <2>2
  <1>8. Set(k, c)
    BY <1>4 DEF r
  <1> HIDE DEF c
  <1>9. Shape(req[k], c)
    BY <1>1, <1>3, <1>5, <1>6, <1>7, Part1Assumption
       DEF Shape, ClientShape, HandlerShape, StreamShape, SameEnds
  <1>10. Mine(k) \in Texts /\ Written(call[k], x, Mine(k)) \in Texts
    BY <1>1, <1>3, WritesTyped DEF ShapeInv, Opened, Opens
  <1>11. /\ Typed'
         /\ \A m \in Mounts, f \in Files : local'[m][f] \in {local[m][f]} \cup Texts
         /\ local'[req[k].mount][req[k].file] \in Texts
    <2>1. CASE UNCHANGED local
      BY <1>1, <1>10, <2>1 DEF ShapeInv, Typed, Mine
    <2>2. CASE local' = [local EXCEPT ![req[k].mount][req[k].file] = Written(call[k], x, Mine(k))]
      <3>1. PICK s \in Texts : local' = [local EXCEPT ![req[k].mount][req[k].file] = s]
        BY <1>10, <2>2
      <3>2. Typed
        BY DEF ShapeInv
      <3> QED
        <4>1. UNCHANGED <<dir, data, req, crashes>>
          BY <1>1
        <4>2. /\ Typed'
              /\ \A m \in Mounts, f \in Files : local'[m][f] \in {local[m][f]} \cup Texts
              /\ local'[req[k].mount][req[k].file] = s
          BY <1>2, <3>1, <3>2, <4>1, MineWritten
        <4> QED
          BY <4>2, <3>1
    <2> QED
      BY <1>4, <2>1, <2>2 DEF Mine
  <1> QED
    BY <1>1, <1>5, <1>6, <1>7, <1>8, <1>9, <1>11, StepShaped DEF ShapeInv, Running, SameEnds

LEMMA FetchEndShaped ==
  ASSUME ShapeInv, NEW k \in Calls, FetchEnd(k)
  PROVE  ShapeInv'
  <1>1. /\ call[k] \in CallRecord /\ Shape(req[k], call[k])
        /\ call[k].pc = "receive" /\ req[k].op = "fetch" /\ UNCHANGED <<dir, data, req, crashes>>
    BY DEF ShapeInv, CallsShaped, FetchEnd, At
  <1>2. req[k] \in Request
    BY <1>1 DEF Shape, ClientShape
  <1>3. Mine(k) \in Texts /\ Flushed(call[k], Mine(k)) \in Texts
    BY <1>1, WritesTyped DEF ShapeInv, Opened, Opens
  <1>4. /\ Typed'
        /\ \A m \in Mounts, f \in Files : local'[m][f] \in {local[m][f]} \cup Texts
    <2>1. CASE UNCHANGED local
      BY <1>1, <2>1 DEF ShapeInv, Typed
    <2>2. CASE local' = [local EXCEPT ![req[k].mount][req[k].file] = Flushed(call[k], Mine(k))]
      BY <1>1, <1>2, <1>3, <2>2, MineWritten DEF ShapeInv
    <2> QED
      BY <2>1, <2>2 DEF FetchEnd, Mine
  <1>5. PICK c \in CallRecord : Set(k, c) /\ Shape(req[k], c) /\ c.pc \in {"done", "finish"}
    <2>1. CASE Set(k, Returned(call[k], "CANCELLED"))
      <3> DEFINE c == Returned(call[k], "CANCELLED")
      <3>1. c \in CallRecord /\ Shape(req[k], c) /\ c.pc = "done"
        BY <1>1, ReturnedShaped, ReturnedFields DEF Codes
      <3> QED
        BY <2>1, <3>1
    <2>2. CASE \E lost \in BOOLEAN :
                 Set(k, IF lost THEN [call[k] EXCEPT !.pc = "finish", !.lost = TRUE]
                                ELSE [call[k] EXCEPT !.pc = "finish"])
      <3>1. PICK lost \in BOOLEAN :
                 Set(k, IF lost THEN [call[k] EXCEPT !.pc = "finish", !.lost = TRUE]
                                ELSE [call[k] EXCEPT !.pc = "finish"])
        BY <2>2
      <3> DEFINE c == IF lost THEN [call[k] EXCEPT !.pc = "finish", !.lost = TRUE]
                              ELSE [call[k] EXCEPT !.pc = "finish"]
      <3>2. /\ c \in CallRecord /\ c.pc = "finish" /\ c.up = call[k].up /\ c.down = call[k].down
            /\ c.spc = call[k].spc /\ c.reply = call[k].reply /\ c.status = call[k].status
            /\ c.fd = call[k].fd /\ c.entry = call[k].entry
        BY <1>1 DEF CallRecord, Pcs
      <3>3. Set(k, c)
        BY <3>1
      <3> HIDE DEF c
      <3>4. Shape(req[k], c)
        BY <1>1, <3>2 DEF Shape, ClientShape, HandlerShape, StreamShape
      <3> QED
        BY <3>2, <3>3, <3>4
    <2> QED
      BY <2>1, <2>2 DEF FetchEnd
  <1> QED
    BY <1>1, <1>4, <1>5, StepShaped DEF ShapeInv, Running, Opens

LEMMA ListEntryShaped ==
  ASSUME ShapeInv, NEW k \in Calls, ListEntry(k)
  PROVE  ShapeInv'
  <1> DEFINE x == Head(call[k].down)
             down == Tail(call[k].down)
             map == [call[k].map EXCEPT ![x.name] = IF @ = None THEN x.date ELSE @]
             c == [call[k] EXCEPT !.down = down, !.map = map]
  <1>1. /\ call[k] \in CallRecord /\ Shape(req[k], call[k])
        /\ call[k].pc = "receive" /\ req[k].op = "list" /\ call[k].down # <<>>
        /\ UNCHANGED <<dir, data, local, req, crashes>>
    BY DEF ShapeInv, CallsShaped, ListEntry, At
  <1>2. call[k].down \in Seq(Entries)
    BY <1>1 DEF Shape, ClientShape, StreamShape
  <1>3. /\ x \in Entries /\ down \in Seq(Entries) /\ down \in Seq(Messages \cup Entries)
        /\ Len(down) <= Len(call[k].down)
    BY <1>1, <1>2, HeadTaken
  <1>4. map \in [Files -> Files \cup {None, 0}]
    BY <1>1, <1>3 DEF CallRecord, Entries
  <1>5. Set(k, c)
    BY DEF ListEntry
  <1> HIDE DEF down, map
  <1>6. /\ c \in CallRecord /\ c.pc = "receive" /\ c.up = call[k].up /\ c.down = down
        /\ c.spc = call[k].spc /\ c.reply = call[k].reply /\ c.status = call[k].status
        /\ c.fd = call[k].fd /\ c.entry = call[k].entry
    BY <1>1, <1>3, <1>4 DEF CallRecord
  <1> HIDE DEF c
  <1>7. Shape(req[k], c)
    BY <1>1, <1>3, <1>6, Part1Assumption DEF Shape, ClientShape, HandlerShape, StreamShape
  <1> QED
    BY <1>1, <1>5, <1>6, <1>7, StepShaped DEF ShapeInv, Typed, Running, Opens

LEMMA ListEndShaped ==
  ASSUME ShapeInv, NEW k \in Calls, ListEnd(k)
  PROVE  ShapeInv'
  <1> DEFINE c == [call[k] EXCEPT !.pc = "finish"]
  <1>1. /\ call[k] \in CallRecord /\ Shape(req[k], call[k]) /\ call[k].pc = "receive"
        /\ Set(k, c) /\ UNCHANGED <<dir, data, local, req, crashes>>
    BY DEF ShapeInv, CallsShaped, ListEnd, At
  <1>2. /\ c \in CallRecord /\ c.pc = "finish" /\ c.up = call[k].up /\ c.down = call[k].down
        /\ c.spc = call[k].spc /\ c.reply = call[k].reply /\ c.status = call[k].status
        /\ c.fd = call[k].fd /\ c.entry = call[k].entry
    BY <1>1 DEF CallRecord, Pcs
  <1> HIDE DEF c
  <1>3. Shape(req[k], c)
    BY <1>1, <1>2 DEF Shape, ClientShape, HandlerShape, StreamShape
  <1> QED
    BY <1>1, <1>2, <1>3, StepShaped DEF ShapeInv, Typed, Running, Opens

LEMMA FinishShaped ==
  ASSUME ShapeInv, NEW k \in Calls, Finish(k)
  PROVE  ShapeInv'
  <1>1. /\ call[k] \in CallRecord /\ Shape(req[k], call[k]) /\ call[k].pc = "finish"
        /\ UNCHANGED <<dir, data, local, req, crashes>>
    BY DEF ShapeInv, CallsShaped, Finish
  <1> DEFINE s == IF call[k].cancelled THEN "DEADLINE_EXCEEDED"
                  ELSE IF call[k].reply = "FAILURE" THEN "NOT_FOUND" ELSE call[k].reply
             c == Returned(call[k], s)
  <1>2. s \in Codes
    BY <1>1 DEF Finish, CallRecord, Codes, Replies
  <1>3. c \in CallRecord /\ Shape(req[k], c) /\ c.pc = "done"
    BY <1>1, <1>2, ReturnedShaped, ReturnedFields
  <1>4. Set(k, c)
    BY DEF Finish
  <1> HIDE DEF c
  <1> QED
    BY <1>1, <1>3, <1>4, StepShaped DEF ShapeInv, Typed, Opens

LEMMA DeadlineShaped ==
  ASSUME ShapeInv, NEW k \in Calls, Deadline(k)
  PROVE  ShapeInv'
  <1> DEFINE c == [call[k] EXCEPT !.cancelled = TRUE]
  <1>1. /\ call[k] \in CallRecord /\ Shape(req[k], call[k]) /\ Running(k) /\ Set(k, c)
        /\ UNCHANGED <<dir, data, local, req, crashes>>
    BY DEF ShapeInv, CallsShaped, Deadline
  <1>2. /\ c \in CallRecord /\ c.pc = call[k].pc /\ c.up = call[k].up /\ c.down = call[k].down
        /\ c.spc = call[k].spc /\ c.reply = call[k].reply /\ c.status = call[k].status
        /\ c.fd = call[k].fd /\ c.entry = call[k].entry
    BY <1>1 DEF CallRecord
  <1> HIDE DEF c
  <1>3. Shape(req[k], c)
    BY <1>1, <1>2 DEF Shape, ClientShape, HandlerShape, StreamShape, Running
  <1>4. Opens(req[k], c) => Mine(k) \in Texts
    BY <1>2 DEF ShapeInv, Opened, Opens
  <1> QED
    BY <1>1, <1>2, <1>3, <1>4, StepShaped DEF ShapeInv, Typed, Mine

LEMMA HandleSignalShaped ==
  ASSUME ShapeInv, NEW k \in Calls, HandleSignal(k)
  PROVE  ShapeInv'
  <1> DEFINE c == [call[k] EXCEPT !.pc = "killed", !.cancelled = TRUE, !.down = <<>>]
  <1>1. /\ call[k] \in CallRecord /\ Shape(req[k], call[k]) /\ Running(k) /\ Set(k, c)
        /\ UNCHANGED <<dir, data, local, req, crashes>>
    BY DEF ShapeInv, CallsShaped, HandleSignal
  <1>2. /\ c \in CallRecord /\ c.pc = "killed" /\ c.up = call[k].up /\ c.down = <<>>
        /\ c.spc = call[k].spc /\ c.reply = call[k].reply /\ c.status = call[k].status
        /\ c.fd = call[k].fd /\ c.entry = call[k].entry
    BY <1>1, NothingSent DEF CallRecord, Pcs
  <1> HIDE DEF c
  <1>3. Shape(req[k], c)
    BY <1>1, <1>2, NothingSent DEF Shape, ClientShape, HandlerShape, StreamShape, Running
  <1> QED
    BY <1>1, <1>2, <1>3, StepShaped DEF ShapeInv, Typed, Opens

----------------------------------------------------------------------------
(* The handler's steps.                                                    *)

LEMMA HandlerShaped ==
  ASSUME ShapeInv, NEW k \in Calls, call[k].spc # "none", NEW c \in CallRecord,
         c.pc = call[k].pc, c.status = call[k].status,
         HandlerShape(req[k], c), StreamShape(req[k], c),
         Set(k, c), UNCHANGED <<local, req>>
  PROVE  CallsShaped' /\ MountsApart' /\ \A j \in Calls : Opened(j)'
  <1>1. Shape(req[k], call[k]) /\ call[k].pc # "idle"
    BY DEF ShapeInv, CallsShaped, Shape, ClientShape, NewCall
  <1>2. Shape(req[k], c)
    BY <1>1 DEF Shape, ClientShape
  <1>3. Opens(req[k], c) => Mine(k) \in Texts
    BY DEF ShapeInv, Opened, Opens
  <1> QED
    BY <1>1, <1>2, <1>3, StepShaped DEF Running, Mine

LEMMA BeginShaped ==
  ASSUME ShapeInv, NEW k \in Calls, Begin(k)
  PROVE  ShapeInv'
  <1>1. /\ call[k] \in CallRecord /\ Shape(req[k], call[k]) /\ call[k].spc = "start"
        /\ UNCHANGED <<dir, data, local, req, crashes>>
    BY DEF ShapeInv, CallsShaped, Begin, SAt
  <1>2. req[k] \in Request
    BY <1>1 DEF Shape, ClientShape, NewCall
  <1>3. req[k].op \in AllCommands
    BY <1>2, Part1Assumption DEF Request
  <1>4. CallsShaped' /\ MountsApart' /\ \A j \in Calls : Opened(j)'
    <2>1. CASE call[k].cancelled
      BY <1>1, <2>1, ReplyShaped DEF Begin, Replies
    <2>2. CASE ~call[k].cancelled
      <3> DEFINE spc == CASE req[k].op = "store" -> "read_header"
                          [] req[k].op = "fetch" -> "fetch_stat"
                          [] req[k].op = "delete" -> "remove"
                          [] req[k].op = "list" -> "open_dir"
                          [] req[k].op = "stat" -> "stat_file"
                 c == [call[k] EXCEPT !.spc = spc]
      <3>1. /\ spc \in {"read_header", "fetch_stat", "remove", "open_dir", "stat_file"}
            /\ spc = "read_header" => req[k].op = "store"
            /\ spc = "fetch_stat" => req[k].op = "fetch"
            /\ spc = "remove" => req[k].op = "delete"
            /\ spc = "open_dir" => req[k].op = "list"
            /\ spc = "stat_file" => req[k].op = "stat"
        BY <1>3 DEF AllCommands
      <3> HIDE DEF spc
      <3>2. /\ c \in CallRecord /\ c.spc = spc /\ c.pc = call[k].pc /\ c.up = call[k].up
            /\ c.down = call[k].down /\ c.reply = call[k].reply /\ c.status = call[k].status
        BY <1>1, <3>1 DEF CallRecord, ServerPcs
      <3>3. Set(k, c)
        BY <2>2 DEF Begin, spc
      <3> HIDE DEF c
      <3>4. HandlerShape(req[k], c) /\ StreamShape(req[k], c)
        BY <1>1, <3>1, <3>2 DEF Shape, HandlerShape, StreamShape
      <3> QED
        BY <1>1, <3>2, <3>3, <3>4, HandlerShaped
    <2> QED
      BY <2>1, <2>2
  <1> QED
    BY <1>1, <1>4 DEF ShapeInv, Typed

LEMMA ReadHeaderShaped ==
  ASSUME ShapeInv, NEW k \in Calls, ReadHeader(k)
  PROVE  ShapeInv'
  <1>1. /\ call[k] \in CallRecord /\ Shape(req[k], call[k]) /\ call[k].spc = "read_header"
        /\ UNCHANGED <<dir, data, local, req, crashes>>
    BY DEF ShapeInv, CallsShaped, ReadHeader, SAt
  <1>2. CallsShaped' /\ MountsApart' /\ \A j \in Calls : Opened(j)'
    <2>1. CASE Set(k, Replied(call[k], "NOT_FOUND"))
      BY <1>1, <2>1, ReplyShaped DEF Replies
    <2>2. CASE call[k].up # <<>> /\ Set(k, [call[k] EXCEPT !.up = Tail(@), !.spc = "open"])
      <3> DEFINE up == Tail(call[k].up)
                 c == [call[k] EXCEPT !.up = up, !.spc = "open"]
      <3>1. up \in Seq(Messages) /\ Len(up) <= Len(call[k].up)
        BY <1>1, <2>2, HeadTaken DEF CallRecord
      <3> HIDE DEF up
      <3>2. /\ c \in CallRecord /\ c.spc = "open" /\ c.pc = call[k].pc /\ c.up = up
            /\ c.down = call[k].down /\ c.reply = call[k].reply /\ c.status = call[k].status
        BY <1>1, <3>1 DEF CallRecord, ServerPcs
      <3>3. Set(k, c)
        BY <2>2 DEF up
      <3> HIDE DEF c
      <3>4. HandlerShape(req[k], c) /\ StreamShape(req[k], c)
        BY <1>1, <3>1, <3>2, Part1Assumption DEF Shape, HandlerShape, StreamShape, CallRecord
      <3> QED
        BY <1>1, <3>2, <3>3, <3>4, HandlerShaped
    <2> QED
      BY <2>1, <2>2 DEF ReadHeader
  <1> QED
    BY <1>1, <1>2 DEF ShapeInv, Typed

LEMMA OpenForWriteShaped ==
  ASSUME ShapeInv, NEW k \in Calls, OpenForWrite(k)
  PROVE  ShapeInv'
  <1> DEFINE f == req[k].file
             n == IF dir[f] = None THEN k ELSE dir[f]
             c == [call[k] EXCEPT !.spc = "write", !.fd = n]
  <1>1. /\ call[k] \in CallRecord /\ Shape(req[k], call[k]) /\ call[k].spc = "open"
        /\ dir' = [dir EXCEPT ![f] = n] /\ data' = [data EXCEPT ![n] = <<>>]
        /\ call' = [Witnessed(k, f, TRUE) EXCEPT ![k].spc = "write", ![k].fd = n]
        /\ UNCHANGED <<local, req, crashes>>
    BY DEF ShapeInv, CallsShaped, OpenForWrite, SAt
  <1>2. f \in Files /\ req[k].op = "store"
    BY <1>1 DEF Shape, ClientShape, HandlerShape, NewCall, Request
  <1>3. n \in Inodes
    BY <1>2 DEF ShapeInv, Typed, Inodes
  <1>4. Typed'
    BY <1>1, <1>2, <1>3, HoleIsText DEF ShapeInv, Typed
  <1>5. ~Listing(call[k]) /\ Witnessed(k, f, TRUE)[k] = call[k]
    BY <1>1 DEF Listing, Witnessed
  <1> HIDE DEF n
  <1>6. call' = [Witnessed(k, f, TRUE) EXCEPT ![k] = c]
    BY <1>1, <1>5 DEF Witnessed
  <1>7. /\ c \in CallRecord /\ c.spc = "write" /\ c.pc = call[k].pc /\ c.up = call[k].up
        /\ c.down = call[k].down /\ c.reply = call[k].reply /\ c.status = call[k].status
        /\ c.fd = n
    BY <1>1, <1>3 DEF CallRecord, ServerPcs
  <1>8. call[k].pc # "idle"
    BY <1>1 DEF Shape, ClientShape, NewCall
  <1> HIDE DEF c, f
  <1>9. Shape(req[k], c)
    BY <1>1, <1>2, <1>3, <1>7, <1>8 DEF Shape, ClientShape, HandlerShape, StreamShape
  <1> QED
    BY <1>1, <1>2, <1>4, <1>5, <1>6, <1>7, <1>9, WitnessShaped DEF ShapeInv

LEMMA OpenFailsShaped ==
  ASSUME ShapeInv, NEW k \in Calls, OpenFails(k)
  PROVE  ShapeInv'
  BY ReplyShaped DEF OpenFails, SAt, Replies, ShapeInv, Typed

LEMMA StatAfterWriteShaped ==
  ASSUME ShapeInv, NEW k \in Calls, StatAfterWrite(k)
  PROVE  ShapeInv'
  BY ReplyShaped DEF StatAfterWrite, SAt, Replies, ShapeInv, Typed

LEMMA ReadEndShaped ==
  ASSUME ShapeInv, NEW k \in Calls, ReadEnd(k)
  PROVE  ShapeInv'
  BY ReplyShaped DEF ReadEnd, SAt, Replies, ShapeInv, Typed

LEMMA StatFileShaped ==
  ASSUME ShapeInv, NEW k \in Calls, StatFile(k)
  PROVE  ShapeInv'
  BY ReplyShaped DEF StatFile, SAt, Replies, ShapeInv, Typed

LEMMA ReadDirEndShaped ==
  ASSUME ShapeInv, NEW k \in Calls, ReadDirEnd(k)
  PROVE  ShapeInv'
  BY ReplyShaped DEF ReadDirEnd, SAt, Replies, ShapeInv, Typed

(* A chunk goes into the open file, or the write fails; closing it alike.  *)
LEMMA WriteChunkShaped ==
  ASSUME ShapeInv, NEW k \in Calls, WriteChunk(k)
  PROVE  ShapeInv'
  <1> DEFINE x == Head(call[k].up)
             up == Tail(call[k].up)
             t == Taken(call[k], x)
             r == [t EXCEPT !.up = up]
             f == req[k].file
  <1>1. /\ call[k] \in CallRecord /\ Shape(req[k], call[k]) /\ call[k].spc = "write"
        /\ call[k].up # <<>> /\ UNCHANGED <<dir, local, req, crashes>>
    BY DEF ShapeInv, CallsShaped, WriteChunk, SAt
  <1>2. /\ f \in Files /\ req[k].op = "store" /\ call[k].fd \in Inodes
        /\ call[k].pc # "idle"
    BY <1>1 DEF Shape, ClientShape, HandlerShape, NewCall, Request
  <1>3. x \in Messages /\ up \in Seq(Messages) /\ Len(up) <= Len(call[k].up)
    BY <1>1, HeadTaken DEF CallRecord
  <1>4. \/ /\ data' = [data EXCEPT ![call[k].fd] = Written(call[k], x, @)]
           /\ call' = [Witnessed(k, f, dir[f] # None) EXCEPT ![k] = r]
        \/ Set(k, [r EXCEPT !.bad = TRUE]) /\ UNCHANGED data
    <2>1. t.up = call[k].up
      BY <1>1, <1>3, TakenFields
    <2> QED
      BY <2>1 DEF WriteChunk
  <1> HIDE DEF x, up
  <1>5. /\ t \in CallRecord /\ SameEnds(call[k], t) /\ t.fd = call[k].fd
        /\ t.down = call[k].down
    BY <1>1, <1>3, TakenFields
  <1> HIDE DEF t
  <1>6. /\ r \in CallRecord /\ r.up = up /\ r.down = t.down /\ r.fd = t.fd /\ SameEnds(t, r)
    BY <1>3, <1>5 DEF CallRecord, SameEnds
  <1> HIDE DEF r
  <1>7. CASE /\ data' = [data EXCEPT ![call[k].fd] = Written(call[k], x, @)]
             /\ call' = [Witnessed(k, f, dir[f] # None) EXCEPT ![k] = r]
    <2>1. data[call[k].fd] \in Texts
      BY <1>2 DEF ShapeInv, Typed
    <2>2. Written(call[k], x, data[call[k].fd]) \in Texts
      BY <1>1, <1>3, <2>1, WritesTyped
    <2>3. Typed'
      BY <1>1, <1>2, <1>7, <2>2 DEF ShapeInv, Typed
    <2>4. Shape(req[k], r)
      BY <1>1, <1>2, <1>3, <1>5, <1>6, Part1Assumption
         DEF Shape, ClientShape, HandlerShape, StreamShape, SameEnds, CallRecord
    <2>5. ~Listing(call[k]) /\ r.pc = call[k].pc
      BY <1>1, <1>5, <1>6 DEF Listing, SameEnds
    <2>6. CallsShaped' /\ MountsApart' /\ \A j \in Calls : Opened(j)'
      <3> HIDE DEF f
      <3>1. (dir[f] # None) \in BOOLEAN
        OBVIOUS
      <3> DEFINE there == dir[f] # None
      <3>2. call' = [Witnessed(k, f, there) EXCEPT ![k] = r] /\ UNCHANGED <<local, req>>
        BY <1>1, <1>7
      <3> HIDE DEF there
      <3>3. there \in BOOLEAN
        BY <3>1 DEF there
      <3> QED
        BY <1>2, <1>6, <2>4, <2>5, <3>2, <3>3, WitnessShaped
    <2> QED
      BY <2>3, <2>6 DEF ShapeInv
  <1>8. CASE Set(k, [r EXCEPT !.bad = TRUE]) /\ UNCHANGED data
    <2> DEFINE c == [r EXCEPT !.bad = TRUE]
    <2>1. /\ c \in CallRecord /\ c.up = up /\ c.down = r.down /\ c.fd = r.fd /\ SameEnds(r, c)
      BY <1>6 DEF CallRecord, SameEnds
    <2>2. Set(k, c)
      BY <1>8
    <2> HIDE DEF c
    <2>3. HandlerShape(req[k], c) /\ StreamShape(req[k], c)
      BY <1>1, <1>3, <1>5, <1>6, <2>1, Part1Assumption
         DEF Shape, HandlerShape, StreamShape, SameEnds, CallRecord
    <2>4. c.pc = call[k].pc /\ c.status = call[k].status
      BY <1>5, <1>6, <2>1 DEF SameEnds
    <2> QED
      BY <1>1, <1>8, <2>1, <2>2, <2>3, <2>4, HandlerShaped DEF ShapeInv, Typed
  <1> QED
    BY <1>4, <1>7, <1>8

LEMMA EndOfStreamShaped ==
  ASSUME ShapeInv, NEW k \in Calls, EndOfStream(k)
  PROVE  ShapeInv'
  <1> DEFINE f == req[k].file
             r == [call[k] EXCEPT !.spc = "stat"]
             there == dir[f] # None
  <1>1. /\ call[k] \in CallRecord /\ Shape(req[k], call[k]) /\ call[k].spc = "write"
        /\ UNCHANGED <<dir, local, req, crashes>>
    BY DEF ShapeInv, CallsShaped, EndOfStream, SAt
  <1>2. /\ f \in Files /\ req[k].op = "store" /\ call[k].fd \in Inodes
        /\ call[k].pc # "idle"
    BY <1>1 DEF Shape, ClientShape, HandlerShape, NewCall, Request
  <1>3. CASE Set(k, Replied(call[k], "NOT_FOUND")) /\ UNCHANGED data
    BY <1>1, <1>3, ReplyShaped DEF Replies, ShapeInv, Typed
  <1>4. CASE /\ data' = [data EXCEPT ![call[k].fd] = Flushed(call[k], @)]
             /\ call' = [Witnessed(k, f, there) EXCEPT ![k].spc = "stat"]
    <2>1. Flushed(call[k], data[call[k].fd]) \in Texts
      BY <1>1, <1>2, WritesTyped DEF ShapeInv, Typed
    <2>2. Typed'
      BY <1>1, <1>2, <1>4, <2>1 DEF ShapeInv, Typed
    <2>3. ~Listing(call[k]) /\ Witnessed(k, f, there)[k] = call[k]
      BY <1>1 DEF Listing, Witnessed
    <2>4. call' = [Witnessed(k, f, there) EXCEPT ![k] = r]
      BY <1>1, <1>4, <2>3 DEF Witnessed
    <2>5. there \in BOOLEAN
      OBVIOUS
    <2>6. /\ r \in CallRecord /\ r.spc = "stat" /\ r.pc = call[k].pc /\ r.up = call[k].up
          /\ r.down = call[k].down /\ r.reply = call[k].reply /\ r.status = call[k].status
          /\ r.fd = call[k].fd
      BY <1>1 DEF CallRecord, ServerPcs
    <2> HIDE DEF r, there, f
    <2>7. Shape(req[k], r)
      BY <1>1, <1>2, <2>6 DEF Shape, ClientShape, HandlerShape, StreamShape
    <2> QED
      BY <1>1, <1>2, <2>2, <2>3, <2>4, <2>5, <2>6, <2>7, WitnessShaped DEF ShapeInv
  <1>5. CASE Set(k, [call[k] EXCEPT !.spc = "stat", !.lost = TRUE]) /\ UNCHANGED data
    <2> DEFINE c == [call[k] EXCEPT !.spc = "stat", !.lost = TRUE]
    <2>1. /\ c \in CallRecord /\ c.spc = "stat" /\ c.pc = call[k].pc /\ c.up = call[k].up
          /\ c.down = call[k].down /\ c.reply = call[k].reply /\ c.status = call[k].status
          /\ c.fd = call[k].fd
      BY <1>1 DEF CallRecord, ServerPcs
    <2>2. Set(k, c)
      BY <1>5
    <2> HIDE DEF c
    <2>3. HandlerShape(req[k], c) /\ StreamShape(req[k], c)
      BY <1>1, <1>2, <2>1 DEF Shape, HandlerShape, StreamShape
    <2> QED
      BY <1>1, <1>5, <2>1, <2>2, <2>3, HandlerShaped DEF ShapeInv, Typed
  <1> QED
    BY <1>3, <1>4, <1>5 DEF EndOfStream

LEMMA FetchStatShaped ==
  ASSUME ShapeInv, NEW k \in Calls, FetchStat(k)
  PROVE  ShapeInv'
  <1>1. /\ call[k] \in CallRecord /\ Shape(req[k], call[k]) /\ call[k].spc = "fetch_stat"
        /\ UNCHANGED <<dir, data, local, req, crashes>>
    BY DEF ShapeInv, CallsShaped, FetchStat, SAt
  <1>2. CASE Set(k, Replied(call[k], "NOT_FOUND"))
    BY <1>1, <1>2, ReplyShaped DEF Replies, ShapeInv, Typed
  <1>3. CASE Set(k, [SentDown(call[k], Header) EXCEPT !.spc = "open_read"])
    <2> DEFINE d == SentDown(call[k], Header)
               c == [d EXCEPT !.spc = "open_read"]
    <2>1. /\ d \in CallRecord /\ SameEnds(call[k], d) /\ d.up = call[k].up
          /\ d.down = IF call[k].cancelled THEN call[k].down ELSE Append(call[k].down, Header)
      BY <1>1, MessagesSent, SentDownFields
    <2> HIDE DEF d
    <2>2. /\ c \in CallRecord /\ c.spc = "open_read" /\ c.pc = d.pc /\ c.up = d.up
          /\ c.down = d.down /\ c.reply = d.reply /\ c.status = d.status
      BY <2>1 DEF CallRecord, ServerPcs
    <2>3. Set(k, c)
      BY <1>3 DEF d
    <2> HIDE DEF c
    <2>4. HandlerShape(req[k], c)
      BY <1>1, <2>1, <2>2 DEF Shape, HandlerShape, SameEnds
    <2>5. call[k].down = <<>> /\ req[k].op = "fetch"
      BY <1>1 DEF Shape, StreamShape, HandlerShape
    <2>6. d.down \in Seq(Messages) /\ Len(d.down) <= Window
      BY <2>1, <2>5, MessagesSent, Part1Assumption
    <2>7. StreamShape(req[k], c)
      BY <1>1, <2>1, <2>2, <2>5, <2>6 DEF Shape, StreamShape
    <2> QED
      BY <1>1, <2>1, <2>2, <2>3, <2>4, <2>7, HandlerShaped DEF ShapeInv, Typed, SameEnds
  <1> QED
    BY <1>2, <1>3 DEF FetchStat

LEMMA OpenForReadShaped ==
  ASSUME ShapeInv, NEW k \in Calls, OpenForRead(k)
  PROVE  ShapeInv'
  <1> DEFINE n == dir[req[k].file]
             c == [call[k] EXCEPT !.spc = "read", !.fd = n]
  <1>1. /\ call[k] \in CallRecord /\ Shape(req[k], call[k]) /\ call[k].spc = "open_read"
        /\ UNCHANGED <<dir, data, local, req, crashes>>
    BY DEF ShapeInv, CallsShaped, OpenForRead, SAt
  <1>2. req[k] \in Request /\ req[k].op = "fetch"
    BY <1>1 DEF Shape, ClientShape, HandlerShape, NewCall
  <1>3. CASE n = None
    BY <1>1, <1>3, ReplyShaped DEF OpenForRead, Replies, ShapeInv, Typed
  <1>4. CASE n # None
    <2>1. n \in Inodes
      BY <1>2, <1>4 DEF ShapeInv, Typed, Request
    <2>2. Set(k, c)
      BY <1>4 DEF OpenForRead
    <2> HIDE DEF n
    <2>3. /\ c \in CallRecord /\ c.spc = "read" /\ c.pc = call[k].pc /\ c.up = call[k].up
          /\ c.down = call[k].down /\ c.reply = call[k].reply /\ c.status = call[k].status
          /\ c.fd = n
      BY <1>1, <2>1 DEF CallRecord, ServerPcs
    <2> HIDE DEF c
    <2>4. HandlerShape(req[k], c) /\ StreamShape(req[k], c)
      BY <1>1, <1>2, <2>1, <2>3 DEF Shape, HandlerShape, StreamShape
    <2> QED
      BY <1>1, <2>2, <2>3, <2>4, HandlerShaped DEF ShapeInv, Typed
  <1> QED
    BY <1>3, <1>4

LEMMA ReadChunkShaped ==
  ASSUME ShapeInv, NEW k \in Calls, ReadChunk(k)
  PROVE  ShapeInv'
  <1> DEFINE i == call[k].sent + 1
             x == Message(data[call[k].fd], i)
             d == SentDown(call[k], x)
             spc == IF x.small THEN "read_end" ELSE "read"
             c == [d EXCEPT !.sent = i, !.spc = spc]
  <1>1. /\ call[k] \in CallRecord /\ Shape(req[k], call[k]) /\ call[k].spc = "read"
        /\ RoomDown(call[k]) /\ i <= Len(data[call[k].fd]) /\ Set(k, c)
        /\ UNCHANGED <<dir, data, local, req, crashes>>
    BY DEF ShapeInv, CallsShaped, ReadChunk, SAt
  <1>2. req[k] \in Request /\ req[k].op = "fetch" /\ call[k].fd \in Inodes
    BY <1>1 DEF Shape, ClientShape, HandlerShape, NewCall
  <1>3. i \in Nat /\ x \in Messages
    <2>1. data[call[k].fd] \in Texts
      BY <1>2 DEF ShapeInv, Typed
    <2>2. i \in Nat /\ i \in 1 .. Len(data[call[k].fd])
      BY <1>1, <2>1 DEF CallRecord, Texts
    <2> QED
      BY <2>1, <2>2, MessagesSent
  <1> HIDE DEF i, x
  <1>4. /\ d \in CallRecord /\ SameEnds(call[k], d) /\ d.up = call[k].up
        /\ d.down = IF call[k].cancelled THEN call[k].down ELSE Append(call[k].down, x)
    BY <1>1, <1>3, SentDownFields
  <1>5. spc \in {"read", "read_end"}
    OBVIOUS
  <1> HIDE DEF d, spc
  <1>10. spc \in ServerPcs
    BY <1>5 DEF ServerPcs
  <1>6. /\ c \in CallRecord /\ c.spc = spc /\ c.pc = d.pc /\ c.up = d.up
        /\ c.down = d.down /\ c.reply = d.reply /\ c.status = d.status /\ c.fd = d.fd
    BY <1>3, <1>4, <1>10 DEF CallRecord
  <1>7. d.fd = call[k].fd
    BY <1>1, <1>3, SentDownFields DEF d, SameTransfer
  <1> HIDE DEF c
  <1>8. HandlerShape(req[k], c)
    BY <1>1, <1>2, <1>4, <1>5, <1>6, <1>7 DEF Shape, HandlerShape, SameEnds
  <1>9. StreamShape(req[k], c)
    BY <1>1, <1>2, <1>3, <1>4, <1>5, <1>6, Part1Assumption
       DEF Shape, StreamShape, HandlerShape, CallRecord, SameEnds, RoomDown
  <1> QED
    BY <1>1, <1>4, <1>6, <1>8, <1>9, HandlerShaped DEF ShapeInv, Typed, SameEnds

LEMMA RemoveShaped ==
  ASSUME ShapeInv, NEW k \in Calls, Remove(k)
  PROVE  ShapeInv'
  <1> DEFINE f == req[k].file
             c == Settled(Replied(call[k], "OK"))
  <1>1. /\ call[k] \in CallRecord /\ Shape(req[k], call[k]) /\ call[k].spc = "remove"
        /\ dir' = [dir EXCEPT ![f] = None] /\ UNCHANGED <<data, local, req, crashes>>
    BY DEF ShapeInv, CallsShaped, Remove, SAt
  <1>2. Typed'
    BY <1>1 DEF ShapeInv, Typed
  <1>3. CASE dir[f] = None
    BY <1>1, <1>2, <1>3, ReplyShaped DEF Remove, Replies, ShapeInv
  <1>4. CASE dir[f] # None
    <2>1. ~Listing(call[k]) /\ Witnessed(k, f, FALSE)[k] = call[k]
      BY <1>1 DEF Listing, Witnessed
    <2>2. call' = [Witnessed(k, f, FALSE) EXCEPT ![k] = c]
      BY <1>4, <2>1 DEF Remove, Witnessed
    <2>3. c \in CallRecord /\ Shape(req[k], c) /\ c.pc = call[k].pc
      <3> DEFINE d == Replied(call[k], "OK")
      <3>1. d \in CallRecord /\ Shape(req[k], d) /\ d.pc = call[k].pc
        BY <1>1, RepliedShaped, RepliedFields DEF Replies
      <3> HIDE DEF d
      <3>2. Settled(d) \in CallRecord /\ Shape(req[k], Settled(d)) /\ Settled(d).pc = d.pc
        BY <3>1, SettledShaped, SettledFields DEF Settled
      <3> QED
        BY <3>1, <3>2 DEF d
    <2>4. f \in Files
      BY <1>1 DEF Shape, ClientShape, HandlerShape, NewCall, Request
    <2> HIDE DEF c, f
    <2> QED
      BY <1>1, <1>2, <2>1, <2>2, <2>3, <2>4, WitnessShaped DEF ShapeInv
  <1> QED
    BY <1>3, <1>4

LEMMA OpenDirShaped ==
  ASSUME ShapeInv, NEW k \in Calls, OpenDir(k)
  PROVE  ShapeInv'
  <1> DEFINE there == {f \in Files : dir[f] # None}
             c == [call[k] EXCEPT !.spc = "read_dir", !.due = there, !.ever = there]
  <1>1. /\ call[k] \in CallRecord /\ Shape(req[k], call[k]) /\ call[k].spc = "open_dir"
        /\ UNCHANGED <<dir, data, local, req, crashes>>
    BY DEF ShapeInv, CallsShaped, OpenDir, SAt
  <1>2. CASE Set(k, Replied(call[k], "INTERNAL"))
    BY <1>1, <1>2, ReplyShaped DEF Replies, ShapeInv, Typed
  <1>3. CASE Set(k, c)
    <2>1. there \in SUBSET Files
      OBVIOUS
    <2> HIDE DEF there
    <2>2. /\ c \in CallRecord /\ c.spc = "read_dir" /\ c.pc = call[k].pc /\ c.up = call[k].up
          /\ c.down = call[k].down /\ c.reply = call[k].reply /\ c.status = call[k].status
      BY <1>1, <2>1 DEF CallRecord, ServerPcs
    <2> HIDE DEF c
    <2>3. HandlerShape(req[k], c) /\ StreamShape(req[k], c)
      BY <1>1, <2>2 DEF Shape, HandlerShape, StreamShape
    <2> QED
      BY <1>1, <1>3, <2>2, <2>3, HandlerShaped DEF ShapeInv, Typed
  <1> QED
    BY <1>2, <1>3 DEF OpenDir

LEMMA ReadDirShaped ==
  ASSUME ShapeInv, NEW k \in Calls, ReadDir(k)
  PROVE  ShapeInv'
  <1>1. /\ call[k] \in CallRecord /\ Shape(req[k], call[k]) /\ call[k].spc = "read_dir"
        /\ UNCHANGED <<dir, data, local, req, crashes>>
    BY DEF ShapeInv, CallsShaped, ReadDir, SAt
  <1>2. PICK f \in Files :
          Set(k, [call[k] EXCEPT !.entry = f, !.listed = call[k].listed \cup {f},
                                 !.spc = "stat_entry"])
    BY <1>1 DEF ReadDir, CallRecord
  <1> DEFINE listed == call[k].listed \cup {f}
             c == [call[k] EXCEPT !.entry = f, !.listed = listed, !.spc = "stat_entry"]
  <1>3. listed \in SUBSET Files /\ Set(k, c)
    BY <1>1, <1>2 DEF CallRecord
  <1> HIDE DEF listed
  <1>4. /\ c \in CallRecord /\ c.spc = "stat_entry" /\ c.pc = call[k].pc /\ c.up = call[k].up
        /\ c.down = call[k].down /\ c.reply = call[k].reply /\ c.status = call[k].status
        /\ c.entry = f
    BY <1>1, <1>3 DEF CallRecord, ServerPcs
  <1> HIDE DEF c
  <1>5. HandlerShape(req[k], c) /\ StreamShape(req[k], c)
    BY <1>1, <1>4 DEF Shape, HandlerShape, StreamShape
  <1> QED
    BY <1>1, <1>3, <1>4, <1>5, HandlerShaped DEF ShapeInv, Typed

LEMMA StatEntryShaped ==
  ASSUME ShapeInv, NEW k \in Calls, StatEntry(k)
  PROVE  ShapeInv'
  <1> DEFINE date == IF dir[call[k].entry] = None THEN call[k].date ELSE call[k].entry
             x == [name |-> call[k].entry, date |-> date]
             d == SentDown(call[k], x)
             c == [d EXCEPT !.date = date, !.spc = "read_dir"]
  <1>1. /\ call[k] \in CallRecord /\ Shape(req[k], call[k]) /\ call[k].spc = "stat_entry"
        /\ RoomDown(call[k]) /\ Set(k, c)
        /\ UNCHANGED <<dir, data, local, req, crashes>>
    BY DEF ShapeInv, CallsShaped, StatEntry, SAt
  <1>2. /\ call[k].pc # "idle" /\ req[k].op = "list" /\ call[k].entry \in Files
    BY <1>1 DEF Shape, ClientShape, HandlerShape, NewCall
  <1>3. date \in Files \cup {0} /\ x \in Entries
    BY <1>1, <1>2 DEF CallRecord, Entries
  <1> HIDE DEF x, date
  <1>4. /\ d \in CallRecord /\ SameEnds(call[k], d) /\ d.up = call[k].up
        /\ d.down = IF call[k].cancelled THEN call[k].down ELSE Append(call[k].down, x)
    BY <1>1, <1>3, SentDownFields
  <1> HIDE DEF d
  <1>8. "read_dir" \in ServerPcs /\ date \in Files \cup {0}
    BY <1>3 DEF ServerPcs
  <1>5. /\ c \in CallRecord /\ c.spc = "read_dir" /\ c.pc = d.pc /\ c.up = d.up
        /\ c.down = d.down /\ c.reply = d.reply /\ c.status = d.status
    BY <1>4, <1>8 DEF CallRecord
  <1> HIDE DEF c
  <1>6. HandlerShape(req[k], c)
    BY <1>1, <1>2, <1>4, <1>5 DEF Shape, HandlerShape, SameEnds
  <1>7. StreamShape(req[k], c)
    BY <1>1, <1>2, <1>3, <1>4, <1>5, Part1Assumption
       DEF Shape, StreamShape, HandlerShape, CallRecord, SameEnds, RoomDown
  <1> QED
    BY <1>1, <1>4, <1>5, <1>6, <1>7, HandlerShaped DEF ShapeInv, Typed, SameEnds

----------------------------------------------------------------------------
LEMMA CrashShaped ==
  ASSUME ShapeInv, Crash
  PROVE  ShapeInv'
  <1>1. /\ call' = [k \in Calls |-> IF Serving(k) THEN Settled(Replied(call[k], "UNAVAILABLE"))
                                                   ELSE call[k]]
        /\ crashes' \in 0 .. MaxCrashes /\ UNCHANGED <<dir, data, local, req>>
    BY Part1Assumption DEF Crash, ShapeInv, Typed
  <1>2. Typed'
    BY <1>1 DEF ShapeInv, Typed
  <1>3. ASSUME NEW k \in Calls
        PROVE  call'[k] \in CallRecord /\ Shape(req'[k], call'[k]) /\ call'[k].pc = call[k].pc
    <2>1. call[k] \in CallRecord /\ Shape(req[k], call[k])
      BY DEF ShapeInv, CallsShaped
    <2>2. CASE Serving(k)
      <3> DEFINE c == Replied(call[k], "UNAVAILABLE")
      <3>1. c \in CallRecord /\ Shape(req[k], c) /\ c.pc = call[k].pc
        BY <2>1, <2>2, RepliedShaped, RepliedFields DEF Serving, Replies
      <3>2. call'[k] = Settled(c)
        BY <1>1, <2>2
      <3> HIDE DEF c
      <3>3. Settled(c) \in CallRecord /\ Shape(req[k], Settled(c)) /\ Settled(c).pc = c.pc
        BY <3>1, SettledShaped, SettledFields DEF Settled
      <3> QED
        BY <1>1, <3>1, <3>2, <3>3
    <2>3. CASE ~Serving(k)
      BY <1>1, <2>1, <2>3
    <2> QED
      BY <2>2, <2>3
  <1>4. CallsShaped'
    BY <1>1, <1>3 DEF CallsShaped
  <1>5. MountsApart'
    BY <1>1, <1>3 DEF MountsApart, ShapeInv, Running
  <1>6. \A k \in Calls : Opened(k)'
    BY <1>1, <1>3 DEF Opened, Opens, Mine, ShapeInv
  <1> QED
    BY <1>2, <1>4, <1>5, <1>6 DEF ShapeInv

LEMMA InitShaped == Init => ShapeInv
  <1> SUFFICES ASSUME Init PROVE ShapeInv
    OBVIOUS
  <1>1. \A v \in Versions : Body(v) \in Texts
    <2> SUFFICES ASSUME NEW v \in Versions PROVE Body(v) \in Texts
      OBVIOUS
    <2>1. Chunks[v] \in Nat
      BY Part1Assumption
    <2>2. \A i \in 1 .. Chunks[v] : <<v, i>> \in Bytes
      BY DEF Bytes
    <2>3. Body(v) \in [1 .. Chunks[v] -> Bytes \cup {None}]
      BY <2>2 DEF Body
    <2>4. \A m \in Nat : [1 .. m -> Bytes \cup {None}] \subseteq Texts
      BY SeqDef DEF Texts
    <2> QED
      BY <2>1, <2>3, <2>4
  <1>2. Typed
    <2>1. dir \in [Files -> Inodes \cup {None}]
      BY DEF Init, Inodes
    <2>2. data \in [Inodes -> Texts]
      BY <1>1, HoleIsText DEF Init, Versions
    <2>3. local \in [Mounts -> [Files -> Texts \cup {None}]]
      BY <1>1 DEF Init, Versions
    <2> QED
      BY <2>1, <2>2, <2>3, Part1Assumption DEF Init, Typed
  <1>3. \A k \in Calls : call[k] = NewCall
    BY DEF Init
  <1>4. CallsShaped
    BY <1>3, NewCallShaped DEF Init, CallsShaped
  <1>5. \A k \in Calls : call[k].pc = "idle"
    BY <1>3 DEF NewCall
  <1> QED
    BY <1>2, <1>4, <1>5 DEF ShapeInv, MountsApart, Running, Opened, Opens

LEMMA StepShapes ==
  ASSUME ShapeInv, [Next]_vars
  PROVE  ShapeInv'
  <1>1. CASE UNCHANGED vars
    BY <1>1 DEF vars, ShapeInv, Typed, CallsShaped, MountsApart, Running, Opened, Mine
  <1>2. CASE Crash
    BY <1>2, CrashShaped
  <1>3. ASSUME NEW k \in Calls, Start(k) \/ Client(k) \/ Deadline(k) \/ HandleSignal(k)
        PROVE  ShapeInv'
    BY <1>3, StartShaped, StoreHeaderShaped, StoreChunkShaped, StoreDoneShaped, FetchOpenShaped,
       FetchFirstShaped, FetchUnopenedShaped, FetchChunkShaped, FetchEndShaped, ListEntryShaped,
       ListEndShaped, FinishShaped, DeadlineShaped, HandleSignalShaped DEF Client
  <1>4. ASSUME NEW k \in Calls, Handler(k)
        PROVE  ShapeInv'
    BY <1>4, BeginShaped, ReadHeaderShaped, OpenForWriteShaped, OpenFailsShaped,
       WriteChunkShaped, EndOfStreamShaped, StatAfterWriteShaped, FetchStatShaped,
       OpenForReadShaped, ReadChunkShaped, ReadEndShaped, RemoveShaped, StatFileShaped,
       OpenDirShaped, ReadDirShaped, StatEntryShaped, ReadDirEndShaped DEF Handler
  <1> QED
    BY <1>1, <1>2, <1>3, <1>4 DEF Next

(* Every call is at a pair of places its command can bring its two ends    *)
(* to, no two running commands share a mount directory, the file a command *)
(* works on exists there, and no stream holds more than its window.        *)
THEOREM CallsAreShaped == Spec => []ShapeInv
  <1> QED
    BY InitShaped, StepShapes, PTL DEF Spec

----------------------------------------------------------------------------
(* What a step of call k leaves of the other calls.                        *)

LEMMA SetOthers ==
  ASSUME ShapeInv, NEW k \in Calls, NEW c, Set(k, c)
  PROVE  call'[k] = Settled(c) /\ \A j \in Calls \ {k} : call'[j] = call[j]
  BY DEF ShapeInv, CallsShaped, Set

LEMMA WitnessOthers ==
  ASSUME ShapeInv, NEW k \in Calls, NEW f \in Files, NEW there \in BOOLEAN, NEW c,
         call' = [Witnessed(k, f, there) EXCEPT ![k] = c]
  PROVE  /\ call'[k] = c
         /\ \A j \in Calls \ {k} : call'[j] = Witnessed(k, f, there)[j] /\ Witness(j, k, f, there)
  <1>1. call'[k] = c /\ \A j \in Calls \ {k} : call'[j] = Witnessed(k, f, there)[j]
    BY DEF Witnessed
  <1>2. CallsShaped
    BY DEF ShapeInv
  <1> QED
    BY <1>1, <1>2, WitnessedFields

----------------------------------------------------------------------------
(* Only Finish makes a command return OK.                                  *)

LEMMA SetStatus ==
  ASSUME ShapeInv, NEW k \in Calls, NEW c, Set(k, c), c.status # "OK"
  PROVE  call'[k].status # "OK"
  <1>1. call'[k] = Settled(c)
    BY SetOthers
  <1> QED
    BY <1>1 DEF Settled, NewCall

LEMMA ClientStatus ==
  ASSUME ShapeInv, NEW k \in Calls, Running(k),
         (Client(k) /\ ~Finish(k)) \/ Deadline(k) \/ HandleSignal(k)
  PROVE  call'[k].status # "OK" /\ \A j \in Calls \ {k} : call'[j] = call[j]
  <1>1. /\ call[k] \in CallRecord /\ call[k].status # "OK"
        /\ Shape(req[k], call[k]) /\ req[k] \in Request
    BY DEF ShapeInv, CallsShaped, Shape, ClientShape, Running
  <1>2. /\ \A c \in CallRecord : \A x : c.status # "OK" => [c EXCEPT !.pc = x].status # "OK"
        /\ \A c \in CallRecord : \A x :
              c.status # "OK" => [c EXCEPT !.sent = x].status # "OK"
    BY DEF CallRecord
  <1> SUFFICES \E c : Set(k, c) /\ c.status # "OK"
    BY SetOthers, SetStatus
  <1>3. CASE StoreHeader(k)
    <2>1. SentUp(call[k], Header) \in CallRecord /\ SentUp(call[k], Header).status # "OK"
      BY <1>1, MessagesSent, SentUpFields DEF SameEnds
    <2> QED
      BY <1>2, <1>3, <2>1 DEF StoreHeader
  <1>4. CASE StoreChunk(k)
    <2> DEFINE d == SentUp(call[k], Message(Mine(k), call[k].sent + 1))
    <2>1. d \in CallRecord /\ d.status # "OK"
      <3>1. Broken(call[k]) => d = call[k]
        BY DEF SentUp
      <3>2. ~Broken(call[k]) =>
              d = [call[k] EXCEPT !.up = Append(call[k].up, Message(Mine(k), call[k].sent + 1))]
        BY DEF SentUp
      <3>3. Message(Mine(k), call[k].sent + 1) \in Messages
        <4>1. Mine(k) \in Texts
          BY <1>4 DEF ShapeInv, Opened, Opens, StoreChunk, At
        <4>2. call[k].sent + 1 \in 1 .. Len(Mine(k))
          BY <1>1, <1>4, <4>1 DEF StoreChunk, CallRecord, Texts
        <4> QED
          BY <4>1, <4>2, MessagesSent
      <3> QED
        BY <1>1, <3>3, SentUpFields DEF SameEnds
    <2>2. Set(k, [d EXCEPT !.sent = call[k].sent + 1])
      BY <1>4 DEF StoreChunk
    <2> HIDE DEF d
    <2> QED
      BY <1>2, <2>1, <2>2
  <1>5. CASE StoreDone(k) \/ FetchOpen(k) \/ ListEnd(k)
    <2>1. /\ [call[k] EXCEPT !.half = TRUE, !.pc = "finish"].status = call[k].status
          /\ \A x : [call[k] EXCEPT !.pc = x].status = call[k].status
      BY <1>1 DEF CallRecord
    <2> QED
      BY <1>1, <1>5, <2>1 DEF StoreDone, FetchOpen, ListEnd
  <1>6. CASE FetchFirst(k) \/ ListEntry(k) \/ Deadline(k) \/ HandleSignal(k)
    <2>1. CASE FetchFirst(k)
      <3> DEFINE c == [call[k] EXCEPT !.down = Tail(call[k].down), !.pc = "receive"]
                 d == [call[k] EXCEPT !.down = <<>>, !.pc = "receive"]
      <3>1. Set(k, c) \/ Set(k, d)
        BY <2>1 DEF FetchFirst
      <3>2. c.status = call[k].status /\ d.status = call[k].status
        BY <1>1 DEF CallRecord
      <3> HIDE DEF c, d
      <3> QED
        BY <1>1, <3>1, <3>2
    <2>2. CASE ListEntry(k)
      <3> DEFINE x == Head(call[k].down)
                 down == Tail(call[k].down)
                 map == [call[k].map EXCEPT ![x.name] = IF @ = None THEN x.date ELSE @]
                 c == [call[k] EXCEPT !.down = down, !.map = map]
      <3>1. Set(k, c)
        BY <2>2 DEF ListEntry
      <3> HIDE DEF map, down
      <3>2. c.status = call[k].status
        BY <1>1 DEF CallRecord
      <3> QED
        BY <1>1, <3>1, <3>2
    <2>3. CASE Deadline(k)
      BY <1>1, <2>3 DEF Deadline, CallRecord
    <2>4. CASE HandleSignal(k)
      <3> DEFINE c == [call[k] EXCEPT !.pc = "killed", !.cancelled = TRUE, !.down = <<>>]
      <3>1. Set(k, c)
        BY <2>4 DEF HandleSignal
      <3>2. c.status = call[k].status
        BY <1>1 DEF CallRecord
      <3> HIDE DEF c
      <3> QED
        BY <1>1, <3>1, <3>2
    <2> QED
      BY <1>6, <2>1, <2>2, <2>3, <2>4
  <1>7. CASE FetchUnopened(k)
    <2>1. "CANCELLED" \in Codes
      BY DEF Codes
    <2>2. Returned(call[k], "CANCELLED").status = "CANCELLED"
      BY <1>1, <2>1, ReturnedFields
    <2> QED
      BY <1>7, <2>2 DEF FetchUnopened
  <1>8. CASE FetchChunk(k)
    <2> DEFINE d == Taken(call[k], Head(call[k].down))
               r == [d EXCEPT !.down = Tail(d.down)]
    <2>1. d.status = call[k].status
      BY <1>1 DEF Taken, CallRecord
    <2>2. r.status = d.status /\ [r EXCEPT !.bad = TRUE].status = d.status
      BY <1>1 DEF Taken, CallRecord
    <2> QED
      BY <1>1, <1>8, <2>1, <2>2 DEF FetchChunk
  <1>9. CASE FetchEnd(k)
    <2>1. Returned(call[k], "CANCELLED").status # "OK"
      BY <1>1, ReturnedFields DEF Codes
    <2>2. [call[k] EXCEPT !.pc = "finish"].status # "OK"
      BY <1>1, <1>2
    <2>3. [call[k] EXCEPT !.pc = "finish", !.lost = TRUE].status # "OK"
      BY <1>1 DEF CallRecord
    <2> QED
      BY <1>9, <2>1, <2>2, <2>3 DEF FetchEnd
  <1> QED
    BY <1>3, <1>4, <1>5, <1>6, <1>7, <1>8, <1>9 DEF Client

LEMMA HandlerStatus ==
  ASSUME ShapeInv, NEW k \in Calls, call[k].status # "OK", Handler(k)
  PROVE  call'[k].status # "OK"
  <1>1. /\ call[k] \in CallRecord /\ Shape(req[k], call[k])
        /\ call[k].spc # "none" => req[k] \in Request
    BY DEF ShapeInv, CallsShaped, Shape, ClientShape, NewCall
  <1>2. \A r \in Replies : Replied(call[k], r).status # "OK"
    BY <1>1, RepliedFields
  <1>3. CASE \E r \in Replies : Set(k, Replied(call[k], r))
    BY <1>2, <1>3, SetStatus
  <1>4. \A x : [call[k] EXCEPT !.spc = x].status # "OK"
    BY <1>1 DEF CallRecord
  <1>5. CASE Begin(k)
    BY <1>3, <1>4, <1>5, SetStatus DEF Begin, Replies
  <1>6. CASE ReadHeader(k)
    <2> DEFINE c == [call[k] EXCEPT !.up = Tail(call[k].up), !.spc = "open"]
    <2>1. Set(k, Replied(call[k], "NOT_FOUND")) \/ Set(k, c)
      BY <1>6 DEF ReadHeader
    <2>2. c.status = call[k].status
      BY <1>1 DEF CallRecord
    <2> HIDE DEF c
    <2> QED
      BY <1>3, <2>1, <2>2, SetStatus DEF Replies
  <1>7. CASE OpenFails(k) \/ StatAfterWrite(k) \/ ReadEnd(k) \/ StatFile(k) \/ ReadDirEnd(k)
    BY <1>3, <1>7 DEF OpenFails, StatAfterWrite, ReadEnd, StatFile, ReadDirEnd, Replies
  <1>8. CASE OpenForWrite(k)
    <2> DEFINE n == IF dir[req[k].file] = None THEN k ELSE dir[req[k].file]
               w == Witnessed(k, req[k].file, TRUE)
    <2>1. /\ call' = [w EXCEPT ![k].spc = "write", ![k].fd = n] /\ w[k] = call[k]
          /\ DOMAIN w = Calls
      BY <1>8 DEF OpenForWrite, Witnessed, SAt, Listing
    <2> HIDE DEF w, n
    <2>2. call'[k] = [call[k] EXCEPT !.spc = "write", !.fd = n]
      BY <2>1
    <2> QED
      BY <1>1, <2>2 DEF CallRecord
  <1>9. CASE WriteChunk(k)
    <2> DEFINE x == Head(call[k].up)
               d == Taken(call[k], x)
               r == [d EXCEPT !.up = Tail(d.up)]
               w == Witnessed(k, req[k].file, dir[req[k].file] # None)
    <2>1. d.status = call[k].status
      BY <1>1 DEF Taken, CallRecord
    <2>2. r.status = d.status /\ [r EXCEPT !.bad = TRUE].status = d.status
      BY <1>1 DEF Taken, CallRecord
    <2>3. \/ call' = [w EXCEPT ![k] = r]
          \/ Set(k, [r EXCEPT !.bad = TRUE])
      BY <1>9 DEF WriteChunk
    <2>4. k \in DOMAIN w
      BY DEF Witnessed
    <2> HIDE DEF w, r, d
    <2> QED
      BY <2>1, <2>2, <2>3, <2>4, SetStatus
  <1>10. CASE EndOfStream(k)
    <2> DEFINE w == Witnessed(k, req[k].file, dir[req[k].file] # None)
    <2>1. \/ Set(k, Replied(call[k], "NOT_FOUND"))
          \/ call' = [w EXCEPT ![k].spc = "stat"]
          \/ Set(k, [call[k] EXCEPT !.spc = "stat", !.lost = TRUE])
      BY <1>10 DEF EndOfStream
    <2>2. k \in DOMAIN w /\ w[k] = call[k]
      BY <1>10 DEF Witnessed, EndOfStream, SAt, Listing
    <2> HIDE DEF w
    <2>3. CASE call' = [w EXCEPT ![k].spc = "stat"]
      BY <1>4, <2>2, <2>3
    <2>4. [call[k] EXCEPT !.spc = "stat", !.lost = TRUE].status = call[k].status
      BY <1>1 DEF CallRecord
    <2> QED
      BY <1>3, <2>1, <2>3, <2>4, SetStatus DEF Replies
  <1>11. CASE FetchStat(k) \/ StatEntry(k)
    <2>1. \A m \in Messages \cup Entries : SentDown(call[k], m) \in CallRecord
                                           /\ SentDown(call[k], m).status # "OK"
      BY <1>1, SentDownFields DEF SameEnds
    <2>2. CASE FetchStat(k)
      <3> DEFINE d == SentDown(call[k], Header)
      <3>1. d \in CallRecord /\ d.status # "OK"
        BY <2>1, MessagesSent
      <3>2. Set(k, Replied(call[k], "NOT_FOUND")) \/ Set(k, [d EXCEPT !.spc = "open_read"])
        BY <2>2 DEF FetchStat
      <3> HIDE DEF d
      <3>3. [d EXCEPT !.spc = "open_read"].status # "OK"
        BY <3>1 DEF CallRecord
      <3> QED
        BY <1>3, <3>2, <3>3, SetStatus DEF Replies
    <2>3. CASE StatEntry(k)
      <3> DEFINE date == IF dir[call[k].entry] = None THEN call[k].date ELSE call[k].entry
                 d == SentDown(call[k], [name |-> call[k].entry, date |-> date])
                 c == [d EXCEPT !.date = date, !.spc = "read_dir"]
      <3>1. [name |-> call[k].entry, date |-> date] \in Entries
        BY <1>1, <2>3 DEF StatEntry, SAt, Shape, HandlerShape, CallRecord, Entries
      <3>2. d \in CallRecord /\ d.status # "OK"
        BY <2>1, <3>1
      <3>3. Set(k, c)
        BY <2>3 DEF StatEntry
      <3> HIDE DEF d, date
      <3>4. c.status = d.status
        BY <3>2 DEF CallRecord
      <3> QED
        BY <3>2, <3>3, <3>4, SetStatus
    <2> QED
      BY <1>11, <2>2, <2>3
  <1>12. CASE OpenForRead(k)
    <2> DEFINE c == [call[k] EXCEPT !.spc = "read", !.fd = dir[req[k].file]]
    <2>1. Set(k, Replied(call[k], "NOT_FOUND")) \/ Set(k, c)
      BY <1>12 DEF OpenForRead
    <2>2. c.status = call[k].status
      BY <1>1 DEF CallRecord
    <2> HIDE DEF c
    <2> QED
      BY <1>3, <2>1, <2>2, SetStatus DEF Replies
  <1>13. CASE ReadChunk(k)
    <2> DEFINE i == call[k].sent + 1
               x == Message(data[call[k].fd], i)
               d == SentDown(call[k], x)
               spc == IF x.small THEN "read_end" ELSE "read"
               c == [d EXCEPT !.sent = i, !.spc = spc]
    <2>1. Set(k, c)
      BY <1>13 DEF ReadChunk
    <2>2. d.status = call[k].status /\ c.status = d.status
      <3>1. d = call[k] \/ d = [call[k] EXCEPT !.down = Append(call[k].down, x)]
        BY DEF SentDown
      <3> HIDE DEF x, i, spc, d
      <3> QED
        BY <1>1, <3>1 DEF CallRecord
    <2> HIDE DEF c
    <2> QED
      BY <2>1, <2>2, SetStatus
  <1>14. CASE Remove(k)
    <2> DEFINE w == Witnessed(k, req[k].file, FALSE)
    <2>1. \/ Set(k, Replied(call[k], "NOT_FOUND"))
          \/ call' = [w EXCEPT ![k] = Settled(Replied(w[k], "OK"))]
      BY <1>14 DEF Remove
    <2>2. k \in DOMAIN w /\ w[k] = call[k]
      BY <1>14 DEF Witnessed, Remove, SAt, Listing
    <2> HIDE DEF w
    <2>3. \A c : Settled(c).status = c.status
      BY DEF Settled, NewCall
    <2>4. CASE call' = [w EXCEPT ![k] = Settled(Replied(w[k], "OK"))]
      BY <1>2, <2>2, <2>3, <2>4 DEF Replies
    <2> QED
      BY <1>3, <2>1, <2>4 DEF Replies
  <1>15. CASE OpenDir(k)
    <2> DEFINE there == {f \in Files : dir[f] # None}
               c == [call[k] EXCEPT !.spc = "read_dir", !.due = there, !.ever = there]
    <2>1. Set(k, Replied(call[k], "INTERNAL")) \/ Set(k, c)
      BY <1>15 DEF OpenDir
    <2> HIDE DEF there
    <2>2. c.status = call[k].status
      BY <1>1 DEF CallRecord
    <2> HIDE DEF c
    <2> QED
      BY <1>3, <2>1, <2>2, SetStatus DEF Replies
  <1>16. CASE ReadDir(k)
    <2>1. \A f : LET c == [call[k] EXCEPT !.entry = f, !.listed = call[k].listed \cup {f},
                                          !.spc = "stat_entry"]
                 IN  c.status = call[k].status
      BY <1>1 DEF CallRecord
    <2> QED
      BY <1>16, <2>1, SetStatus DEF ReadDir
  <1> QED
    BY <1>5, <1>6, <1>7, <1>8, <1>9, <1>10, <1>11, <1>12, <1>13, <1>14, <1>15, <1>16
       DEF Handler

(* The others see of a handler's step at most that it wrote or removed a   *)
(* file of theirs.                                                         *)
Watches(j, k) ==
    LET c == call[j]
        d == call'[j]
    IN  /\ d \in CallRecord
        /\ SameButWitness(c, d)
        /\ d.due \subseteq c.due /\ c.ever \subseteq d.ever
        /\ Listing(c) => \A f \in d.due : dir[f] # None => dir'[f] # None
        /\ Running(j) /\ ~Listing(c) /\ d.alone =>
              c.alone /\ (UNCHANGED <<dir, data>> \/ req[k].file # req[j].file)

LEMMA SetWatched ==
  ASSUME ShapeInv, NEW k \in Calls, UNCHANGED <<dir, data>>, \E c : Set(k, c)
  PROVE  \A j \in Calls \ {k} : Watches(j, k)
  <1>1. \A j \in Calls \ {k} : call'[j] = call[j] /\ call[j] \in CallRecord
    BY SetOthers DEF ShapeInv, CallsShaped
  <1> QED
    BY <1>1 DEF Watches, SameButWitness, SameEnds

LEMMA WitnessWatched ==
  ASSUME ShapeInv, NEW k \in Calls, req[k] \in Request, NEW there \in BOOLEAN, NEW c,
         call' = [Witnessed(k, req[k].file, there) EXCEPT ![k] = c],
         \A f \in Files : (f # req[k].file \/ there) /\ dir[f] # None => dir'[f] # None
  PROVE  \A j \in Calls \ {k} : Watches(j, k)
  <1> SUFFICES ASSUME NEW j \in Calls \ {k} PROVE Watches(j, k)
    OBVIOUS
  <1> DEFINE d == call'[j]
             f == req[k].file
  <1>1. f \in Files
    BY DEF Request
  <1>2. d = Witnessed(k, f, there)[j] /\ Witness(j, k, f, there)
    <2> HIDE DEF f
    <2>1. call' = [Witnessed(k, f, there) EXCEPT ![k] = c]
      BY DEF f
    <2> QED
      BY <1>1, <2>1, WitnessOthers
  <1>3. call[j] \in CallRecord
    BY DEF ShapeInv, CallsShaped
  <1>4. /\ d \in CallRecord /\ SameButWitness(call[j], d)
        /\ d.due \subseteq call[j].due /\ call[j].ever \subseteq d.ever
        /\ Listing(call[j]) => d.due = IF there THEN call[j].due ELSE call[j].due \ {f}
        /\ ~Listing(call[j]) => d.alone = (call[j].alone /\ ~Touched(j, k, f))
    BY <1>2 DEF Witness
  <1>5. d.due \subseteq Files /\ d.alone \in BOOLEAN /\ call[j].alone \in BOOLEAN
    BY <1>3, <1>4 DEF CallRecord
  <1> HIDE DEF d
  <1>6. Listing(call[j]) => \A g \in d.due : dir[g] # None => dir'[g] # None
    BY <1>4, <1>5
  <1>7. Running(j) /\ ~Listing(call[j]) /\ d.alone => call[j].alone /\ f # req[j].file
    BY <1>4, <1>5 DEF Touched
  <1> QED
    BY <1>4, <1>6, <1>7 DEF Watches, d

LEMMA HandlerWatched ==
  ASSUME ShapeInv, NEW k \in Calls, Handler(k)
  PROVE  /\ UNCHANGED <<local, req, crashes>>
         /\ \A j \in Calls \ {k} : Watches(j, k)
  <1>1. /\ Shape(req[k], call[k])
        /\ call[k].spc # "none" => req[k] \in Request
    BY DEF ShapeInv, CallsShaped, Shape, ClientShape, NewCall
  <1>2. Typed
    BY DEF ShapeInv
  <1>3. CASE Begin(k) \/ ReadHeader(k) \/ OpenFails(k) \/ StatAfterWrite(k)
    BY <1>3, SetWatched DEF Begin, ReadHeader, OpenFails, StatAfterWrite
  <1>4. CASE FetchStat(k) \/ OpenForRead(k) \/ ReadChunk(k) \/ ReadEnd(k) \/ StatFile(k)
    BY <1>4, SetWatched DEF FetchStat, OpenForRead, ReadChunk, ReadEnd, StatFile
  <1>5. CASE OpenDir(k) \/ ReadDir(k) \/ StatEntry(k) \/ ReadDirEnd(k)
    BY <1>5, SetWatched DEF OpenDir, ReadDir, StatEntry, ReadDirEnd
  <1>6. CASE OpenForWrite(k)
    <2> DEFINE f == req[k].file
               n == IF dir[f] = None THEN k ELSE dir[f]
               w == Witnessed(k, f, TRUE)
               c == [w[k] EXCEPT !.spc = "write", !.fd = n]
    <2>1. /\ call' = [w EXCEPT ![k].spc = "write", ![k].fd = n]
          /\ dir' = [dir EXCEPT ![f] = n] /\ req[k] \in Request
          /\ UNCHANGED <<local, req, crashes>>
      BY <1>1, <1>6 DEF OpenForWrite, SAt
    <2>2. \A g \in Files : dir[g] # None => dir'[g] # None
      BY <1>2, <2>1, Part1Assumption DEF Typed, Inodes
    <2>3. k \in DOMAIN w
      BY DEF Witnessed
    <2> HIDE DEF n
    <2>4. call' = [w EXCEPT ![k] = c]
      <3> HIDE DEF w
      <3> QED
        BY <2>1, <2>3
    <2> HIDE DEF c
    <2> QED
      BY <2>1, <2>2, <2>4, WitnessWatched
  <1>7. CASE WriteChunk(k)
    <2> DEFINE f == req[k].file
               r == [Taken(call[k], Head(call[k].up)) EXCEPT !.up = Tail(@)]
    <2>1. /\ req[k] \in Request /\ UNCHANGED <<dir, local, req, crashes>>
          /\ \/ call' = [Witnessed(k, f, dir[f] # None) EXCEPT ![k] = r]
             \/ Set(k, [r EXCEPT !.bad = TRUE]) /\ UNCHANGED data
      BY <1>1, <1>7 DEF WriteChunk, SAt
    <2> HIDE DEF r
    <2> QED
      BY <2>1, SetWatched, WitnessWatched
  <1>8. CASE EndOfStream(k)
    <2> DEFINE f == req[k].file
               w == Witnessed(k, f, dir[f] # None)
               c == [w[k] EXCEPT !.spc = "stat"]
    <2>1. /\ req[k] \in Request /\ UNCHANGED <<dir, local, req, crashes>>
          /\ \/ call' = [w EXCEPT ![k].spc = "stat"]
             \/ (\E d : Set(k, d)) /\ UNCHANGED data
      BY <1>1, <1>8 DEF EndOfStream, SAt
    <2>2. k \in DOMAIN w
      BY DEF Witnessed
    <2>3. CASE call' = [w EXCEPT ![k].spc = "stat"]
      <3>1. call' = [w EXCEPT ![k] = c]
        <4> HIDE DEF w
        <4> QED
          BY <2>2, <2>3
      <3> HIDE DEF c
      <3> QED
        BY <2>1, <3>1, WitnessWatched
    <2> QED
      BY <2>1, <2>3, SetWatched
  <1>9. CASE Remove(k)
    <2> DEFINE f == req[k].file
               w == Witnessed(k, f, FALSE)
               c == Settled(Replied(w[k], "OK"))
    <2>1. /\ req[k] \in Request /\ UNCHANGED <<data, local, req, crashes>>
          /\ dir' = [dir EXCEPT ![f] = None]
          /\ \/ call' = [w EXCEPT ![k] = c]
             \/ dir[f] = None /\ Set(k, Replied(call[k], "NOT_FOUND"))
      BY <1>1, <1>9 DEF Remove, SAt
    <2>2. \A g \in Files : g # f => dir'[g] = dir[g]
      BY <1>2, <2>1 DEF Typed
    <2>3. dir[f] = None => dir' = dir
      BY <1>2, <2>1 DEF Typed, Request
    <2> HIDE DEF c
    <2> QED
      BY <2>1, <2>2, <2>3, SetWatched, WitnessWatched
  <1> QED
    BY <1>3, <1>4, <1>5, <1>6, <1>7, <1>8, <1>9
       DEF Handler, Begin, ReadHeader, OpenFails, StatAfterWrite, FetchStat, OpenForRead,
           ReadChunk, ReadEnd, StatFile, OpenDir, ReadDir, StatEntry, ReadDirEnd

LEMMA OnlyFinishReturnsOk ==
  ASSUME ShapeInv, [Next]_vars, NEW k \in Calls, Running(k), call'[k].status = "OK"
  PROVE  /\ Finish(k) /\ call[k].pc = "finish" /\ ~call[k].cancelled /\ call[k].reply = "OK"
         /\ UNCHANGED <<dir, data, local, req, crashes>>
  <1>1. call[k] \in CallRecord /\ call[k].status # "OK"
    BY DEF ShapeInv, CallsShaped, Shape, ClientShape, Running
  <1>2. ASSUME NEW j \in Calls, Start(j) PROVE FALSE
    <2>1. j # k /\ \E c : Set(j, c)
      BY <1>2 DEF Start, Running
    <2> QED
      BY <1>1, <2>1, SetOthers
  <1>3. ASSUME NEW j \in Calls, (Client(j) /\ ~Finish(j)) \/ Deadline(j) \/ HandleSignal(j)
        PROVE  FALSE
    <2>1. CASE j = k
      BY <1>3, <2>1, ClientStatus
    <2>2. CASE j # k
      <3>1. Running(j)
        BY <1>3 DEF Client, Deadline, HandleSignal, Running, StoreHeader, StoreChunk, StoreDone,
           FetchOpen, FetchFirst, FetchUnopened, FetchChunk, FetchEnd, ListEntry, ListEnd, At
      <3> QED
        BY <1>1, <1>3, <2>2, <3>1, ClientStatus
    <2> QED
      BY <2>1, <2>2
  <1>4. ASSUME NEW j \in Calls, Finish(j), j # k PROVE FALSE
    <2>1. \E c : Set(j, c)
      BY <1>4 DEF Finish
    <2> QED
      BY <1>1, <1>4, <2>1, SetOthers
  <1>5. ASSUME NEW j \in Calls, Handler(j) PROVE FALSE
    <2>1. CASE j = k
      BY <1>1, <1>5, <2>1, HandlerStatus
    <2>2. CASE j # k
      <3>1. Watches(k, j)
        BY <1>5, <2>2, HandlerWatched
      <3> QED
        BY <1>1, <3>1 DEF Watches, SameButWitness, SameEnds
    <2> QED
      BY <2>1, <2>2
  <1>6. CASE Crash
    <2>1. call'[k] = IF Serving(k) THEN Settled(Replied(call[k], "UNAVAILABLE")) ELSE call[k]
      BY <1>6 DEF Crash
    <2>2. Replied(call[k], "UNAVAILABLE").status = call[k].status
      BY <1>1, RepliedFields DEF Replies
    <2>3. \A c : Settled(c).status = c.status
      BY DEF Settled, NewCall
    <2> QED
      BY <1>1, <2>1, <2>2, <2>3
  <1>7. CASE UNCHANGED vars
    BY <1>1, <1>7 DEF vars
  <1>8. Finish(k)
    BY <1>2, <1>3, <1>4, <1>5, <1>6, <1>7 DEF Next
  <1> DEFINE s == IF call[k].cancelled THEN "DEADLINE_EXCEEDED"
                  ELSE IF call[k].reply = "FAILURE" THEN "NOT_FOUND" ELSE call[k].reply
  <1>9. /\ Set(k, Returned(call[k], s)) /\ call[k].pc = "finish"
        /\ call[k].cancelled \/ call[k].reply # None
        /\ UNCHANGED <<dir, data, local, req, crashes>>
    BY <1>8 DEF Finish
  <1>10. s \in Codes
    BY <1>1, <1>9 DEF CallRecord, Codes, Replies
  <1>11. s = "OK"
    <2> HIDE DEF s
    <2>1. Returned(call[k], s).status = s
      BY <1>1, <1>10, ReturnedFields
    <2> QED
      BY <1>9, <2>1, SetStatus
  <1> QED
    BY <1>8, <1>9, <1>11

----------------------------------------------------------------------------
(* What a list shows.  Every file that is due is on its way to the client, *)
(* with its own date, from the moment that readdir gives it.               *)

Shown(q) == {q[i] : i \in 1 .. Len(q)}

OnItsWay(c, f) ==
    \/ c.spc = "stat_entry" /\ f = c.entry
    \/ \E x \in Shown(c.down) : x.name = f
    \/ c.map[f] = f

(* A list c whose client still waits for the result.                       *)
ListAnswers(c) ==
    /\ \A x \in Shown(c.down) : x.name \in c.listed /\ (x.name \in c.due => x.date = x.name)
    /\ \A f \in Files : c.map[f] # None => f \in c.listed
    /\ \A f \in c.due : c.map[f] \in {None, f}
    /\ ~c.cancelled =>
          /\ Listing(c) \/ c.reply = "OK" => \A f \in c.due \cap c.listed : OnItsWay(c, f)
          /\ c.reply = "OK" => c.due \subseteq c.listed
          /\ c.pc = "finish" => c.down = <<>> /\ c.spc = "done"

ListOk(r, c) ==
    r.op = "list" =>
      /\ c.listed \subseteq c.ever /\ c.due \subseteq c.ever
      /\ c.spc = "stat_entry" => c.entry \in c.listed
      /\ ~Listing(c) /\ c.spc # "done" => c.listed = {}
      /\ c.pc \in {"receive", "finish"} => ListAnswers(c)

DueThere(c) == Listing(c) => \A f \in c.due : dir[f] # None

ListInv ==
    /\ ShapeInv
    /\ \A k \in Calls : ListOk(req[k], call[k]) /\ DueThere(call[k])

LEMMA ShownSteps ==
  ASSUME NEW S, NEW q \in Seq(S)
  PROVE  /\ \A x \in S : Shown(Append(q, x)) = Shown(q) \cup {x}
         /\ q # <<>> => Shown(q) = {Head(q)} \cup Shown(Tail(q)) /\ Head(q) \in S
         /\ Shown(<<>>) = {}
  <1>1. ASSUME NEW x \in S PROVE Shown(Append(q, x)) = Shown(q) \cup {x}
    <2>1. /\ Len(Append(q, x)) = Len(q) + 1 /\ Append(q, x)[Len(q) + 1] = x
          /\ \A j \in 1 .. Len(q) : Append(q, x)[j] = q[j]
          /\ Len(q) \in Nat
      OBVIOUS
    <2>2. 1 .. Len(q) + 1 = (1 .. Len(q)) \cup {Len(q) + 1}
      BY <2>1
    <2> QED
      BY <2>1, <2>2 DEF Shown
  <1>2. ASSUME q # <<>> PROVE Shown(q) = {Head(q)} \cup Shown(Tail(q)) /\ Head(q) \in S
    <2>1. /\ Head(q) = q[1] /\ Tail(q) \in Seq(S) /\ Len(Tail(q)) = Len(q) - 1
          /\ \A i \in 1 .. Len(q) - 1 : Tail(q)[i] = q[i + 1]
          /\ Len(q) \in Nat \ {0}
      BY <1>2, HeadTaken
    <2>2. ASSUME NEW x \in Shown(q) PROVE x \in {Head(q)} \cup Shown(Tail(q))
      <3>1. PICK i \in 1 .. Len(q) : x = q[i]
        BY DEF Shown
      <3>2. CASE i = 1
        BY <2>1, <3>1, <3>2
      <3>3. CASE i # 1
        <4>1. i - 1 \in 1 .. Len(q) - 1 /\ (i - 1) + 1 = i
          BY <2>1, <3>1, <3>3
        <4>2. x = Tail(q)[i - 1]
          BY <2>1, <3>1, <4>1
        <4> QED
          BY <2>1, <4>1, <4>2 DEF Shown
      <3> QED
        BY <3>2, <3>3
    <2>3. ASSUME NEW x \in Shown(Tail(q)) PROVE x \in Shown(q)
      <3>1. PICK i \in 1 .. Len(q) - 1 : x = Tail(q)[i]
        BY <2>1 DEF Shown
      <3>2. i + 1 \in 1 .. Len(q) /\ x = q[i + 1]
        BY <2>1, <3>1
      <3> QED
        BY <3>2 DEF Shown
    <2>4. Head(q) \in Shown(q) /\ Head(q) \in S
      BY <2>1 DEF Shown
    <2> QED
      BY <2>2, <2>3, <2>4
  <1>3. Shown(<<>>) = {}
    BY DEF Shown
  <1> QED
    BY <1>1, <1>2, <1>3

LEMMA WatchedList ==
  ASSUME NEW r, NEW c \in CallRecord, NEW d \in CallRecord, ListOk(r, c),
         SameButWitness(c, d), d.due \subseteq c.due, c.ever \subseteq d.ever
  PROVE  ListOk(r, d)
  <1> SUFFICES ASSUME r.op = "list" PROVE ListOk(r, d)
    BY DEF ListOk
  <1>1. /\ d.listed \subseteq d.ever
        /\ d.spc = "stat_entry" => d.entry \in d.listed
        /\ ~Listing(d) /\ d.spc # "done" => d.listed = {}
        /\ d.due \subseteq d.ever
    BY DEF ListOk, SameButWitness, SameEnds, Listing
  <1>2. ASSUME d.pc \in {"receive", "finish"} PROVE ListAnswers(d)
    <2>1. ListAnswers(c)
      BY <1>2 DEF ListOk, SameButWitness, SameEnds
    <2> QED
      BY <2>1 DEF ListAnswers, SameButWitness, SameEnds, Listing, OnItsWay
  <1> QED
    BY <1>1, <1>2 DEF ListOk

LEMMA SettledList ==
  ASSUME NEW r, NEW c \in CallRecord, ListOk(r, c)
  PROVE  ListOk(r, Settled(c)) /\ (Listing(Settled(c)) => Settled(c) = c)
  <1>1. CASE c.pc \in {"done", "killed"} /\ c.spc \in {"none", "done"}
    <2>1. Settled(c) = [NewCall EXCEPT !.pc = c.pc, !.spc = c.spc, !.status = c.status,
                                       !.map = c.map]
      BY <1>1 DEF Settled
    <2> DEFINE d == [NewCall EXCEPT !.pc = c.pc, !.spc = c.spc, !.status = c.status,
                                    !.map = c.map]
    <2>2. d.pc = c.pc /\ d.spc = c.spc /\ d.listed = {} /\ d.due = {} /\ d.ever = {}
      BY DEF NewCall
    <2> HIDE DEF d
    <2>3. ListOk(r, d) /\ ~Listing(d)
      BY <1>1, <2>2 DEF ListOk, Listing
    <2> QED
      BY <2>1, <2>3 DEF d
  <1>2. CASE ~(c.pc \in {"done", "killed"} /\ c.spc \in {"none", "done"})
    BY <1>2 DEF Settled
  <1> QED
    BY <1>1, <1>2

(* A step of call k.                                                       *)
LEMMA ListStep ==
  ASSUME ListInv, ShapeInv', NEW k \in Calls, ListOk(req'[k], call'[k]), DueThere(call[k])',
         \A j \in Calls \ {k} : req'[j] = req[j] /\ Watches(j, k)
  PROVE  ListInv'
  <1> SUFFICES ASSUME NEW j \in Calls \ {k}
               PROVE  ListOk(req'[j], call'[j]) /\ DueThere(call[j])'
    BY DEF ListInv
  <1> DEFINE d == call'[j]
  <1>1. req'[j] = req[j] /\ Watches(j, k)
    OBVIOUS
  <1>2. call[j] \in CallRecord /\ ListOk(req[j], call[j]) /\ DueThere(call[j])
    BY DEF ListInv, ShapeInv, CallsShaped
  <1>3. /\ d \in CallRecord /\ SameButWitness(call[j], d)
        /\ d.due \subseteq call[j].due /\ call[j].ever \subseteq d.ever
        /\ Listing(call[j]) => \A f \in d.due : dir[f] # None => dir'[f] # None
    BY <1>1 DEF Watches
  <1> HIDE DEF d
  <1>4. ListOk(req[j], d)
    BY <1>2, <1>3, WatchedList
  <1>5. Listing(d) => \A f \in d.due : dir'[f] # None
    BY <1>2, <1>3 DEF DueThere, Listing, SameButWitness, SameEnds
  <1> QED
    BY <1>1, <1>4, <1>5 DEF d, DueThere

LEMMA SetList ==
  ASSUME ListInv, ShapeInv', NEW k \in Calls, NEW c \in CallRecord, Set(k, c),
         ListOk(req'[k], c), Listing(c) => \A f \in c.due : dir[f] # None,
         \A j \in Calls \ {k} : req'[j] = req[j], UNCHANGED <<dir, data>>
  PROVE  ListInv'
  <1>1. call'[k] = Settled(c)
    BY SetOthers DEF ListInv
  <1>2. \A j \in Calls \ {k} : Watches(j, k)
    BY SetWatched DEF ListInv
  <1>3. ListOk(req'[k], call'[k]) /\ DueThere(call[k])'
    BY <1>1, SettledList DEF DueThere
  <1> QED
    BY <1>2, <1>3, ListStep

(* A step of a call that is no list.                                       *)
LEMMA OtherList ==
  ASSUME ListInv, ShapeInv', NEW k \in Calls, req[k].op # "list", UNCHANGED req,
         \A j \in Calls \ {k} : Watches(j, k)
  PROVE  ListInv'
  <1>1. ListOk(req'[k], call'[k])
    BY DEF ListOk
  <1>2. Shape(req'[k], call'[k])
    BY DEF ShapeInv, CallsShaped
  <1>3. DueThere(call[k])'
    BY <1>2 DEF Shape, HandlerShape, DueThere, Listing
  <1> QED
    BY <1>1, <1>3, ListStep

LEMMA TransfersListed ==
  ASSUME ListInv, ShapeInv', NEW k \in Calls,
         \/ StoreHeader(k) \/ StoreChunk(k) \/ StoreDone(k)
         \/ FetchOpen(k) \/ FetchFirst(k) \/ FetchUnopened(k) \/ FetchChunk(k) \/ FetchEnd(k)
         \/ ReadHeader(k) \/ OpenForWrite(k) \/ OpenFails(k)
         \/ WriteChunk(k) \/ EndOfStream(k) \/ StatAfterWrite(k)
         \/ FetchStat(k) \/ OpenForRead(k) \/ ReadChunk(k) \/ ReadEnd(k)
         \/ Remove(k) \/ StatFile(k)
  PROVE  ListInv'
  <1>1. ShapeInv /\ Shape(req[k], call[k])
    BY DEF ListInv, ShapeInv, CallsShaped
  <1>2. CASE \/ StoreHeader(k) \/ StoreChunk(k) \/ StoreDone(k)
             \/ FetchOpen(k) \/ FetchFirst(k) \/ FetchUnopened(k) \/ FetchChunk(k) \/ FetchEnd(k)
    <2>1. req[k].op # "list" /\ UNCHANGED <<dir, data, req>> /\ \E c : Set(k, c)
      BY <1>2 DEF StoreHeader, StoreChunk, StoreDone, FetchOpen, FetchFirst, FetchUnopened,
         FetchChunk, FetchEnd, At
    <2> QED
      BY <1>1, <2>1, SetWatched, OtherList
  <1>3. CASE \/ ReadHeader(k) \/ OpenForWrite(k) \/ OpenFails(k)
             \/ WriteChunk(k) \/ EndOfStream(k) \/ StatAfterWrite(k)
             \/ FetchStat(k) \/ OpenForRead(k) \/ ReadChunk(k) \/ ReadEnd(k)
             \/ Remove(k) \/ StatFile(k)
    <2>1. call[k].spc \in {"read_header", "open", "write", "stat", "fetch_stat", "open_read",
                           "read", "read_end", "remove", "stat_file"}
      BY <1>3 DEF ReadHeader, OpenForWrite, OpenFails, WriteChunk, EndOfStream, StatAfterWrite,
         FetchStat, OpenForRead, ReadChunk, ReadEnd, Remove, StatFile, SAt
    <2>2. req[k].op # "list"
      BY <1>1, <2>1 DEF Shape, HandlerShape
    <2>3. Handler(k)
      BY <1>3 DEF Handler
    <2> QED
      BY <1>1, <2>2, <2>3, HandlerWatched, OtherList
  <1> QED
    BY <1>2, <1>3

(* What holds of a list k.                                                 *)
LEMMA ListFacts ==
  ASSUME ListInv, NEW k \in Calls
  PROVE  /\ ShapeInv /\ call[k] \in CallRecord /\ Shape(req[k], call[k])
         /\ ListOk(req[k], call[k]) /\ DueThere(call[k])
         /\ call[k].due \subseteq Files /\ call[k].ever \subseteq Files
         /\ call[k].cancelled \in BOOLEAN
         /\ call[k].spc # "none" => req[k] \in Request
         /\ Running(k) => req[k] \in Request
  <1>1. call[k] \in CallRecord /\ Shape(req[k], call[k])
    BY DEF ListInv, ShapeInv, CallsShaped
  <1> QED
    BY <1>1 DEF ListInv, CallRecord, Shape, ClientShape, NewCall, Running

LEMMA StartListed ==
  ASSUME ListInv, ShapeInv', NEW k \in Calls, Start(k)
  PROVE  ListInv'
  <1>1. PICK r \in Request :
          /\ req' = [req EXCEPT ![k] = r]
          /\ IF r.op = "store" /\ local[r.mount][r.file] = None
             THEN Set(k, Returned(call[k], "NOT_FOUND"))
             ELSE Set(k, [call[k] EXCEPT
                      !.spc = "start",
                      !.pc = CASE r.op = "store" -> "header"
                               [] r.op = "fetch" -> "open"
                               [] r.op = "list" -> "receive"
                               [] OTHER -> "finish"])
    BY DEF Start
  <1>2. call[k] = NewCall /\ call[k] \in CallRecord /\ UNCHANGED <<dir, data>>
    BY ListFacts DEF Start, Shape, ClientShape
  <1>3. req'[k] = r /\ \A j \in Calls \ {k} : req'[j] = req[j]
    BY <1>1 DEF ListInv, ShapeInv, Typed
  <1>4. CASE r.op = "store" /\ local[r.mount][r.file] = None
    <2> DEFINE c == Returned(call[k], "NOT_FOUND")
    <2>1. "NOT_FOUND" \in Codes
      BY DEF Codes, Replies
    <2>4. NewCall.spc = "none"
      BY DEF NewCall
    <2>2. c \in CallRecord /\ c.spc = "none"
      BY <1>2, <2>1, <2>4, ReturnedFields
    <2>3. Set(k, c)
      BY <1>1, <1>4
    <2> HIDE DEF c
    <2> QED
      BY <1>2, <1>3, <1>4, <2>2, <2>3, SetList DEF ListOk, Listing
  <1>5. CASE ~(r.op = "store" /\ local[r.mount][r.file] = None)
    <2> DEFINE pc == CASE r.op = "store" -> "header"
                       [] r.op = "fetch" -> "open"
                       [] r.op = "list" -> "receive"
                       [] OTHER -> "finish"
               c == [call[k] EXCEPT !.spc = "start", !.pc = pc]
    <2>1. pc \in Pcs /\ (r.op = "list" => pc = "receive")
      BY DEF Pcs
    <2>2. Set(k, c)
      BY <1>1, <1>5
    <2> HIDE DEF pc
    <2>3. c \in CallRecord
      BY <1>2, <2>1 DEF CallRecord, ServerPcs
    <2>4. /\ c.pc = pc /\ c.spc = "start" /\ c.down = <<>> /\ c.map = [f \in Files |-> None]
          /\ c.listed = {} /\ c.due = {} /\ c.ever = {} /\ c.reply = None
      BY <1>2 DEF NewCall
    <2> HIDE DEF c
    <2>5. Shown(<<>>) = {}
      BY NothingSent, ShownSteps
    <2>6. r.op = "list" => ListAnswers(c)
      BY <2>1, <2>4, <2>5, Part1Assumption DEF ListAnswers, Listing
    <2>7. ListOk(r, c) /\ ~Listing(c)
      BY <2>4, <2>6 DEF ListOk, Listing
    <2> QED
      BY <1>2, <1>3, <2>2, <2>3, <2>7, SetList
  <1> QED
    BY <1>4, <1>5

LEMMA ListEntryListed ==
  ASSUME ListInv, ShapeInv', NEW k \in Calls, ListEntry(k)
  PROVE  ListInv'
  <1> DEFINE b == call[k]
             x == Head(b.down)
             down == Tail(b.down)
             map == [b.map EXCEPT ![x.name] = IF @ = None THEN x.date ELSE @]
             c == [b EXCEPT !.down = down, !.map = map]
  <1>1. /\ b \in CallRecord /\ Shape(req[k], b) /\ ListOk(req[k], b) /\ DueThere(b)
        /\ b.pc = "receive" /\ req[k].op = "list" /\ b.down # <<>>
        /\ UNCHANGED <<dir, data, local, req, crashes>>
    BY ListFacts DEF ListEntry, At
  <1>2. b.down \in Seq(Entries)
    BY <1>1 DEF Shape, ClientShape, StreamShape
  <1>3. /\ x \in Entries /\ down \in Seq(Messages \cup Entries)
        /\ Shown(b.down) = {x} \cup Shown(down)
    BY <1>1, <1>2, HeadTaken, ShownSteps
  <1>4. /\ map \in [Files -> Files \cup {None, 0}]
        /\ map[x.name] = IF b.map[x.name] = None THEN x.date ELSE b.map[x.name]
        /\ \A f \in Files : f # x.name => map[f] = b.map[f]
        /\ x.name \in Files
    BY <1>1, <1>3 DEF CallRecord, Entries
  <1>5. Set(k, c)
    BY DEF ListEntry
  <1> HIDE DEF down, map, x
  <1>6. c \in CallRecord
    BY <1>1, <1>3, <1>4 DEF CallRecord
  <1>7. /\ c.pc = b.pc /\ c.down = down /\ c.map = map /\ c.spc = b.spc /\ c.reply = b.reply
        /\ c.entry = b.entry /\ c.listed = b.listed /\ c.due = b.due /\ c.ever = b.ever
        /\ c.cancelled = b.cancelled /\ b.due \subseteq Files
    BY <1>1 DEF CallRecord
  <1> HIDE DEF c
  <1>8. ListAnswers(b)
    BY <1>1 DEF ListOk
  <1>9. ListAnswers(c)
    <2>1. \A y \in Shown(c.down) : y.name \in c.listed /\ (y.name \in c.due => y.date = y.name)
      BY <1>3, <1>7, <1>8 DEF ListAnswers
    <2>2. x.name \in b.listed /\ (x.name \in b.due => x.date = x.name)
      BY <1>3, <1>8 DEF ListAnswers
    <2>3. \A f \in Files : c.map[f] # None => f \in c.listed
      BY <1>4, <1>7, <1>8, <2>2 DEF ListAnswers
    <2>4. /\ \A f \in c.due : c.map[f] \in {None, f}
          /\ x.name \in c.due => c.map[x.name] = x.name
      BY <1>4, <1>7, <1>8, <2>2 DEF ListAnswers
    <2>5. ASSUME ~c.cancelled, Listing(c) \/ c.reply = "OK", NEW f \in c.due \cap c.listed
          PROVE  OnItsWay(c, f)
      <3>1. OnItsWay(b, f)
        BY <1>7, <1>8, <2>5 DEF ListAnswers, Listing
      <3>2. CASE f = x.name
        BY <2>4, <2>5, <3>2 DEF OnItsWay
      <3>3. CASE f # x.name
        BY <1>3, <1>4, <1>7, <3>1, <3>3 DEF OnItsWay
      <3> QED
        BY <3>2, <3>3
    <2> QED
      BY <1>1, <1>7, <1>8, <2>1, <2>3, <2>4, <2>5 DEF ListAnswers
  <1>10. ListOk(req[k], c) /\ (Listing(c) => \A f \in c.due : dir[f] # None)
    BY <1>1, <1>7, <1>9 DEF ListOk, DueThere, Listing
  <1> QED
    BY <1>1, <1>5, <1>6, <1>10, SetList

LEMMA ListEndListed ==
  ASSUME ListInv, ShapeInv', NEW k \in Calls, ListEnd(k)
  PROVE  ListInv'
  <1> DEFINE b == call[k]
             c == [b EXCEPT !.pc = "finish"]
  <1>1. /\ b \in CallRecord /\ Shape(req[k], b) /\ ListOk(req[k], b) /\ DueThere(b)
        /\ b.pc = "receive" /\ DownEnded(b) /\ Set(k, c)
        /\ UNCHANGED <<dir, data, local, req, crashes>>
    BY ListFacts DEF ListEnd, At
  <1>2. c \in CallRecord
    BY <1>1 DEF CallRecord, Pcs
  <1>3. /\ c.pc = "finish" /\ c.down = b.down /\ c.map = b.map /\ c.spc = b.spc
        /\ c.reply = b.reply /\ c.entry = b.entry /\ c.listed = b.listed /\ c.due = b.due
        /\ c.ever = b.ever /\ c.cancelled = b.cancelled
    BY <1>1 DEF CallRecord
  <1> HIDE DEF c
  <1>4. ~b.cancelled => b.down = <<>> /\ b.spc = "done"
    BY <1>1 DEF DownEnded, Shape, HandlerShape
  <1>5. ListAnswers(b) => ListAnswers(c)
    BY <1>3, <1>4 DEF ListAnswers, Listing, OnItsWay
  <1>6. ListOk(req[k], c) /\ (Listing(c) => \A f \in c.due : dir[f] # None)
    BY <1>1, <1>3, <1>5 DEF ListOk, DueThere, Listing
  <1> QED
    BY <1>1, <1>2, <1>6, SetList

(* A list that its client has left.                                        *)
LEMMA LeftListed ==
  ASSUME ListInv, ShapeInv', NEW k \in Calls, NEW c \in CallRecord, Set(k, c),
         c.pc \in {"done", "killed"}, c.spc = call[k].spc, SameList(call[k], c),
         UNCHANGED <<dir, data, req>>
  PROVE  ListInv'
  <1>1. ListOk(req[k], call[k]) /\ DueThere(call[k])
    BY DEF ListInv
  <1>2. ListOk(req[k], c) /\ (Listing(c) => \A f \in c.due : dir[f] # None)
    BY <1>1 DEF ListOk, DueThere, Listing, SameList
  <1> QED
    BY <1>2, SetList

LEMMA FinishListed ==
  ASSUME ListInv, ShapeInv', NEW k \in Calls, Finish(k)
  PROVE  ListInv'
  <1>1. call[k] \in CallRecord /\ UNCHANGED <<dir, data, req>>
        /\ (call[k].cancelled \/ call[k].reply # None)
    BY ListFacts DEF Finish
  <1> DEFINE s == IF call[k].cancelled THEN "DEADLINE_EXCEEDED"
                  ELSE IF call[k].reply = "FAILURE" THEN "NOT_FOUND" ELSE call[k].reply
             c == Returned(call[k], s)
  <1>2. s \in Codes
    BY <1>1 DEF CallRecord, Codes, Replies
  <1>3. Set(k, c)
    BY DEF Finish
  <1> HIDE DEF s
  <1>4. c \in CallRecord /\ c.pc = "done" /\ c.spc = call[k].spc /\ SameList(call[k], c)
    BY <1>1, <1>2, ReturnedFields
  <1> HIDE DEF c
  <1> QED
    BY <1>1, <1>3, <1>4, LeftListed

LEMMA HandleSignalListed ==
  ASSUME ListInv, ShapeInv', NEW k \in Calls, HandleSignal(k)
  PROVE  ListInv'
  <1> DEFINE c == [call[k] EXCEPT !.pc = "killed", !.cancelled = TRUE, !.down = <<>>]
  <1>1. call[k] \in CallRecord /\ Set(k, c) /\ UNCHANGED <<dir, data, req>>
    BY ListFacts DEF HandleSignal
  <1>2. c \in CallRecord /\ c.pc = "killed" /\ c.spc = call[k].spc /\ SameList(call[k], c)
    BY <1>1, NothingSent DEF CallRecord, Pcs, SameList
  <1> HIDE DEF c
  <1> QED
    BY <1>1, <1>2, LeftListed

LEMMA DeadlineListed ==
  ASSUME ListInv, ShapeInv', NEW k \in Calls, Deadline(k)
  PROVE  ListInv'
  <1> DEFINE b == call[k]
             c == [b EXCEPT !.cancelled = TRUE]
  <1>1. /\ b \in CallRecord /\ ListOk(req[k], b) /\ DueThere(b) /\ Set(k, c)
        /\ UNCHANGED <<dir, data, req>>
    BY ListFacts DEF Deadline
  <1>2. /\ c \in CallRecord
        /\ c.pc = b.pc /\ c.down = b.down /\ c.spc = b.spc /\ c.cancelled = TRUE
        /\ c.map = b.map /\ c.entry = b.entry /\ c.listed = b.listed /\ c.due = b.due
        /\ c.ever = b.ever
    BY <1>1 DEF CallRecord
  <1> HIDE DEF c
  <1>3. ListAnswers(b) => ListAnswers(c)
    BY <1>2 DEF ListAnswers
  <1>4. ListOk(req[k], c) /\ (Listing(c) => \A f \in c.due : dir[f] # None)
    BY <1>1, <1>2, <1>3 DEF ListOk, DueThere, Listing
  <1> QED
    BY <1>1, <1>2, <1>4, SetList

(* The handler's return, with whatever reply fits its list.                *)
LEMMA RepliedList ==
  ASSUME NEW q, NEW c \in CallRecord, Shape(q, c), ListOk(q, c), c.spc # "none",
         NEW r \in Replies,
         r = "OK" => c.spc = "read_dir" /\ c.due \subseteq c.listed
  PROVE  LET d == Replied(c, r) IN d \in CallRecord /\ ListOk(q, d) /\ ~Listing(d)
  <1> DEFINE d == Replied(c, r)
  <1>1. /\ d \in CallRecord
        /\ d.spc = "done" /\ d.reply = r /\ d.pc = c.pc /\ d.cancelled = c.cancelled
        /\ d.down = c.down /\ d.entry = c.entry /\ d.listed = c.listed /\ d.map = c.map
        /\ d.due = c.due /\ d.ever = c.ever
    BY RepliedFields DEF SameList
  <1> HIDE DEF d
  <1>2. ASSUME ListAnswers(c) PROVE ListAnswers(d)
    BY <1>1, <1>2 DEF ListAnswers, Listing, OnItsWay
  <1>3. ListOk(q, d) /\ ~Listing(d)
    BY <1>1, <1>2 DEF ListOk, Listing
  <1> QED
    BY <1>1, <1>3 DEF d

LEMMA ReplyListed ==
  ASSUME ListInv, ShapeInv', NEW k \in Calls, call[k].spc # "none",
         NEW r \in Replies, Set(k, Replied(call[k], r)), UNCHANGED <<dir, data, req>>,
         r = "OK" => call[k].spc = "read_dir" /\ call[k].due \subseteq call[k].listed
  PROVE  ListInv'
  <1> DEFINE c == Replied(call[k], r)
  <1>1. call[k] \in CallRecord /\ Shape(req[k], call[k]) /\ ListOk(req[k], call[k])
    BY ListFacts
  <1>2. c \in CallRecord /\ ListOk(req[k], c) /\ ~Listing(c)
    BY <1>1, RepliedList
  <1>3. Set(k, c)
    OBVIOUS
  <1> HIDE DEF c
  <1> QED
    BY <1>2, <1>3, SetList

LEMMA BeginListed ==
  ASSUME ListInv, ShapeInv', NEW k \in Calls, Begin(k)
  PROVE  ListInv'
  <1>1. /\ call[k] \in CallRecord /\ ListOk(req[k], call[k]) /\ call[k].spc = "start"
        /\ UNCHANGED <<dir, data, req>> /\ req[k].op \in AllCommands
    BY ListFacts, Part1Assumption DEF Begin, SAt, Request
  <1>2. CASE call[k].cancelled
    BY <1>1, <1>2, ReplyListed DEF Begin, Replies
  <1>3. CASE ~call[k].cancelled
    <2> DEFINE b == call[k]
               spc == CASE req[k].op = "store" -> "read_header"
                        [] req[k].op = "fetch" -> "fetch_stat"
                        [] req[k].op = "delete" -> "remove"
                        [] req[k].op = "list" -> "open_dir"
                        [] req[k].op = "stat" -> "stat_file"
               c == [b EXCEPT !.spc = spc]
    <2>1. spc \in {"read_header", "fetch_stat", "remove", "open_dir", "stat_file"}
      BY <1>1 DEF AllCommands
    <2>2. Set(k, c)
      BY <1>3 DEF Begin
    <2> HIDE DEF spc
    <2>3. spc \in ServerPcs
      BY <2>1 DEF ServerPcs
    <2>4. b \in CallRecord
      BY <1>1
    <2> HIDE DEF b
    <2>5. c \in CallRecord
      BY <2>3, <2>4 DEF CallRecord
    <2>6. c.pc = b.pc /\ c.down = b.down /\ c.spc = spc /\ c.cancelled = b.cancelled
      BY <2>4 DEF CallRecord
    <2>7. c.map = b.map /\ c.entry = b.entry /\ c.listed = b.listed /\ c.due = b.due
      BY <2>4 DEF CallRecord
    <2>8. c.ever = b.ever /\ c.reply = b.reply
      BY <2>4 DEF CallRecord
    <2> USE DEF b
    <2>9. /\ c \in CallRecord
          /\ c.pc = b.pc /\ c.down = b.down /\ c.spc = spc /\ c.cancelled = b.cancelled
          /\ c.map = b.map /\ c.entry = b.entry /\ c.listed = b.listed /\ c.due = b.due
          /\ c.ever = b.ever /\ c.reply = b.reply
      BY <2>5, <2>6, <2>7, <2>8
    <2> HIDE DEF c
    <2>10. ListAnswers(b) => ListAnswers(c)
      BY <1>1, <2>1, <2>9 DEF ListAnswers, Listing, OnItsWay
    <2>11. ListOk(req[k], c) /\ ~Listing(c)
      BY <1>1, <2>1, <2>9, <2>10 DEF ListOk, Listing
    <2> QED
      BY <1>1, <2>2, <2>9, <2>11, SetList
  <1> QED
    BY <1>2, <1>3

LEMMA OpenDirListed ==
  ASSUME ListInv, ShapeInv', NEW k \in Calls, OpenDir(k)
  PROVE  ListInv'
  <1> DEFINE b == call[k]
             there == {f \in Files : dir[f] # None}
             c == [b EXCEPT !.spc = "read_dir", !.due = there, !.ever = there]
  <1>1. /\ b \in CallRecord /\ ListOk(req[k], b) /\ b.spc = "open_dir"
        /\ Shape(req[k], b) /\ UNCHANGED <<dir, data, req>>
    BY ListFacts DEF OpenDir, SAt
  <1>2. CASE Set(k, Replied(b, "INTERNAL"))
    BY <1>1, <1>2, ReplyListed DEF Replies
  <1>3. CASE Set(k, c)
    <2>1. there \subseteq Files /\ \A f \in there : dir[f] # None
      OBVIOUS
    <2> HIDE DEF there
    <2>2. c \in CallRecord
      BY <1>1, <2>1 DEF CallRecord, ServerPcs
    <2>3. /\ c.pc = b.pc /\ c.down = b.down /\ c.spc = "read_dir" /\ c.cancelled = b.cancelled
          /\ c.map = b.map /\ c.entry = b.entry /\ c.listed = b.listed /\ c.reply = b.reply
          /\ c.due = there /\ c.ever = there
      BY <1>1 DEF CallRecord
    <2> HIDE DEF c
    <2>4. b.reply = None /\ (req[k].op = "list" => b.listed = {})
      BY <1>1 DEF Shape, HandlerShape, ListOk, Listing
    <2>5. ASSUME req[k].op = "list", ListAnswers(b) PROVE ListAnswers(c)
      <3>1. Shown(b.down) = {} /\ \A f \in Files : b.map[f] = None
        BY <2>4, <2>5 DEF ListAnswers
      <3> QED
        BY <1>1, <2>1, <2>3, <2>4, <2>5, <3>1, NoneIsNoReply DEF ListAnswers
    <2>6. ListOk(req[k], c) /\ \A f \in c.due : dir[f] # None
      BY <1>1, <2>1, <2>3, <2>4, <2>5 DEF ListOk, Listing
    <2> QED
      BY <1>1, <1>3, <2>2, <2>6, SetList
  <1> QED
    BY <1>2, <1>3 DEF OpenDir

LEMMA ReadDirListed ==
  ASSUME ListInv, ShapeInv', NEW k \in Calls, ReadDir(k)
  PROVE  ListInv'
  <1> DEFINE b == call[k]
  <1>1. /\ b \in CallRecord /\ ListOk(req[k], b) /\ DueThere(b) /\ b.spc = "read_dir"
        /\ Shape(req[k], b) /\ UNCHANGED <<dir, data, req>> /\ b.ever \subseteq Files
        /\ b.listed \subseteq Files
    BY ListFacts DEF ReadDir, SAt, CallRecord
  <1>2. PICK f \in b.ever :
          Set(k, [b EXCEPT !.entry = f, !.listed = b.listed \cup {f}, !.spc = "stat_entry"])
    BY DEF ReadDir
  <1> DEFINE listed == b.listed \cup {f}
             c == [b EXCEPT !.entry = f, !.listed = listed, !.spc = "stat_entry"]
  <1>3. listed \in SUBSET Files /\ Set(k, c) /\ f \in Files
    BY <1>1, <1>2
  <1> HIDE DEF listed
  <1>4. c \in CallRecord
    BY <1>1, <1>3 DEF CallRecord, ServerPcs
  <1>5. /\ c.pc = b.pc /\ c.down = b.down /\ c.spc = "stat_entry" /\ c.cancelled = b.cancelled
        /\ c.map = b.map /\ c.entry = f /\ c.listed = listed /\ c.reply = b.reply
        /\ c.due = b.due /\ c.ever = b.ever
    BY <1>1 DEF CallRecord
  <1> HIDE DEF c
  <1>6. b.reply = None
    BY <1>1 DEF Shape, HandlerShape
  <1>7. ASSUME ListAnswers(b) PROVE ListAnswers(c)
    <2>1. \A g \in c.due \cap c.listed : OnItsWay(b, g) => OnItsWay(c, g)
      BY <1>1, <1>5 DEF OnItsWay
    <2>2. ~c.cancelled => \A g \in c.due \cap c.listed : OnItsWay(c, g)
      BY <1>1, <1>5, <1>7, <2>1 DEF ListAnswers, Listing, OnItsWay, listed
    <2> QED
      BY <1>1, <1>5, <1>6, <1>7, <2>2, Part1Assumption DEF ListAnswers, Listing, listed
  <1>8. ListOk(req[k], c) /\ \A g \in c.due : dir[g] # None
    BY <1>1, <1>2, <1>5, <1>7 DEF ListOk, DueThere, Listing, listed
  <1> QED
    BY <1>1, <1>3, <1>4, <1>8, SetList

LEMMA StatEntryListed ==
  ASSUME ListInv, ShapeInv', NEW k \in Calls, StatEntry(k)
  PROVE  ListInv'
  <1> DEFINE b == call[k]
             date == IF dir[b.entry] = None THEN b.date ELSE b.entry
             x == [name |-> b.entry, date |-> date]
             d == SentDown(b, x)
             c == [d EXCEPT !.date = date, !.spc = "read_dir"]
  <1>1. /\ b \in CallRecord /\ ListOk(req[k], b) /\ DueThere(b) /\ b.spc = "stat_entry"
        /\ Shape(req[k], b) /\ UNCHANGED <<dir, data, req>> /\ b.due \subseteq Files
    BY ListFacts DEF StatEntry, SAt
  <1>2. req[k].op = "list" /\ b.entry \in Files /\ b.pc # "idle" /\ b.reply = None
    BY <1>1 DEF Shape, ClientShape, HandlerShape, NewCall
  <1>3. date \in Files \cup {0} /\ x \in Entries
    BY <1>1, <1>2 DEF CallRecord, Entries
  <1>4. x.name = b.entry /\ (x.name \in b.due => x.date = x.name)
    BY <1>1 DEF DueThere, Listing
  <1>5. Set(k, c)
    BY DEF StatEntry
  <1> HIDE DEF x, date
  <1>6. /\ d \in CallRecord /\ SameEnds(b, d) /\ SameList(b, d)
        /\ d.down = IF b.cancelled THEN b.down ELSE Append(b.down, x)
    BY <1>1, <1>3, SentDownFields
  <1> HIDE DEF d
  <1>7. "read_dir" \in ServerPcs
    BY DEF ServerPcs
  <1>8. /\ c \in CallRecord
        /\ c.pc = d.pc /\ c.down = d.down /\ c.spc = "read_dir" /\ c.cancelled = d.cancelled
        /\ c.map = d.map /\ c.listed = d.listed /\ c.reply = d.reply
        /\ c.due = d.due /\ c.ever = d.ever
    BY <1>3, <1>6, <1>7 DEF CallRecord
  <1> HIDE DEF c
  <1>9. /\ c.pc = b.pc /\ c.cancelled = b.cancelled /\ c.map = b.map /\ c.listed = b.listed
        /\ c.reply = None /\ c.due = b.due /\ c.ever = b.ever
        /\ c.down = IF b.cancelled THEN b.down ELSE Append(b.down, x)
    BY <1>2, <1>6, <1>8 DEF SameEnds, SameList
  <1>10. Shown(c.down) = IF b.cancelled THEN Shown(b.down) ELSE Shown(b.down) \cup {x}
    <2>1. b.down \in Seq(Entries)
      BY <1>1, <1>2 DEF Shape, StreamShape
    <2>2. Shown(Append(b.down, x)) = Shown(b.down) \cup {x}
      BY <1>3, <2>1, ShownSteps
    <2> HIDE DEF b
    <2> QED
      BY <1>9, <2>2
  <1>11. b.entry \in b.listed
    BY <1>1, <1>2 DEF ListOk
  <1>12. ASSUME ListAnswers(b) PROVE ListAnswers(c)
    <2>1. \A y \in Shown(c.down) : y.name \in c.listed /\ (y.name \in c.due => y.date = y.name)
      BY <1>4, <1>9, <1>10, <1>11, <1>12 DEF ListAnswers
    <2>2. ~c.cancelled => \A f \in c.due \cap c.listed : OnItsWay(c, f)
      BY <1>1, <1>4, <1>9, <1>10, <1>12 DEF ListAnswers, Listing, OnItsWay
    <2>3. ~c.cancelled => c.pc # "finish"
      BY <1>1, <1>9, <1>12 DEF ListAnswers
    <2> QED
      BY <1>9, <1>12, <2>1, <2>2, <2>3, NoneIsNoReply DEF ListAnswers
  <1>13. ListOk(req[k], c) /\ \A f \in c.due : dir[f] # None
    BY <1>1, <1>2, <1>8, <1>9, <1>12 DEF ListOk, DueThere, Listing
  <1> QED
    BY <1>1, <1>5, <1>8, <1>13, SetList

LEMMA ReadDirEndListed ==
  ASSUME ListInv, ShapeInv', NEW k \in Calls, ReadDirEnd(k)
  PROVE  ListInv'
  BY ReplyListed DEF ReadDirEnd, SAt, Replies

LEMMA CrashListed ==
  ASSUME ListInv, ShapeInv', Crash
  PROVE  ListInv'
  <1> SUFFICES ASSUME NEW k \in Calls
               PROVE  ListOk(req'[k], call'[k]) /\ DueThere(call[k])'
    BY DEF ListInv
  <1>1. /\ call'[k] = IF Serving(k) THEN Settled(Replied(call[k], "UNAVAILABLE")) ELSE call[k]
        /\ UNCHANGED <<dir, data, local, req>>
    BY DEF Crash
  <1>2. /\ call[k] \in CallRecord /\ Shape(req[k], call[k]) /\ ListOk(req[k], call[k])
        /\ DueThere(call[k])
    BY ListFacts
  <1>3. CASE Serving(k)
    <2> DEFINE c == Replied(call[k], "UNAVAILABLE")
    <2>1. c \in CallRecord /\ ListOk(req[k], c) /\ ~Listing(c)
      BY <1>2, <1>3, RepliedList DEF Serving, Replies
    <2>2. call'[k] = Settled(c)
      BY <1>1, <1>3
    <2> HIDE DEF c
    <2> QED
      BY <1>1, <2>1, <2>2, SettledList DEF DueThere
  <1>4. CASE ~Serving(k)
    BY <1>1, <1>2, <1>4 DEF DueThere
  <1> QED
    BY <1>3, <1>4

LEMMA InitListed == Init => ListInv
  <1> SUFFICES ASSUME Init PROVE ListInv
    OBVIOUS
  <1>1. ASSUME NEW k \in Calls PROVE ListOk(req[k], call[k]) /\ DueThere(call[k])
    <2>1. call[k] = NewCall
      BY DEF Init
    <2>2. /\ NewCall.pc = "idle" /\ NewCall.spc = "none" /\ NewCall.listed = {}
          /\ NewCall.due = {} /\ NewCall.ever = {}
      BY DEF NewCall
    <2> QED
      BY <2>1, <2>2 DEF ListOk, DueThere, Listing
  <1> QED
    BY <1>1, InitShaped DEF ListInv

LEMMA StepListed ==
  ASSUME ListInv, [Next]_vars
  PROVE  ListInv'
  <1>1. ShapeInv'
    BY StepShapes DEF ListInv
  <1>2. CASE UNCHANGED vars
    BY <1>1, <1>2 DEF vars, ListInv, DueThere
  <1>3. CASE Crash
    BY <1>1, <1>3, CrashListed
  <1>4. ASSUME NEW k \in Calls, Start(k) \/ Client(k) \/ Deadline(k) \/ HandleSignal(k)
        PROVE  ListInv'
    BY <1>1, <1>4, StartListed, TransfersListed, ListEntryListed, ListEndListed, FinishListed,
       DeadlineListed, HandleSignalListed DEF Client
  <1>5. ASSUME NEW k \in Calls, Handler(k)
        PROVE  ListInv'
    BY <1>1, <1>5, BeginListed, TransfersListed, OpenDirListed, ReadDirListed, StatEntryListed,
       ReadDirEndListed DEF Handler
  <1> QED
    BY <1>2, <1>3, <1>4, <1>5 DEF Next

(* A list that returns OK shows every file that was there throughout, with *)
(* its own date, whoever stored or deleted files meanwhile, and none that  *)
(* never was: readdir gives each such file once, stat finds it, the entry  *)
(* stays in the stream until the client takes it, and the client leaves    *)
(* with OK only after the stream's end.                                    *)
THEOREM ListsAreComplete == Spec => OkListIsComplete
  <1> DEFINE Complete ==
        \A k \in Calls :
          Returns(k, "list") =>
              /\ \A f \in call[k].due : call[k].map[f] = f
              /\ \A f \in Files : call[k].map[f] # None => f \in call[k].ever
  <1>1. ASSUME ListInv, [Next]_vars PROVE Complete
    <2> SUFFICES ASSUME NEW k \in Calls, Returns(k, "list")
                 PROVE  /\ \A f \in call[k].due : call[k].map[f] = f
                        /\ \A f \in Files : call[k].map[f] # None => f \in call[k].ever
      OBVIOUS
    <2>1. /\ call[k].pc = "finish" /\ ~call[k].cancelled /\ call[k].reply = "OK"
          /\ req[k].op = "list"
      BY <1>1, OnlyFinishReturnsOk DEF Returns, ListInv
    <2>2. ListOk(req[k], call[k])
      BY <1>1, ListFacts
    <2>3. ListAnswers(call[k]) /\ call[k].listed \subseteq call[k].ever
      BY <2>1, <2>2 DEF ListOk
    <2>4. /\ call[k].due \subseteq call[k].listed /\ call[k].down = <<>>
          /\ call[k].spc = "done" /\ Shown(call[k].down) = {}
      BY <2>1, <2>3, NothingSent, ShownSteps DEF ListAnswers
    <2> QED
      BY <2>1, <2>3, <2>4 DEF ListAnswers, OnItsWay
  <1>2. ListInv /\ [Next]_vars => [Complete]_vars
    BY <1>1
  <1> HIDE DEF Complete
  <1>3. Spec => [][Complete]_vars
    BY <1>2, InitListed, StepListed, PTL DEF Spec
  <1> QED
    BY <1>3 DEF OkListIsComplete, Complete

----------------------------------------------------------------------------
(* How far either end can be while the other is at work.                   *)

(* What becomes of one end of a call c with request r when the other ends: *)
(* a command runs as long as its handler, or has the reply; a client that  *)
(* left has cancelled the call; one that waits for the status has closed   *)
(* its stream, or seen the handler's end of it.                            *)
Link(r, c) ==
    /\ c.pc \notin {"idle", "done", "killed"} => c.spc # "none"
    /\ c.pc \notin {"idle", "done", "killed"} /\ c.spc = "done" => c.reply # None
    /\ c.pc \in {"done", "killed"} /\ c.spc \notin {"none", "done"} => c.cancelled
    /\ c.pc = "finish" /\ r.op = "store" => c.half
    /\ c.pc = "finish" /\ r.op \in {"fetch", "list"} => c.cancelled \/ c.reply # None

LinkInv == ShapeInv /\ \A k \in Calls : Link(req[k], call[k])

LEMMA SettledLink ==
  ASSUME NEW r, NEW c, Link(r, c)
  PROVE  Link(r, Settled(c))
  <1>1. CASE c.pc \in {"done", "killed"} /\ c.spc \in {"none", "done"}
    <2>1. Settled(c).pc = c.pc /\ Settled(c).spc = c.spc
      BY <1>1 DEF Settled, NewCall
    <2> QED
      BY <1>1, <2>1 DEF Link
  <1>2. CASE ~(c.pc \in {"done", "killed"} /\ c.spc \in {"none", "done"})
    BY <1>2 DEF Settled
  <1> QED
    BY <1>1, <1>2

(* A step of call k.                                                       *)
LEMMA LinkStep ==
  ASSUME LinkInv, ShapeInv', NEW k \in Calls, NEW c, call'[k] \in {c, Settled(c)},
         Link(req'[k], c),
         \A j \in Calls \ {k} : req'[j] = req[j] /\ SameButWitness(call[j], call'[j])
  PROVE  LinkInv'
  <1>1. Link(req'[k], call'[k])
    BY SettledLink
  <1>2. ASSUME NEW j \in Calls \ {k} PROVE Link(req'[j], call'[j])
    <2>1. Link(req[j], call[j]) /\ req'[j] = req[j] /\ SameButWitness(call[j], call'[j])
      BY DEF LinkInv
    <2> QED
      BY <2>1 DEF Link, SameButWitness, SameEnds
  <1> QED
    BY <1>1, <1>2 DEF LinkInv

LEMMA SetLink ==
  ASSUME LinkInv, ShapeInv', NEW k \in Calls, NEW c, Set(k, c), Link(req'[k], c),
         \A j \in Calls \ {k} : req'[j] = req[j]
  PROVE  LinkInv'
  <1>1. call'[k] = Settled(c) /\ \A j \in Calls \ {k} : call'[j] = call[j]
    BY SetOthers DEF LinkInv
  <1>2. \A j \in Calls \ {k} : SameButWitness(call[j], call'[j])
    BY <1>1 DEF SameButWitness, SameEnds
  <1> QED
    BY <1>1, <1>2, LinkStep

(* What a step of the handler, or of the client, may change.               *)
HandlerMoves(c, d) ==
    /\ d.pc = c.pc /\ d.half = c.half /\ d.cancelled = c.cancelled
    /\ d.spc # "none"
    /\ d.spc = "done" \/ c.reply # None => d.reply # None

ClientMoves(r, c, d) ==
    /\ d.spc = c.spc /\ d.reply = c.reply /\ (c.cancelled => d.cancelled)
    /\ d.pc # "idle"
    /\ d.pc \in {"done", "killed"} => d.cancelled
    /\ d.pc = "finish" /\ r.op = "store" => d.half
    /\ d.pc = "finish" /\ r.op \in {"fetch", "list"} => d.cancelled \/ d.reply # None

LEMMA HandlerMovesLink ==
  ASSUME NEW r, NEW c, NEW d, Link(r, c), HandlerMoves(c, d), c.spc \notin {"none", "done"}
  PROVE  Link(r, d)
  BY DEF Link, HandlerMoves

LEMMA ClientMovesLink ==
  ASSUME NEW r, NEW c, NEW d, Link(r, c), ClientMoves(r, c, d),
         c.pc \notin {"idle", "done", "killed"}
  PROVE  Link(r, d)
  BY DEF Link, ClientMoves

LEMMA RepliedMoves ==
  ASSUME NEW c \in CallRecord, NEW r \in Replies
  PROVE  HandlerMoves(c, Replied(c, r))
  <1> DEFINE d == Replied(c, r)
  <1>1. d.spc = "done" /\ d.reply = r /\ d.pc = c.pc /\ d.half = c.half
        /\ d.cancelled = c.cancelled
    BY RepliedFields
  <1> HIDE DEF d
  <1>2. HandlerMoves(c, d)
    BY <1>1, NoneIsNoReply DEF HandlerMoves
  <1> QED
    BY <1>2 DEF d
LEMMA HandlerLinks ==
  ASSUME ShapeInv, NEW k \in Calls, Handler(k)
  PROVE  \E d : HandlerMoves(call[k], d) /\ call'[k] \in {d, Settled(d)}
  <1> DEFINE b == call[k]
             Goal == \E d : HandlerMoves(b, d) /\ call'[k] \in {d, Settled(d)}
  <1>1. b \in CallRecord /\ Shape(req[k], b)
    BY DEF ShapeInv, CallsShaped
  <1>2. ASSUME NEW d, HandlerMoves(b, d), Set(k, d) PROVE Goal
    BY <1>2, SetOthers
  <1>3. CASE \E r \in Replies : Set(k, Replied(b, r))
    BY <1>1, <1>2, <1>3, RepliedMoves
  <1>4. ASSUME NEW x, x \notin {"none", "done"}
        PROVE  HandlerMoves(b, [b EXCEPT !.spc = x])
    BY <1>1, <1>4 DEF HandlerMoves, CallRecord
  <1>5. CASE Begin(k)
    <2> DEFINE spc == CASE req[k].op = "store" -> "read_header"
                        [] req[k].op = "fetch" -> "fetch_stat"
                        [] req[k].op = "delete" -> "remove"
                        [] req[k].op = "list" -> "open_dir"
                        [] req[k].op = "stat" -> "stat_file"
    <2>1. req[k].op \in AllCommands
      <3>1. b.spc = "start"
        BY <1>5 DEF Begin, SAt
      <3>2. b.pc # "idle"
        BY <1>1, <3>1 DEF Shape, ClientShape, NewCall
      <3> QED
        BY <1>1, <3>2, Part1Assumption DEF Shape, ClientShape, Request
    <2>2. spc \notin {"none", "done"}
      BY <2>1 DEF AllCommands
    <2>3. Set(k, Replied(b, "DEADLINE_EXCEEDED")) \/ Set(k, [b EXCEPT !.spc = spc])
      BY <1>5 DEF Begin
    <2> HIDE DEF spc
    <2> QED
      BY <1>2, <1>3, <1>4, <2>2, <2>3 DEF Replies
  <1>6. CASE ReadHeader(k)
    <2> DEFINE c == [b EXCEPT !.up = Tail(b.up), !.spc = "open"]
    <2>1. Set(k, Replied(b, "NOT_FOUND")) \/ Set(k, c)
      BY <1>6 DEF ReadHeader
    <2>2. HandlerMoves(b, c)
      BY <1>1 DEF HandlerMoves, CallRecord
    <2> HIDE DEF c
    <2> QED
      BY <1>2, <1>3, <2>1, <2>2 DEF Replies
  <1>7. CASE OpenFails(k) \/ StatAfterWrite(k) \/ ReadEnd(k) \/ StatFile(k) \/ ReadDirEnd(k)
    BY <1>3, <1>7 DEF OpenFails, StatAfterWrite, ReadEnd, StatFile, ReadDirEnd, Replies
  <1>8. CASE OpenForWrite(k)
    <2> DEFINE n == IF dir[req[k].file] = None THEN k ELSE dir[req[k].file]
               w == Witnessed(k, req[k].file, TRUE)
               c == [b EXCEPT !.spc = "write", !.fd = n]
    <2>1. /\ call' = [w EXCEPT ![k].spc = "write", ![k].fd = n] /\ w[k] = b
          /\ DOMAIN w = Calls
      BY <1>8 DEF OpenForWrite, Witnessed, SAt, Listing
    <2> HIDE DEF w, n
    <2>2. call'[k] = c
      BY <2>1
    <2>3. HandlerMoves(b, c)
      BY <1>1 DEF HandlerMoves, CallRecord
    <2> HIDE DEF c
    <2> QED
      BY <2>2, <2>3
  <1>9. CASE WriteChunk(k)
    <2> DEFINE x == Head(b.up)
               d == Taken(b, x)
               r == [d EXCEPT !.up = Tail(d.up)]
               e == [r EXCEPT !.bad = TRUE]
               w == Witnessed(k, req[k].file, dir[req[k].file] # None)
    <2>1. SameEnds(b, d) /\ SameEnds(d, r) /\ SameEnds(r, e) /\ b.spc = "write"
      BY <1>1, <1>9 DEF Taken, CallRecord, SameEnds, WriteChunk, SAt
    <2>2. call' = [w EXCEPT ![k] = r] \/ Set(k, e)
      BY <1>9 DEF WriteChunk
    <2>3. k \in DOMAIN w
      BY DEF Witnessed
    <2> HIDE DEF w, e, r, d
    <2>4. HandlerMoves(b, r) /\ HandlerMoves(b, e)
      BY <2>1 DEF SameEnds, HandlerMoves
    <2> QED
      BY <1>2, <2>2, <2>3, <2>4
  <1>10. CASE EndOfStream(k)
    <2> DEFINE w == Witnessed(k, req[k].file, dir[req[k].file] # None)
               c == [b EXCEPT !.spc = "stat", !.lost = TRUE]
               d == [b EXCEPT !.spc = "stat"]
    <2>1. Set(k, Replied(b, "NOT_FOUND")) \/ call' = [w EXCEPT ![k].spc = "stat"] \/ Set(k, c)
      BY <1>10 DEF EndOfStream
    <2>2. k \in DOMAIN w /\ w[k] = b
      BY <1>10 DEF Witnessed, EndOfStream, SAt, Listing
    <2> HIDE DEF w
    <2>3. call' = [w EXCEPT ![k].spc = "stat"] => call'[k] = d
      BY <2>2
    <2>4. HandlerMoves(b, c) /\ HandlerMoves(b, d)
      BY <1>1, <1>4 DEF HandlerMoves, CallRecord
    <2> HIDE DEF c, d
    <2> QED
      BY <1>2, <1>3, <2>1, <2>3, <2>4 DEF Replies
  <1>11. ASSUME NEW m PROVE SameEnds(b, SentDown(b, m))
    BY <1>1 DEF SentDown, SameEnds, CallRecord
  <1>12. CASE FetchStat(k)
    <2> DEFINE d == SentDown(b, Header)
               c == [d EXCEPT !.spc = "open_read"]
    <2>1. Set(k, Replied(b, "NOT_FOUND")) \/ Set(k, c)
      BY <1>12 DEF FetchStat
    <2>2. d \in CallRecord /\ SameEnds(b, d)
      BY <1>1, MessagesSent, SentDownFields
    <2> HIDE DEF d
    <2>3. HandlerMoves(b, c)
      BY <2>2 DEF HandlerMoves, CallRecord, SameEnds
    <2> HIDE DEF c
    <2> QED
      BY <1>2, <1>3, <2>1, <2>3 DEF Replies
  <1>13. CASE StatEntry(k)
    <2> DEFINE date == IF dir[b.entry] = None THEN b.date ELSE b.entry
               d == SentDown(b, [name |-> b.entry, date |-> date])
               c == [d EXCEPT !.date = date, !.spc = "read_dir"]
    <2>1. [name |-> b.entry, date |-> date] \in Entries
      BY <1>1, <1>13 DEF StatEntry, SAt, Shape, HandlerShape, CallRecord, Entries
    <2>2. d \in CallRecord /\ SameEnds(b, d)
      BY <1>1, <2>1, SentDownFields
    <2>3. Set(k, c)
      BY <1>13 DEF StatEntry
    <2> HIDE DEF d, date
    <2>4. HandlerMoves(b, c)
      BY <2>2 DEF HandlerMoves, CallRecord, SameEnds
    <2> HIDE DEF c
    <2> QED
      BY <1>2, <2>3, <2>4
  <1>14. CASE OpenForRead(k)
    <2> DEFINE c == [b EXCEPT !.spc = "read", !.fd = dir[req[k].file]]
    <2>1. Set(k, Replied(b, "NOT_FOUND")) \/ Set(k, c)
      BY <1>14 DEF OpenForRead
    <2>2. HandlerMoves(b, c)
      BY <1>1 DEF HandlerMoves, CallRecord
    <2> HIDE DEF c
    <2> QED
      BY <1>2, <1>3, <2>1, <2>2 DEF Replies
  <1>15. CASE ReadChunk(k)
    <2> DEFINE i == b.sent + 1
               x == Message(data[b.fd], i)
               d == SentDown(b, x)
               spc == IF x.small THEN "read_end" ELSE "read"
               c == [d EXCEPT !.sent = i, !.spc = spc]
    <2>1. Set(k, c) /\ b.spc = "read"
      BY <1>15 DEF ReadChunk, SAt
    <2>2. SameEnds(b, d) /\ spc \notin {"none", "done"}
      BY <1>11
    <2>3. c.pc = d.pc /\ c.half = d.half /\ c.cancelled = d.cancelled /\ c.reply = d.reply
          /\ c.spc = spc
      <3>1. d = b \/ d = [b EXCEPT !.down = Append(b.down, x)]
        BY DEF SentDown
      <3> HIDE DEF x, i, spc, d
      <3> QED
        BY <1>1, <3>1 DEF CallRecord
    <2> HIDE DEF c, d, spc
    <2>4. HandlerMoves(b, c)
      BY <2>2, <2>3 DEF HandlerMoves, SameEnds
    <2> QED
      BY <1>2, <2>1, <2>4
  <1>16. CASE Remove(k)
    <2> DEFINE w == Witnessed(k, req[k].file, FALSE)
    <2>1. \/ Set(k, Replied(b, "NOT_FOUND"))
          \/ call' = [w EXCEPT ![k] = Settled(Replied(w[k], "OK"))]
      BY <1>16 DEF Remove
    <2>2. k \in DOMAIN w /\ w[k] = b
      BY <1>16 DEF Witnessed, Remove, SAt, Listing
    <2> HIDE DEF w
    <2>3. CASE call' = [w EXCEPT ![k] = Settled(Replied(w[k], "OK"))]
      <3>1. call'[k] = Settled(Replied(b, "OK"))
        BY <2>2, <2>3
      <3>2. HandlerMoves(b, Replied(b, "OK"))
        BY <1>1, RepliedMoves DEF Replies
      <3> QED
        BY <3>1, <3>2
    <2> QED
      BY <1>3, <2>1, <2>3 DEF Replies
  <1>17. CASE OpenDir(k)
    <2> DEFINE there == {f \in Files : dir[f] # None}
               c == [b EXCEPT !.spc = "read_dir", !.due = there, !.ever = there]
    <2>1. Set(k, Replied(b, "INTERNAL")) \/ Set(k, c)
      BY <1>17 DEF OpenDir
    <2> HIDE DEF there
    <2>2. HandlerMoves(b, c)
      BY <1>1 DEF HandlerMoves, CallRecord
    <2> HIDE DEF c
    <2> QED
      BY <1>2, <1>3, <2>1, <2>2 DEF Replies
  <1>18. CASE ReadDir(k)
    <2>1. PICK f : Set(k, [b EXCEPT !.entry = f, !.listed = b.listed \cup {f},
                                    !.spc = "stat_entry"])
      BY <1>18 DEF ReadDir
    <2> DEFINE c == [b EXCEPT !.entry = f, !.listed = b.listed \cup {f}, !.spc = "stat_entry"]
    <2>2. HandlerMoves(b, c)
      BY <1>1 DEF HandlerMoves, CallRecord
    <2> HIDE DEF c
    <2> QED
      BY <1>2, <2>1, <2>2 DEF c
  <1> QED
    BY <1>5, <1>6, <1>7, <1>8, <1>9, <1>10, <1>12, <1>13, <1>14, <1>15, <1>16, <1>17, <1>18
       DEF Handler

LEMMA ClientRuns ==
  ASSUME NEW k \in Calls, Client(k) \/ Deadline(k) \/ HandleSignal(k)
  PROVE  Running(k) /\ UNCHANGED req
  BY DEF Client, StoreHeader, StoreChunk, StoreDone, FetchOpen, FetchFirst, FetchUnopened,
     FetchChunk, FetchEnd, ListEntry, ListEnd, Finish, Deadline, HandleSignal, At, Running

LEMMA ClientLinks ==
  ASSUME ShapeInv, NEW k \in Calls, Link(req[k], call[k]),
         Client(k) \/ Deadline(k) \/ HandleSignal(k)
  PROVE  \E d : ClientMoves(req[k], call[k], d) /\ Set(k, d)
  <1> DEFINE b == call[k]
             r == req[k]
             Goal == \E d : ClientMoves(r, b, d) /\ Set(k, d)
  <1>1. b \in CallRecord /\ Shape(r, b) /\ Running(k) /\ Link(r, b)
    BY ClientRuns DEF ShapeInv, CallsShaped
  <1>2. ASSUME NEW x \in Codes PROVE ClientMoves(r, b, Returned(b, x))
    <2> DEFINE d == Returned(b, x)
    <2>1. d.pc = "done" /\ d.cancelled = TRUE /\ d.spc = b.spc /\ d.reply = b.reply
      BY <1>1, ReturnedFields
    <2> HIDE DEF d
    <2>2. ClientMoves(r, b, d)
      BY <2>1 DEF ClientMoves
    <2> QED
      BY <2>2 DEF d
  <1>3. CASE StoreHeader(k)
    <2> DEFINE d == SentUp(b, Header)
               c == [d EXCEPT !.pc = "send"]
    <2>1. Set(k, c)
      BY <1>3 DEF StoreHeader
    <2>2. d \in CallRecord /\ SameEnds(b, d)
      BY <1>1, MessagesSent, SentUpFields
    <2> HIDE DEF d
    <2>3. ClientMoves(r, b, c)
      BY <2>2 DEF ClientMoves, CallRecord, SameEnds
    <2> HIDE DEF c
    <2> QED
      BY <2>1, <2>3
  <1>4. CASE StoreChunk(k)
    <2> DEFINE i == b.sent + 1
               m == Message(Mine(k), i)
               d == SentUp(b, m)
               c == [d EXCEPT !.sent = i]
    <2>1. Set(k, c) /\ b.pc = "send"
      BY <1>4 DEF StoreChunk, At
    <2>2. c.pc = b.pc /\ c.cancelled = b.cancelled /\ c.reply = b.reply /\ c.spc = b.spc
      <3>1. d = b \/ d = [b EXCEPT !.up = Append(b.up, m)]
        BY DEF SentUp
      <3> HIDE DEF m, i, d
      <3> QED
        BY <1>1, <3>1 DEF CallRecord
    <2> HIDE DEF c
    <2>3. ClientMoves(r, b, c)
      BY <2>1, <2>2 DEF ClientMoves
    <2> QED
      BY <2>1, <2>3
  <1>5. CASE StoreDone(k)
    <2> DEFINE c == [b EXCEPT !.half = TRUE, !.pc = "finish"]
    <2>1. Set(k, c) /\ r.op = "store"
      BY <1>5 DEF StoreDone, At
    <2>2. ClientMoves(r, b, c)
      BY <1>1, <2>1 DEF ClientMoves, CallRecord
    <2> HIDE DEF c
    <2> QED
      BY <2>1, <2>2
  <1>6. ASSUME NEW x \in {"first", "first_unopened", "receive"}
        PROVE  ClientMoves(r, b, [b EXCEPT !.pc = x])
    BY <1>1 DEF ClientMoves, CallRecord
  <1>7. CASE FetchOpen(k)
    BY <1>6, <1>7 DEF FetchOpen
  <1>8. CASE FetchFirst(k)
    <2> DEFINE c == [b EXCEPT !.down = Tail(b.down), !.pc = "receive"]
               d == [b EXCEPT !.down = <<>>, !.pc = "receive"]
    <2>1. Set(k, c) \/ Set(k, d)
      BY <1>8 DEF FetchFirst
    <2>2. ClientMoves(r, b, c) /\ ClientMoves(r, b, d)
      BY <1>1 DEF ClientMoves, CallRecord
    <2> HIDE DEF c, d
    <2> QED
      BY <2>1, <2>2
  <1>9. CASE FetchUnopened(k)
    BY <1>2, <1>9 DEF FetchUnopened, Codes
  <1>10. CASE FetchChunk(k)
    <2> DEFINE d == Taken(b, Head(b.down))
               c == [d EXCEPT !.down = Tail(d.down)]
               e == [c EXCEPT !.bad = TRUE]
    <2>1. b.pc = "receive" /\ (Set(k, c) \/ Set(k, e))
      BY <1>10 DEF FetchChunk, At, Taken
    <2>2. SameEnds(b, d) /\ SameEnds(d, c) /\ SameEnds(c, e)
      BY <1>1 DEF Taken, CallRecord, SameEnds
    <2> HIDE DEF d, c, e
    <2>3. ClientMoves(r, b, c) /\ ClientMoves(r, b, e)
      BY <2>1, <2>2 DEF ClientMoves, SameEnds
    <2> QED
      BY <2>1, <2>3
  <1>11. CASE FetchEnd(k)
    <2> DEFINE c == [b EXCEPT !.pc = "finish"]
               d == [b EXCEPT !.pc = "finish", !.lost = TRUE]
    <2>1. /\ r.op = "fetch" /\ (b.cancelled \/ b.reply # None)
          /\ Set(k, Returned(b, "CANCELLED")) \/ Set(k, c) \/ Set(k, d)
      BY <1>11 DEF FetchEnd, At, DownEnded
    <2>2. ClientMoves(r, b, c) /\ ClientMoves(r, b, d)
      BY <1>1, <2>1 DEF ClientMoves, CallRecord
    <2> HIDE DEF c, d
    <2> QED
      BY <1>2, <2>1, <2>2 DEF Codes
  <1>12. CASE ListEntry(k)
    <2> DEFINE x == Head(b.down)
               down == Tail(b.down)
               map == [b.map EXCEPT ![x.name] = IF @ = None THEN x.date ELSE @]
               c == [b EXCEPT !.down = down, !.map = map]
    <2>1. Set(k, c) /\ b.pc = "receive"
      BY <1>12 DEF ListEntry, At
    <2> HIDE DEF map, down
    <2>2. ClientMoves(r, b, c)
      BY <1>1, <2>1 DEF ClientMoves, CallRecord
    <2> HIDE DEF c
    <2> QED
      BY <2>1, <2>2
  <1>13. CASE ListEnd(k)
    <2> DEFINE c == [b EXCEPT !.pc = "finish"]
    <2>1. r.op = "list" /\ (b.cancelled \/ b.reply # None) /\ Set(k, c)
      BY <1>13 DEF ListEnd, At, DownEnded
    <2>2. ClientMoves(r, b, c)
      BY <1>1, <2>1 DEF ClientMoves, CallRecord
    <2> HIDE DEF c
    <2> QED
      BY <2>1, <2>2
  <1>14. CASE Finish(k)
    <2> DEFINE s == IF b.cancelled THEN "DEADLINE_EXCEEDED"
                    ELSE IF b.reply = "FAILURE" THEN "NOT_FOUND" ELSE b.reply
    <2>1. Set(k, Returned(b, s)) /\ (b.cancelled \/ b.reply # None)
      BY <1>14 DEF Finish
    <2>2. s \in Codes
      BY <1>1, <2>1 DEF CallRecord, Codes, Replies
    <2> HIDE DEF s
    <2> QED
      BY <1>2, <2>1, <2>2
  <1>15. CASE Deadline(k)
    <2> DEFINE c == [b EXCEPT !.cancelled = TRUE]
    <2>1. Set(k, c)
      BY <1>15 DEF Deadline
    <2>2. ClientMoves(r, b, c)
      BY <1>1 DEF ClientMoves, CallRecord, Link, Running
    <2> HIDE DEF c
    <2> QED
      BY <2>1, <2>2
  <1>16. CASE HandleSignal(k)
    <2> DEFINE c == [b EXCEPT !.pc = "killed", !.cancelled = TRUE, !.down = <<>>]
    <2>1. Set(k, c)
      BY <1>16 DEF HandleSignal
    <2>2. ClientMoves(r, b, c)
      BY <1>1 DEF ClientMoves, CallRecord
    <2> HIDE DEF c
    <2> QED
      BY <2>1, <2>2
  <1> QED
    BY <1>3, <1>4, <1>5, <1>7, <1>8, <1>9, <1>10, <1>11, <1>12, <1>13, <1>14, <1>15, <1>16
       DEF Client

LEMMA StartLinks ==
  ASSUME LinkInv, ShapeInv', NEW k \in Calls, Start(k)
  PROVE  LinkInv'
  <1>1. PICK r \in Request :
          /\ req' = [req EXCEPT ![k] = r]
          /\ IF r.op = "store" /\ local[r.mount][r.file] = None
             THEN Set(k, Returned(call[k], "NOT_FOUND"))
             ELSE Set(k, [call[k] EXCEPT
                      !.spc = "start",
                      !.pc = CASE r.op = "store" -> "header"
                               [] r.op = "fetch" -> "open"
                               [] r.op = "list" -> "receive"
                               [] OTHER -> "finish"])
    BY DEF Start
  <1>2. call[k] = NewCall /\ call[k] \in CallRecord
    BY DEF Start, LinkInv, ShapeInv, CallsShaped, Shape, ClientShape
  <1>3. req'[k] = r /\ \A j \in Calls \ {k} : req'[j] = req[j]
    BY <1>1 DEF LinkInv, ShapeInv, Typed
  <1>4. CASE r.op = "store" /\ local[r.mount][r.file] = None
    <2> DEFINE c == Returned(call[k], "NOT_FOUND")
    <2>1. c.pc = "done" /\ c.spc = "none"
      BY <1>2 DEF Returned, NewCall
    <2>2. Set(k, c)
      BY <1>1, <1>4
    <2> HIDE DEF c
    <2>3. Link(r, c)
      BY <2>1 DEF Link
    <2> QED
      BY <1>3, <2>2, <2>3, SetLink
  <1>5. CASE ~(r.op = "store" /\ local[r.mount][r.file] = None)
    <2> DEFINE pc == CASE r.op = "store" -> "header"
                       [] r.op = "fetch" -> "open"
                       [] r.op = "list" -> "receive"
                       [] OTHER -> "finish"
               c == [call[k] EXCEPT !.spc = "start", !.pc = pc]
    <2>1. /\ pc \in {"header", "open", "receive", "finish"}
          /\ pc = "finish" => r.op \notin {"store", "fetch", "list"}
      OBVIOUS
    <2>2. Set(k, c)
      BY <1>1, <1>5
    <2> HIDE DEF pc
    <2>3. c.pc = pc /\ c.spc = "start"
      BY <1>2 DEF CallRecord
    <2> HIDE DEF c
    <2>4. Link(r, c)
      BY <2>1, <2>3 DEF Link
    <2> QED
      BY <1>3, <2>2, <2>4, SetLink
  <1> QED
    BY <1>4, <1>5

LEMMA CrashLinks ==
  ASSUME LinkInv, ShapeInv', Crash
  PROVE  LinkInv'
  <1> SUFFICES ASSUME NEW k \in Calls PROVE Link(req'[k], call'[k])
    BY DEF LinkInv
  <1>1. /\ call'[k] = IF Serving(k) THEN Settled(Replied(call[k], "UNAVAILABLE")) ELSE call[k]
        /\ req' = req
    BY DEF Crash
  <1>2. call[k] \in CallRecord /\ Link(req[k], call[k])
    BY DEF LinkInv, ShapeInv, CallsShaped
  <1>3. CASE Serving(k)
    <2> DEFINE c == Replied(call[k], "UNAVAILABLE")
    <2>1. HandlerMoves(call[k], c)
      BY <1>2, RepliedMoves DEF Replies
    <2>2. call'[k] = Settled(c)
      BY <1>1, <1>3
    <2> HIDE DEF c
    <2>3. Link(req[k], c)
      BY <1>2, <1>3, <2>1, HandlerMovesLink DEF Serving
    <2> QED
      BY <1>1, <2>2, <2>3, SettledLink
  <1>4. CASE ~Serving(k)
    BY <1>1, <1>2, <1>4
  <1> QED
    BY <1>3, <1>4

LEMMA InitLinks == Init => LinkInv
  <1> SUFFICES ASSUME Init PROVE LinkInv
    OBVIOUS
  <1>1. ASSUME NEW k \in Calls PROVE Link(req[k], call[k])
    <2>1. call[k].pc = "idle" /\ call[k].spc = "none"
      BY DEF Init, NewCall
    <2> QED
      BY <2>1 DEF Link
  <1> QED
    BY <1>1, InitShaped DEF LinkInv

LEMMA StepLinks ==
  ASSUME LinkInv, [Next]_vars
  PROVE  LinkInv'
  <1>1. ShapeInv /\ ShapeInv'
    BY StepShapes DEF LinkInv
  <1>2. CASE UNCHANGED vars
    BY <1>1, <1>2 DEF vars, LinkInv
  <1>3. CASE Crash
    BY <1>1, <1>3, CrashLinks
  <1>4. ASSUME NEW k \in Calls, Start(k) PROVE LinkInv'
    BY <1>1, <1>4, StartLinks
  <1>5. ASSUME NEW k \in Calls, Client(k) \/ Deadline(k) \/ HandleSignal(k) PROVE LinkInv'
    <2>1. Link(req[k], call[k])
      BY DEF LinkInv
    <2>2. PICK d : ClientMoves(req[k], call[k], d) /\ Set(k, d)
      BY <1>1, <1>5, <2>1, ClientLinks
    <2>3. call[k].pc \notin {"idle", "done", "killed"} /\ UNCHANGED req
      BY <1>5, ClientRuns DEF Running
    <2>4. Link(req'[k], d)
      BY <2>1, <2>2, <2>3, ClientMovesLink
    <2> QED
      BY <1>1, <2>2, <2>3, <2>4, SetLink
  <1>6. ASSUME NEW k \in Calls, Handler(k) PROVE LinkInv'
    <2>1. Link(req[k], call[k]) /\ UNCHANGED req
      BY <1>1, <1>6, HandlerWatched DEF LinkInv
    <2>2. \A j \in Calls \ {k} : req'[j] = req[j] /\ SameButWitness(call[j], call'[j])
      BY <1>1, <1>6, <2>1, HandlerWatched DEF Watches
    <2>3. PICK d : HandlerMoves(call[k], d) /\ call'[k] \in {d, Settled(d)}
      BY <1>1, <1>6, HandlerLinks
    <2>4. call[k].spc \notin {"none", "done"}
      BY <1>6 DEF Handler, SAt, Begin, ReadHeader, OpenForWrite, OpenFails, WriteChunk,
         EndOfStream, StatAfterWrite, FetchStat, OpenForRead, ReadChunk, ReadEnd, Remove,
         StatFile, OpenDir, ReadDir, StatEntry, ReadDirEnd
    <2>5. Link(req'[k], d)
      BY <2>1, <2>3, <2>4, HandlerMovesLink
    <2> QED
      BY <1>1, <2>2, <2>3, <2>5, LinkStep
  <1> QED
    BY <1>2, <1>3, <1>4, <1>5, <1>6 DEF Next

(* A client that waits has a handler at work, and a handler that waits a   *)
(* client; they never both wait, for if one waits for room there is a      *)
(* message for the other, and if one waits for a message the other has     *)
(* still to close its side.                                                *)
LEMMA WaitsApart ==
  ASSUME LinkInv, NEW k \in Calls
  PROVE  /\ Running(k) /\ ClientWaits(k) => Serving(k)
         /\ Serving(k) /\ HandlerWaits(k) => Running(k)
         /\ ~(Running(k) /\ ClientWaits(k) /\ Serving(k) /\ HandlerWaits(k))
  <1> DEFINE c == call[k]
             r == req[k]
  <1>1. /\ c \in CallRecord /\ Link(r, c)
        /\ ClientShape(r, c) /\ HandlerShape(r, c)
    BY DEF LinkInv, ShapeInv, CallsShaped, Shape
  <1>2. ClientWaits(k) => ~c.cancelled /\ c.reply = None
    BY DEF ClientWaits, RoomUp, DownEnded, Broken
  <1>3. HandlerWaits(k) => ~c.cancelled
    BY DEF HandlerWaits, UpEnded, RoomDown
  <1>4. Running(k) /\ ClientWaits(k) => Serving(k)
    BY <1>1, <1>2 DEF Link, Running, Serving
  <1>5. Serving(k) /\ HandlerWaits(k) => Running(k)
    <2>1. c.pc = "idle" => c.spc = "none"
      BY <1>1 DEF ClientShape, NewCall
    <2> QED
      BY <1>1, <1>3, <2>1 DEF Link, Running, Serving
  <1>6. ~(Running(k) /\ ClientWaits(k) /\ Serving(k) /\ HandlerWaits(k))
    <2> SUFFICES ASSUME Running(k), ClientWaits(k), Serving(k), HandlerWaits(k) PROVE FALSE
      OBVIOUS
    <2>1. ~c.cancelled /\ c.reply = None
      BY <1>2
    <2>2. Window >= 1 /\ Len(<<>>) = 0 /\ Window \in Nat
      BY Part1Assumption
    <2>3. CASE c.spc \in {"read_header", "write"} /\ c.up = <<>> /\ ~UpEnded(c)
      <3>1. r.op = "store" /\ RoomUp(c) /\ ~c.half
        BY <1>1, <2>1, <2>2, <2>3 DEF HandlerShape, UpEnded, RoomUp
      <3>2. c.pc = "finish"
        BY <1>1, <3>1 DEF ClientWaits, ClientShape
      <3> QED
        BY <1>1, <3>1, <3>2 DEF Link
    <2>4. CASE c.spc \in {"read", "stat_entry"} /\ ~RoomDown(c)
      <3>1. r.op \in {"fetch", "list"} /\ c.down # <<>>
        BY <1>1, <2>1, <2>2, <2>4 DEF HandlerShape, RoomDown
      <3>2. c.pc = "finish"
        BY <1>1, <3>1 DEF ClientWaits, ClientShape
      <3> QED
        BY <1>1, <2>1, <3>1, <3>2 DEF Link
    <2> QED
      BY <2>3, <2>4 DEF HandlerWaits
  <1> QED
    BY <1>4, <1>5, <1>6

(* Client and handler never wait for each other, for any window, any files *)
(* and any number of calls: whichever of the two waits, for room, for a    *)
(* message or for the status, the other is still at work on the call and   *)
(* does not wait, whoever of them left early.                              *)
THEOREM WaitsAreAnswered == Spec => []NoneWaitsForEver
  <1>1. LinkInv => NoneWaitsForEver
    BY WaitsApart DEF NoneWaitsForEver
  <1> QED
    BY <1>1, InitLinks, StepLinks, PTL DEF Spec
=============================================================================
