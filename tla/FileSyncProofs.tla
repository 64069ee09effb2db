--------------------------- MODULE FileSyncProofs ---------------------------
(***************************************************************************)
(* Proofs about adb/filesync_protocol.py, for records and packets of any   *)
(* length: the records the host sends arrive in order, in packets that     *)
(* fit, and those it receives are cut out of the packets of the service    *)
(* wherever these begin and end.                                           *)
(***************************************************************************)
EXTENDS FileSync, TLAPS, SequenceTheorems

-----------------------------------------------------------------------------
InPacket == [cmd : {"OKAY", "WRTE"}, words : Seq(Word)]
OutPacket == [cmd : {"OKAY", "WRTE"}, recs : Seq(Record), len : Nat]

SessionType ==
  /\ TypeOK
  /\ out \in Seq(OutPacket)
  /\ inp \in Seq(InPacket)

(* The packet for the service: at most one is under way, a WRTE whose OKAY *)
(* the host awaits, or the OKAY of what it reads.                          *)
OnWay(cmd) == out # <<>> /\ Head(out).cmd = cmd
OneOut ==
  /\ Len(out) <= 1
  /\ OnWay("WRTE") => pc \in {"flushed", "ended"} /\ Head(out).recs # <<>>
  /\ OnWay("OKAY") => /\ pc \in {"header", "body", "ended"}
                      /\ Head(out).recs = <<>> /\ Head(out).len = 0

(* What fits into a packet alone always fits into an empty buffer.         *)
Buffered ==
  /\ send_idx <= MaxData
  /\ send_idx = 0 <=> send_buffer = <<>>
  /\ \A i \in 1..Len(todo) : todo[i].len + SendHeaderLen < MaxData

(* Packets for the host: a WRTE uses up the OKAY of the one before, and an *)
(* OKAY answers the host's WRTE, which waits for one of the two.           *)
Incoming(cmd) == \E i \in 1..Len(inp) : inp[i].cmd = cmd
FlowControl ==
  /\ Len(inp) <= 2
  /\ Len(inp) = 2 => inp[1].cmd # inp[2].cmd
  /\ \A i \in 1..Len(inp) : inp[i].cmd = "OKAY" => inp[i].words = <<>>
  /\ Incoming("WRTE") => ~acked /\ ~OnWay("OKAY")
  /\ OnWay("OKAY") => ~acked
  /\ Incoming("OKAY") => pc \in {"flushed", "ended"} /\ ~OnWay("WRTE")
  /\ pc = "flushed" => OnWay("WRTE") \/ Incoming("OKAY")

(* What the service has begun to send: its replies to the whole request,   *)
(* or some of them and then FAIL.                                          *)
Failure == Rec("FAIL", 0, FailLen)
AnswerSoFar ==
  /\ Len(answer) <= Len(Replies)
  /\ \A k \in 1..Len(answer) :
       \/ answer[k] = Replies[k] /\ Complete
       \/ k = Len(answer) /\ answer[k] = Failure /\ op \in {"push", "pull"}

(* The words not yet read begin where the host expects the next header, or *)
(* the data of the record whose header it has read.  starts[k] is where    *)
(* the k-th record begins among them, the end of all words comes last.     *)
InWords == IF inp = <<>> THEN <<>>
           ELSE IF Len(inp) = 1 THEN inp[1].words ELSE inp[1].words \o inp[2].words
Ahead == (recv_buffer \o InWords) \o unsent
Size(r) == HeaderLen(r) + r.len
Current == Len(result) + 1
Layout(starts) ==
  /\ starts \in [1..Len(answer) + 1 -> Int]
  /\ \A k, l \in 1..Len(answer) + 1 : k <= l => starts[k] <= starts[l]
  /\ \A k \in 1..Len(answer) : starts[k + 1] = starts[k] + Size(answer[k])
  /\ \A k \in Current..Len(answer) : \A j \in 1..Size(answer[k]) :
       starts[k] + j >= 1 => Ahead[starts[k] + j] = <<k, j>>
  /\ starts[Len(answer) + 1] = Len(Ahead)
  /\ starts[Current] = IF pc = "body" THEN 0 - RecvHeaderLen ELSE 0
Reading ==
  pc # "ended" =>
    /\ outcome = "none"
    /\ Current \in 1..Len(answer) + 1
    /\ pc = "body" =>
         /\ Current <= Len(answer)
         /\ record = answer[Current]
         /\ record.id \in ExpectedIds \ {"STAT"}
    /\ \E starts \in [1..Len(answer) + 1 -> Int] : Layout(starts)
    /\ Incoming("WRTE") => answer # <<>>
    /\ pc = "flushed" /\ inp # <<>> /\ Head(inp).cmd = "WRTE" => Failed

Ended == outcome = "done" => Len(answer) = Len(Replies)

SyncInv ==
  /\ SessionType
  /\ OneOut
  /\ Buffered
  /\ FlowControl
  /\ AnswerSoFar
  /\ Reading
  /\ Ended
  /\ RecordsInOrder
  /\ ResultIsAnswer

-----------------------------------------------------------------------------
(* The records of the calls.                                               *)
LEMMA RecType ==
  ASSUME NEW id \in {"SEND", "RECV", "STAT", "LIST", "DATA", "DENT", "DONE", "OKAY", "FAIL"},
         NEW n \in Nat, NEW len \in Nat
  PROVE  Rec(id, n, len) \in Record
BY DEF Rec, Record

LEMMA ChunksType ==
  ASSUME NEW id \in {"DATA", "DENT"}
  PROVE  /\ Chunks(id) \in Seq(Record)
         /\ Len(ChunkLens) \in Nat
         /\ Len(Chunks(id)) = Len(ChunkLens)
         /\ \A i \in 1..Len(ChunkLens) :
              /\ Chunks(id)[i] = Rec(id, i, ChunkLens[i])
              /\ Chunks(id)[i].id = id
              /\ Chunks(id)[i].len + SendHeaderLen < MaxData
<1>1. /\ Len(ChunkLens) \in Nat
      /\ \A i \in 1..Len(ChunkLens) : ChunkLens[i] \in Nat /\ ChunkLens[i] + 2 < MaxData
  BY FileSyncAssumption
<1>2. \A i \in 1..Len(ChunkLens) : Rec(id, i, ChunkLens[i]) \in Record
  BY <1>1, RecType
<1>3. Chunks(id) = [i \in 1..Len(ChunkLens) |-> Rec(id, i, ChunkLens[i])]
  BY DEF Chunks, Chunk
<1>4. Chunks(id) \in [1..Len(ChunkLens) -> Record]
  BY <1>2, <1>3
<1>5. Chunks(id) \in Seq(Record) /\ Len(Chunks(id)) = Len(ChunkLens)
  BY <1>1, <1>4
<1> QED BY <1>1, <1>3, <1>5 DEF Rec, SendHeaderLen

LEMMA ScriptType ==
  ASSUME NEW call \in Ops
  PROVE  /\ Script(call) \in Seq(Record)
         /\ \A i \in 1..Len(Script(call)) : Script(call)[i].len + SendHeaderLen < MaxData
<1> USE FileSyncAssumption
<1>a. \A id \in {"SEND", "RECV", "STAT", "LIST", "DONE"} :
        Rec(id, 0, NameLen) \in Record /\ Rec(id, 0, 0) \in Record
  BY RecType
<1>b. \A id : Rec(id, 0, NameLen).len + SendHeaderLen < MaxData /\ Rec(id, 0, 0).len + SendHeaderLen < MaxData
  BY DEF Rec, SendHeaderLen
<1>c. \A r \in Record : <<r>> \in Seq(Record) /\ Len(<<r>>) = 1 /\ <<r>>[1] = r
  OBVIOUS
<1>1. CASE call = "push"
  <2> DEFINE a == <<Rec("SEND", 0, NameLen)>>
             b == Chunks("DATA")
             c == <<Rec("DONE", 0, 0)>>
  <2>1. /\ a \in Seq(Record) /\ Len(a) = 1 /\ a[1].len + SendHeaderLen < MaxData
        /\ c \in Seq(Record) /\ Len(c) = 1 /\ c[1].len + SendHeaderLen < MaxData
    BY <1>a, <1>b, <1>c
  <2>2. /\ b \in Seq(Record) /\ Len(b) \in Nat
        /\ \A i \in 1..Len(b) : b[i].len + SendHeaderLen < MaxData
    BY ChunksType
  <2>3. Script(call) = (a \o b) \o c
    BY <1>1 DEF Script
  <2> HIDE DEF a, b, c
  <2>4. /\ a \o b \in Seq(Record) /\ Len(a \o b) = Len(a) + Len(b)
        /\ \A i \in 1..Len(a) + Len(b) : (a \o b)[i] = IF i <= Len(a) THEN a[i] ELSE b[i - Len(a)]
    BY <2>1, <2>2, ConcatProperties
  <2>5. /\ (a \o b) \o c \in Seq(Record) /\ Len((a \o b) \o c) = Len(a \o b) + Len(c)
        /\ \A i \in 1..Len(a \o b) + Len(c) :
             ((a \o b) \o c)[i] = IF i <= Len(a \o b) THEN (a \o b)[i] ELSE c[i - Len(a \o b)]
    BY <2>1, <2>4, ConcatProperties
  <2>6. \A i \in 1..Len(a \o b) : (a \o b)[i].len + SendHeaderLen < MaxData
    BY <2>1, <2>2, <2>4
  <2>7. \A i \in 1..Len((a \o b) \o c) : ((a \o b) \o c)[i].len + SendHeaderLen < MaxData
    BY <2>1, <2>2, <2>4, <2>5, <2>6
  <2> QED BY <2>3, <2>5, <2>7
<1>2. CASE call = "pull"
  BY <1>2, <1>a, <1>b, <1>c DEF Script
<1>3. CASE call = "stat"
  BY <1>3, <1>a, <1>b, <1>c DEF Script
<1>4. CASE call = "list"
  BY <1>4, <1>a, <1>b, <1>c DEF Script
<1> QED BY <1>1, <1>2, <1>3, <1>4 DEF Ops

(* The replies of the service end with the record that ends the call, and  *)
(* those before it are what the caller is given.                           *)
LEMMA RepliesType ==
  ASSUME op \in Ops
  PROVE  /\ Replies \in Seq(Record) /\ Len(Replies) \in Nat \ {0}
         /\ Kept \in Seq(Record)
         /\ Len(Kept) = IF op = "stat" THEN 1 ELSE Len(Replies) - 1
         /\ \A k \in 1..Len(Kept) : Kept[k] = Replies[k]
         /\ \A k \in 1..Len(Kept) :
              Replies[k].id = IF op = "pull" THEN "DATA" ELSE IF op = "list" THEN "DENT" ELSE "STAT"
         /\ Replies[Len(Replies)].id =
              IF op = "push" THEN "OKAY" ELSE IF op = "stat" THEN "STAT" ELSE "DONE"
<1>a. \A r \in Record : <<r>> \in Seq(Record) /\ Len(<<r>>) = 1 /\ <<r>>[1] = r
  OBVIOUS
<1>b. \A id \in {"OKAY", "STAT", "DONE"} : Rec(id, 0, 0) \in Record /\ Rec(id, 0, 0).id = id
  BY RecType DEF Rec
<1>c. <<>> \in Seq(Record) /\ Len(<<>>) = 0
  OBVIOUS
<1>1. CASE op = "push"
  BY <1>1, <1>a, <1>b, <1>c DEF Replies, Kept
<1>2. CASE op = "stat"
  BY <1>2, <1>a, <1>b, <1>c DEF Replies, Kept
<1>3. ASSUME NEW id \in {"DATA", "DENT"}, op \notin {"push", "stat"},
             Replies = Chunks(id) \o <<Rec("DONE", 0, 0)>>, Kept = Chunks(id),
             id = (IF op = "pull" THEN "DATA" ELSE "DENT"), op \in {"pull", "list"}
      PROVE  /\ Replies \in Seq(Record) /\ Len(Replies) \in Nat \ {0}
             /\ Kept \in Seq(Record)
             /\ Len(Kept) = Len(Replies) - 1
             /\ \A k \in 1..Len(Kept) : Kept[k] = Replies[k] /\ Replies[k].id = id
             /\ Replies[Len(Replies)].id = "DONE"
  <2>1. /\ Chunks(id) \in Seq(Record) /\ Len(Chunks(id)) \in Nat
        /\ \A i \in 1..Len(Chunks(id)) : Chunks(id)[i].id = id
    BY ChunksType
  <2>2. <<Rec("DONE", 0, 0)>> \in Seq(Record) /\ Len(<<Rec("DONE", 0, 0)>>) = 1
        /\ <<Rec("DONE", 0, 0)>>[1].id = "DONE"
    BY <1>a, <1>b
  <2>3. /\ Replies \in Seq(Record) /\ Len(Replies) = Len(Chunks(id)) + 1
        /\ \A i \in 1..Len(Chunks(id)) + 1 :
             Replies[i] = IF i <= Len(Chunks(id)) THEN Chunks(id)[i]
                          ELSE <<Rec("DONE", 0, 0)>>[i - Len(Chunks(id))]
    BY <1>3, <2>1, <2>2, ConcatProperties
  <2> QED BY <1>3, <2>1, <2>2, <2>3
<1>4. CASE op = "pull"
  <2>1. Replies = Chunks("DATA") \o <<Rec("DONE", 0, 0)>> /\ Kept = Chunks("DATA")
    BY <1>4 DEF Replies, Kept
  <2> QED BY <1>3, <1>4, <2>1
<1>5. CASE op = "list"
  <2>1. Replies = Chunks("DENT") \o <<Rec("DONE", 0, 0)>> /\ Kept = Chunks("DENT")
    BY <1>5 DEF Replies, Kept
  <2> QED BY <1>3, <1>5, <2>1
<1> QED BY <1>1, <1>2, <1>4, <1>5 DEF Ops

-----------------------------------------------------------------------------
(* Types are kept by every step.                                           *)
LEMMA HeaderLens ==
  /\ RecvHeaderLen \in {2, 4, 5}
  /\ \A r : HeaderLen(r) \in {2, 4, 5}
  /\ op = "stat" => RecvHeaderLen = 4
  /\ op = "list" => RecvHeaderLen = 5
  /\ op \notin {"stat", "list"} => RecvHeaderLen = 2
<1>1. RecvHeaderLen = IF op = "stat" THEN 4 ELSE IF op = "list" THEN 5 ELSE 2
  BY DEF RecvHeaderLen
<1>2. \A r : HeaderLen(r) = IF r.id = "STAT" THEN 4
               ELSE IF r.id = "DENT" \/ (r.id = "DONE" /\ op = "list") THEN 5 ELSE 2
  BY DEF HeaderLen
<1> QED BY <1>1, <1>2

LEMMA WordsType ==
  ASSUME NEW k \in Nat, NEW r \in Record
  PROVE  /\ Words(k, r) \in Seq(Word)
         /\ Size(r) \in Nat /\ Len(Words(k, r)) = Size(r)
         /\ \A j \in 1..Size(r) : Words(k, r)[j] = <<k, j>>
<1>1. Size(r) \in Nat /\ HeaderLen(r) + r.len = Size(r)
  BY HeaderLens DEF Size, Record
<1>2. Words(k, r) = [i \in 1..Size(r) |-> <<k, i>>]
  BY <1>1 DEF Words
<1>3. \A i \in 1..Size(r) : <<k, i>> \in Word
  BY <1>1 DEF Word
<1>4. Words(k, r) \in [1..Size(r) -> Word]
  BY <1>2, <1>3
<1>5. Words(k, r) \in Seq(Word) /\ Len(Words(k, r)) = Size(r)
  BY <1>1, <1>4
<1> QED BY <1>1, <1>2, <1>5

LEMMA SizeType ==
  ASSUME NEW r \in Record
  PROVE  Size(r) \in Nat /\ Size(r) >= 2
BY HeaderLens DEF Size, Record

(* The pieces a sequence is cut into, and put together.                    *)
LEMMA WordsAssociate ==
  ASSUME NEW a \in Seq(Word), NEW b \in Seq(Word), NEW c \in Seq(Word)
  PROVE  (a \o b) \o c = a \o (b \o c)
BY ConcatAssociative

LEMMA Cut ==
  ASSUME NEW S, NEW s \in Seq(S), NEW n \in 0..Len(s)
  PROVE  /\ SubSeq(s, 1, n) \in Seq(S) /\ Len(SubSeq(s, 1, n)) = n
         /\ SubSeq(s, n + 1, Len(s)) \in Seq(S)
         /\ Len(SubSeq(s, n + 1, Len(s))) = Len(s) - n
         /\ \A i \in 1..Len(s) - n : SubSeq(s, n + 1, Len(s))[i] = s[i + n]
         /\ \A i \in 1..n : SubSeq(s, 1, n)[i] = s[i]
OBVIOUS

LEMMA FirstOf ==
  ASSUME NEW S, NEW s \in Seq(S), s # <<>>
  PROVE  /\ Len(s) \in Nat \ {0} /\ Head(s) = s[1] /\ Head(s) \in S
         /\ Tail(s) \in Seq(S) /\ Len(Tail(s)) = Len(s) - 1
         /\ \A i \in 1..Len(s) - 1 : Tail(s)[i] = s[i + 1]
OBVIOUS

LEMMA RecordType ==
  ASSUME NEW r \in Record
  PROVE  r.len \in Nat /\ r.n \in Nat
BY DEF Record

LEMMA WriteType ==
  ASSUME NEW recs \in Seq(Record), NEW len \in Nat, out \in Seq(OutPacket)
  PROVE  /\ Write(recs, len) => out' \in Seq(OutPacket)
         /\ Okay => out' \in Seq(OutPacket)
<1>1. <<>> \in Seq(Record)
  OBVIOUS
<1>2. /\ [cmd |-> "WRTE", recs |-> recs, len |-> len] \in OutPacket
      /\ [cmd |-> "OKAY", recs |-> <<>>, len |-> 0] \in OutPacket
  BY <1>1 DEF OutPacket
<1>3. \A p \in OutPacket : Append(out, p) \in Seq(OutPacket)
  BY AppendProperties
<1> QED BY <1>2, <1>3 DEF Write, Okay

LEMMA SendType ==
  ASSUME SessionType, SendRecord \/ StartRead \/ WriteAnswer
  PROVE  SessionType'
<1> USE DEF SessionType, TypeOK
<1>a. Flush("flushed") => out' \in Seq(OutPacket) /\ send_buffer' = <<>> /\ send_idx' = 0
                          /\ pc' = "flushed"
  BY WriteType DEF Flush
<1>b. 0 \in 0..MaxData /\ MaxData \in Nat
  BY FileSyncAssumption
<1>c. UNCHANGED <<op, recv_buffer, record, result, received, answer, unsent, acked>>
  BY DEF SendRecord, StartRead, WriteAnswer, serviceVars
<1>1. CASE SendRecord
  <2>1. todo # <<>> /\ UNCHANGED <<outcome, inp>>
    BY <1>1 DEF SendRecord
  <2>2. Head(todo) \in Record /\ Tail(todo) \in Seq(Record) /\ Head(todo).len \in Nat
    BY <2>1, FirstOf, RecordType
  <2>3. CASE CanAddToSendBuffer(Head(todo).len)
    <3>1. /\ send_buffer' = Append(send_buffer, Head(todo))
          /\ send_idx' = send_idx + SendHeaderLen + Head(todo).len
          /\ todo' = Tail(todo) /\ UNCHANGED <<pc, out>>
      BY <1>1, <2>3 DEF SendRecord
    <3>2. send_buffer' \in Seq(Record)
      BY <2>2, <3>1
    <3>3. send_idx' \in 0..MaxData
      BY <1>b, <2>2, <2>3, <3>1, SMTT(40) DEF CanAddToSendBuffer, SendHeaderLen
    <3> QED BY <1>c, <2>1, <2>2, <3>1, <3>2, <3>3
  <2>4. CASE ~CanAddToSendBuffer(Head(todo).len)
    <3>1. Flush("flushed") /\ UNCHANGED todo
      BY <1>1, <2>4 DEF SendRecord
    <3> QED BY <1>a, <1>b, <1>c, <2>1, <3>1
  <2> QED BY <2>3, <2>4
<1>2. CASE StartRead
  <2>1. UNCHANGED <<todo, outcome, inp>>
    BY <1>2 DEF StartRead
  <2>2. CASE send_idx # 0
    <3>1. Flush("flushed")
      BY <1>2, <2>2 DEF StartRead
    <3> QED BY <1>a, <1>b, <1>c, <2>1, <3>1
  <2>3. CASE send_idx = 0
    BY <1>2, <1>c, <2>1, <2>3 DEF StartRead
  <2> QED BY <2>2, <2>3
<1>3. CASE WriteAnswer
  <2>1. inp' \in Seq(InPacket)
    BY <1>3, FirstOf DEF WriteAnswer
  <2>2. pc' \in {"send", "ended"} /\ outcome' \in {outcome, "misread"}
    BY <1>3 DEF WriteAnswer, Ends
  <2> QED BY <1>3, <1>c, <2>1, <2>2 DEF WriteAnswer
<1> QED BY <1>1, <1>2, <1>3

LEMMA NoRecordType == NoRecord \in Record
BY RecType DEF NoRecord

(* The words not yet read, and the header among them.                      *)
LEMMA AheadType ==
  ASSUME SessionType, Len(inp) <= 2
  PROVE  /\ InWords \in Seq(Word) /\ Len(InWords) \in Nat
         /\ Len(recv_buffer) \in Nat /\ Len(unsent) \in Nat
         /\ Ahead \in Seq(Word)
         /\ Len(Ahead) = Len(recv_buffer) + Len(InWords) + Len(unsent)
         /\ \A i \in 1..Len(Ahead) :
              Ahead[i] = IF i <= Len(recv_buffer) THEN recv_buffer[i]
                         ELSE IF i <= Len(recv_buffer) + Len(InWords)
                           THEN InWords[i - Len(recv_buffer)]
                         ELSE unsent[i - (Len(recv_buffer) + Len(InWords))]
<1>1. recv_buffer \in Seq(Word) /\ unsent \in Seq(Word)
  BY DEF SessionType, TypeOK
<1>2. InWords \in Seq(Word)
  <2>1. inp \in Seq(InPacket) /\ Len(inp) \in Nat /\ <<>> \in Seq(Word)
    BY DEF SessionType
  <2>2. \A i \in 1..Len(inp) : inp[i].words \in Seq(Word)
    <3>1. \A i \in 1..Len(inp) : inp[i] \in InPacket
      BY <2>1, ElementOfSeq
    <3> QED BY <3>1 DEF InPacket
  <2>3. CASE inp = <<>>
    BY <2>1, <2>3 DEF InWords
  <2>4. CASE inp # <<>> /\ Len(inp) = 1
    BY <2>1, <2>2, <2>4 DEF InWords
  <2>5. CASE inp # <<>> /\ Len(inp) # 1
    <3>1. Len(inp) \in Nat \ {0}
      BY <2>1, <2>5, FirstOf
    <3>2. Len(inp) = 2
      <4>1. \A n \in Nat \ {0} : n <= 2 /\ n # 1 => n = 2
        OBVIOUS
      <4> QED BY <2>5, <3>1, <4>1
    <3>3. inp[1].words \o inp[2].words \in Seq(Word)
      BY <2>2, <3>2, ConcatProperties
    <3> QED BY <2>5, <3>3 DEF InWords
  <2> QED BY <2>3, <2>4, <2>5
<1> HIDE DEF InWords
<1>3. /\ recv_buffer \o InWords \in Seq(Word)
      /\ Len(recv_buffer \o InWords) = Len(recv_buffer) + Len(InWords)
      /\ \A i \in 1..Len(recv_buffer) + Len(InWords) :
           (recv_buffer \o InWords)[i] = IF i <= Len(recv_buffer) THEN recv_buffer[i]
                                          ELSE InWords[i - Len(recv_buffer)]
  BY <1>1, <1>2, ConcatProperties
<1>4. Len(recv_buffer) \in Nat /\ Len(InWords) \in Nat /\ Len(unsent) \in Nat
  BY <1>1, <1>2
<1>5. /\ Ahead \in Seq(Word)
      /\ Len(Ahead) = Len(recv_buffer \o InWords) + Len(unsent)
      /\ \A i \in 1..Len(recv_buffer \o InWords) + Len(unsent) :
           Ahead[i] = IF i <= Len(recv_buffer \o InWords) THEN (recv_buffer \o InWords)[i]
                      ELSE unsent[i - Len(recv_buffer \o InWords)]
  BY <1>1, <1>3, ConcatProperties DEF Ahead
<1> QED BY <1>2, <1>3, <1>4, <1>5

LEMMA FrontIsNext ==
  ASSUME SyncInv, pc = "header", Len(recv_buffer) >= Wanted
  PROVE  /\ Current \in 1..Len(answer)
         /\ recv_buffer[1] = <<Current, 1>> /\ Aligned
         /\ Front = answer[Current] /\ Front \in Record
<1>1. SessionType /\ Len(inp) <= 2 /\ Current \in 1..Len(answer) + 1
  BY DEF SyncInv, FlowControl, Reading
<1>2. PICK starts \in [1..Len(answer) + 1 -> Int] : Layout(starts)
  BY DEF SyncInv, Reading
<1>3. Len(recv_buffer) >= 2 /\ Len(recv_buffer) \in Nat
  BY <1>1, AheadType, HeaderLens DEF Wanted
<1>4. Len(Ahead) >= 2 /\ Len(Ahead) \in Nat /\ Ahead[1] = recv_buffer[1]
  BY <1>1, <1>3, AheadType
<1>5. starts[Current] = 0 /\ starts[Len(answer) + 1] = Len(Ahead)
  BY <1>2 DEF Layout
<1>6. answer \in Seq(Record) /\ Len(answer) \in Nat
  BY <1>1 DEF SessionType, TypeOK
<1>7. Current \in 1..Len(answer)
  BY <1>1, <1>4, <1>5, <1>6
<1>8. answer[Current] \in Record
  BY <1>6, <1>7, ElementOfSeq
<1>9. 1 \in 1..Size(answer[Current])
  BY <1>8, HeaderLens, RecordType DEF Size
<1>10. Ahead[0 + 1] = <<Current, 1>>
  <2>1. \A j \in 1..Size(answer[Current]) :
          starts[Current] + j >= 1 => Ahead[starts[Current] + j] = <<Current, j>>
    <3>1. Current \in Current..Len(answer)
      BY <1>6, <1>7
    <3> QED BY <1>2, <3>1 DEF Layout
  <2> QED BY <1>5, <1>9, <2>1
<1> QED BY <1>4, <1>7, <1>8, <1>10 DEF Aligned, Front

LEMMA ReadType ==
  ASSUME SyncInv, ReadMore \/ ReadHeader \/ ReadBody
  PROVE  SessionType'
<1> USE DEF SessionType, TypeOK
<1>0. SessionType
  BY DEF SyncInv
<1>a. UNCHANGED <<op, todo, send_buffer, send_idx, received, answer, unsent, acked>>
  BY DEF ReadMore, ReadHeader, ReadBody, serviceVars
<1>b. recv_buffer \in Seq(Word) /\ Len(recv_buffer) \in Nat /\ Wanted \in Nat
  BY <1>0, HeaderLens, RecordType DEF Wanted
<1>c. Len(recv_buffer) >= Wanted => RestOf(Wanted) \in Seq(Word)
  BY <1>b, Cut DEF RestOf
<1>1. CASE ReadMore
  <2>1. inp # <<>> /\ UNCHANGED <<pc, record, result, outcome>> /\ inp' = Tail(inp)
    BY <1>1 DEF ReadMore
  <2>2. inp' \in Seq(InPacket) /\ Head(inp) \in InPacket
    BY <1>0, <2>1, FirstOf
  <2>3. Head(inp).words \in Seq(Word)
    BY <2>2 DEF InPacket
  <2>4. recv_buffer' \in Seq(Word)
    BY <1>1, <1>b, <2>3, ConcatProperties DEF ReadMore
  <2>5. out' \in Seq(OutPacket)
    <3>1. <<>> \in Seq(Record) /\ 0 \in Nat
      OBVIOUS
    <3> QED BY <1>0, <1>1, <3>1, WriteType DEF ReadMore
  <2> QED BY <1>0, <1>a, <2>1, <2>2, <2>4, <2>5
<1>2. CASE ReadHeader
  <2>1. UNCHANGED <<out, inp>> /\ recv_buffer' \in Seq(Word) /\ pc = "header"
    BY <1>2, <1>b, <1>c DEF ReadHeader
  <2>2. Front \in Record
    BY <1>2, FrontIsNext DEF ReadHeader
  <2>3. /\ pc' \in {"body", "ended"}
        /\ outcome' \in {outcome, "done", "command_failed", "invalid", "key_error"}
        /\ result' \in {result, <<Front>>}
        /\ record' = Front
    <3>1. CASE ~Aligned
      BY <1>2, <3>1 DEF ReadHeader, Ends
    <3>2. CASE Aligned /\ Front.id \notin ExpectedIds
      BY <1>2, <3>2 DEF ReadHeader, Ends
    <3>3. CASE Aligned /\ Front.id \in ExpectedIds
      BY <1>2, <3>3 DEF ReadHeader, Ends
    <3> QED BY <3>1, <3>2, <3>3
  <2>4. result' \in Seq(Record)
    <3>1. \A r \in Record : <<r>> \in Seq(Record)
      OBVIOUS
    <3> QED BY <1>0, <2>2, <2>3, <3>1
  <2> QED BY <1>0, <1>a, <2>1, <2>2, <2>3, <2>4
<1>3. CASE ReadBody
  <2>1. UNCHANGED <<out, inp>> /\ recv_buffer' \in Seq(Word) /\ record' = NoRecord
    BY <1>3, <1>b, <1>c DEF ReadBody
  <2>2. /\ pc' \in {"header", "ended"}
        /\ outcome' \in {outcome, "done", "push_failed"}
        /\ result' \in {result, Append(result, record)}
    BY <1>3 DEF ReadBody, Deliver, Ends
  <2>3. result' \in Seq(Record)
    <3>1. Append(result, record) \in Seq(Record)
      BY <1>0, AppendProperties
    <3> QED BY <1>0, <2>2, <3>1
  <2> QED BY <1>0, <1>a, <2>1, <2>2, <2>3, NoRecordType
<1> QED BY <1>1, <1>2, <1>3

LEMMA ServiceType ==
  ASSUME SyncInv, Service
  PROVE  SessionType'
<1> USE DEF SessionType, TypeOK
<1>0. SessionType
  BY DEF SyncInv
<1>a. UNCHANGED hostVars
  BY DEF Service, ServiceReads, ServiceAnswers, ServiceFailure, ServiceWrites, Answers
<1>1. CASE ServiceReads
  <2>1. /\ Head(out) \in OutPacket /\ out' \in Seq(OutPacket)
    BY <1>0, <1>1, FirstOf DEF ServiceReads
  <2>2. received' \in Seq(Record)
    <3>1. Head(out).recs \in Seq(Record)
      BY <2>1 DEF OutPacket
    <3>2. received \o Head(out).recs \in Seq(Record)
      BY <1>0, <3>1, ConcatProperties
    <3>3. received' \in {received, received \o Head(out).recs}
      BY <1>1 DEF ServiceReads
    <3> QED BY <1>0, <3>2, <3>3
  <2>3. inp' \in Seq(InPacket)
    <3>1. <<>> \in Seq(Word)
      OBVIOUS
    <3>2. [cmd |-> "OKAY", words |-> <<>>] \in InPacket
      BY <3>1 DEF InPacket
    <3>3. Append(inp, [cmd |-> "OKAY", words |-> <<>>]) \in Seq(InPacket)
      BY <1>0, <3>2, AppendProperties
    <3>4. inp' \in {inp, Append(inp, [cmd |-> "OKAY", words |-> <<>>])}
      BY <1>1 DEF ServiceReads
    <3> QED BY <1>0, <3>3, <3>4
  <2>4. acked' \in BOOLEAN /\ UNCHANGED <<answer, unsent>>
    BY <1>0, <1>1 DEF ServiceReads
  <2> QED BY <1>0, <1>a, <2>1, <2>2, <2>3, <2>4 DEF hostVars
<1>2. ASSUME NEW r \in Record, Answers(r)
      PROVE  SessionType'
  <2>1. Len(answer) + 1 \in Nat
    BY <1>0
  <2>2. answer' \in Seq(Record) /\ unsent' \in Seq(Word)
    BY <1>0, <1>2, <2>1, WordsType, ConcatProperties, AppendProperties DEF Answers
  <2> QED BY <1>0, <1>2, <2>2 DEF Answers, hostVars
<1>3. CASE ServiceAnswers
  <2>1. Len(answer) + 1 \in 1..Len(Replies) /\ Replies \in Seq(Record)
    BY <1>0, <1>3, RepliesType, SMTT(30) DEF ServiceAnswers
  <2>2. Replies[Len(answer) + 1] \in Record
    BY <2>1, ElementOfSeq
  <2> QED BY <1>2, <1>3, <2>2 DEF ServiceAnswers
<1>4. CASE ServiceFailure
  <2>1. Rec("FAIL", 0, FailLen) \in Record
    BY RecType, FileSyncAssumption
  <2> QED BY <1>2, <1>4, <2>1 DEF ServiceFailure
<1>5. CASE ServiceWrites
  <2>1. PICK n \in 1..Len(unsent) :
          /\ inp' = Append(inp, [cmd |-> "WRTE", words |-> SubSeq(unsent, 1, n)])
          /\ unsent' = SubSeq(unsent, n + 1, Len(unsent))
    BY <1>5 DEF ServiceWrites
  <2>2. SubSeq(unsent, 1, n) \in Seq(Word) /\ unsent' \in Seq(Word)
    BY <1>0, <2>1, Cut, SMTT(20)
  <2>3. inp' \in Seq(InPacket)
    <3>1. [cmd |-> "WRTE", words |-> SubSeq(unsent, 1, n)] \in InPacket
      BY <2>2 DEF InPacket
    <3> QED BY <1>0, <2>1, <3>1, AppendProperties
  <2>4. acked' \in BOOLEAN /\ UNCHANGED <<out, received, answer>>
    BY <1>5 DEF ServiceWrites
  <2> QED BY <1>0, <1>a, <2>2, <2>3, <2>4 DEF hostVars
<1> QED BY <1>1, <1>3, <1>4, <1>5 DEF Service

-----------------------------------------------------------------------------
(* The packet under way, and the records it carries.                       *)
LEMMA OutNow ==
  ASSUME SessionType, OneOut
  PROVE  /\ out # <<>> => /\ Head(out).cmd \in {"OKAY", "WRTE"} /\ Head(out) \in OutPacket
                          /\ Head(out).recs \in Seq(Record) /\ Tail(out) = <<>>
         /\ pc = "send" => out = <<>>
         /\ pc \in {"header", "body"} => ~OnWay("WRTE")
         /\ Packed \in Seq(Record)
         /\ ~OnWay("WRTE") => Packed = <<>>
         /\ OnWay("WRTE") => Packed # <<>>
<1>1. out \in Seq(OutPacket) /\ Len(out) <= 1
  BY DEF SessionType, OneOut
<1>2. <<>> \in Seq(Record)
  OBVIOUS
<1>3. ASSUME out # <<>>
      PROVE  /\ Head(out).cmd \in {"OKAY", "WRTE"} /\ Head(out).recs \in Seq(Record)
             /\ Head(out) \in OutPacket /\ Tail(out) = <<>>
  <2>1. Head(out) \in OutPacket
    BY <1>1, <1>3, FirstOf
  <2>2. Head(out).cmd \in {"OKAY", "WRTE"} /\ Head(out).recs \in Seq(Record)
    BY <2>1 DEF OutPacket
  <2>3. Tail(out) \in Seq(OutPacket) /\ Len(Tail(out)) = Len(out) - 1 /\ Len(out) \in Nat \ {0}
    BY <1>1, <1>3, FirstOf
  <2>4. Tail(out) = <<>>
    BY <1>1, <2>3, EmptySeq
  <2> QED BY <2>1, <2>2, <2>4
<1> QED BY <1>2, <1>3 DEF OneOut, OnWay, Packed

LEMMA AppendOut ==
  ASSUME SessionType, out = <<>>, NEW p \in OutPacket, out' = Append(out, p)
  PROVE  /\ out' # <<>> /\ Len(out') = 1 /\ Head(out') = p
         /\ Packed' = p.recs
         /\ \A c : OnWay(c)' <=> c = p.cmd
<1>1. out' \in Seq(OutPacket) /\ out' # <<>> /\ Len(out') = 1 /\ out'[1] = p
  BY AppendProperties DEF SessionType
<1>2. Head(out') = p
  BY <1>1, FirstOf
<1> QED BY <1>1, <1>2 DEF Packed, OnWay

(* A packet read by the host, and one the service adds.                    *)
LEMMA TailInp ==
  ASSUME SessionType, FlowControl, inp # <<>>, inp' = Tail(inp)
  PROVE  /\ Head(inp) \in InPacket /\ Head(inp).cmd \in {"OKAY", "WRTE"}
         /\ Head(inp).words \in Seq(Word)
         /\ Head(inp).cmd = "OKAY" => Head(inp).words = <<>>
         /\ Len(inp') <= 1
         /\ Incoming(Head(inp).cmd)
         /\ \A c : Incoming(c)' <=> Incoming(c) /\ c # Head(inp).cmd
         /\ \A i \in 1..Len(inp') : inp'[i].cmd = "OKAY" => inp'[i].words = <<>>
         /\ InWords' \in Seq(Word)
         /\ InWords = Head(inp).words \o InWords'
<1>1. /\ inp \in Seq(InPacket) /\ Len(inp) <= 2 /\ Len(inp) \in Nat \ {0}
      /\ Head(inp) = inp[1] /\ Head(inp) \in InPacket
      /\ inp' \in Seq(InPacket) /\ Len(inp') = Len(inp) - 1
      /\ \A i \in 1..Len(inp) - 1 : inp'[i] = inp[i + 1]
  BY FirstOf DEF SessionType, FlowControl
<1>2. Head(inp).cmd \in {"OKAY", "WRTE"} /\ Head(inp).words \in Seq(Word)
  BY <1>1 DEF InPacket
<1>3. \A i \in 1..Len(inp) : inp[i].words \in Seq(Word)
  <2>1. \A i \in 1..Len(inp) : inp[i] \in InPacket
    BY <1>1, ElementOfSeq
  <2> QED BY <2>1 DEF InPacket
<1>4. /\ Head(inp).cmd = "OKAY" => Head(inp).words = <<>>
      /\ \A i \in 1..Len(inp') : inp'[i].cmd = "OKAY" => inp'[i].words = <<>>
  BY <1>1 DEF FlowControl
<1>5. Len(inp) = 1 \/ Len(inp) = 2
  BY <1>1
<1>6. CASE Len(inp) = 1
  <2>1. inp' = <<>>
    BY <1>1, <1>6, EmptySeq
  <2>2. InWords' = <<>> /\ InWords = Head(inp).words
    BY <1>1, <1>6, <2>1 DEF InWords
  <2>3. InWords' \in Seq(Word) /\ InWords = Head(inp).words \o InWords'
    BY <1>2, <2>2, ConcatEmptySeq, EmptySeq
  <2>4. \A c : /\ Incoming(c) <=> inp[1].cmd = c
               /\ ~Incoming(c)'
    BY <1>1, <1>6 DEF Incoming
  <2> QED BY <1>1, <1>2, <1>4, <1>6, <2>3, <2>4
<1>7. CASE Len(inp) = 2
  <2>1. inp' # <<>> /\ Len(inp') = 1 /\ inp'[1] = inp[2]
    <3>1. 1 \in 1..Len(inp) - 1
      BY <1>7
    <3>2. Len(inp') = 1
      BY <1>1, <1>7
    <3>3. inp'[1] = inp[1 + 1]
      BY <1>1, <3>1
    <3>4. inp' # <<>>
      <4>1. Len(<<>>) = 0 /\ 0 # 1
        OBVIOUS
      <4> QED BY <3>2, <4>1
    <3> QED BY <3>2, <3>3, <3>4
  <2>2. InWords' = inp[2].words /\ InWords = inp[1].words \o inp[2].words
    <3>1. Len(inp) # 1
      BY <1>7
    <3>2. InWords = inp[1].words \o inp[2].words
      BY <3>1, Zenon DEF InWords
    <3>3. InWords' = inp'[1].words
      BY <2>1, Zenon DEF InWords
    <3> QED BY <2>1, <3>2, <3>3
  <2>3. inp[1].cmd # inp[2].cmd
    BY <1>7 DEF FlowControl
  <2>4. \A c : /\ Incoming(c) <=> inp[1].cmd = c \/ inp[2].cmd = c
               /\ Incoming(c)' <=> inp[2].cmd = c
    BY <1>1, <1>7, <2>1 DEF Incoming
  <2>5. InWords' \in Seq(Word) /\ InWords = Head(inp).words \o InWords'
    <3>1. 1 \in 1..Len(inp) /\ 2 \in 1..Len(inp)
      BY <1>7
    <3> QED BY <1>1, <1>3, <2>2, <3>1
  <2>6. Incoming(Head(inp).cmd) /\ \A c : Incoming(c)' <=> Incoming(c) /\ c # Head(inp).cmd
    BY <1>1, <2>3, <2>4
  <2> QED BY <1>1, <1>2, <1>4, <2>1, <2>5, <2>6
<1> QED BY <1>5, <1>6, <1>7

LEMMA AppendInp ==
  ASSUME SessionType, FlowControl, NEW p \in InPacket, ~Incoming(p.cmd),
         p.cmd = "OKAY" => p.words = <<>>, inp' = Append(inp, p)
  PROVE  /\ Len(inp') <= 2 /\ inp' # <<>>
         /\ Len(inp') = 2 => inp'[1].cmd # inp'[2].cmd
         /\ Head(inp').cmd = IF inp = <<>> THEN p.cmd ELSE Head(inp).cmd
         /\ \A c : Incoming(c)' <=> Incoming(c) \/ c = p.cmd
         /\ \A i \in 1..Len(inp') : inp'[i].cmd = "OKAY" => inp'[i].words = <<>>
         /\ InWords' = InWords \o p.words
<1>1. /\ inp \in Seq(InPacket) /\ Len(inp) <= 2 /\ Len(inp) \in Nat
      /\ inp' \in Seq(InPacket) /\ inp' # <<>> /\ Len(inp') = Len(inp) + 1
      /\ inp'[Len(inp) + 1] = p
      /\ \A i \in 1..Len(inp) : inp'[i] = inp[i]
  BY AppendProperties DEF SessionType, FlowControl
<1>2. \A i \in 1..Len(inp) : /\ inp[i].cmd \in {"OKAY", "WRTE"} /\ inp[i].cmd # p.cmd
                             /\ inp[i].words \in Seq(Word)
  <2>1. \A i \in 1..Len(inp) : inp[i] \in InPacket
    BY <1>1, ElementOfSeq
  <2> QED BY <2>1 DEF InPacket, Incoming
<1>3. p.cmd \in {"OKAY", "WRTE"} /\ p.words \in Seq(Word)
  BY DEF InPacket
<1>4. Len(inp) # 2
  <2>1. SUFFICES ASSUME Len(inp) = 2 PROVE FALSE
    OBVIOUS
  <2>2. inp[1].cmd # inp[2].cmd
    BY <2>1 DEF FlowControl
  <2> QED BY <1>2, <1>3, <2>1, <2>2
<1>5. Len(inp) = 0 \/ Len(inp) = 1
  <2>1. \A n \in Nat : n <= 2 /\ n # 2 => n = 0 \/ n = 1
    OBVIOUS
  <2> QED BY <1>1, <1>4, <2>1
<1>6. Head(inp') = inp'[1]
  BY <1>1, FirstOf
<1>7. CASE Len(inp) = 0
  <2>1. inp = <<>>
    BY <1>1, <1>7, EmptySeq
  <2>2. Len(inp') = 1 /\ inp'[1] = p
    BY <1>1, <1>7
  <2>3. InWords' = p.words /\ InWords = <<>>
    BY <1>1, <2>1, <2>2 DEF InWords
  <2>4. InWords' = InWords \o p.words
    BY <1>3, <2>3, ConcatEmptySeq
  <2>5. \A c : ~Incoming(c) /\ (Incoming(c)' <=> p.cmd = c)
    BY <1>7, <2>2 DEF Incoming
  <2> QED BY <1>1, <1>6, <2>1, <2>2, <2>4, <2>5
<1>8. CASE Len(inp) = 1
  <2>1. inp # <<>> /\ Head(inp) = inp[1]
    BY <1>1, <1>8, FirstOf, EmptySeq
  <2>2. Len(inp') = 2 /\ inp'[1] = inp[1] /\ inp'[2] = p
    BY <1>1, <1>8
  <2>3. InWords' = InWords \o p.words
    <3>1. Len(inp') # 1
      BY <2>2
    <3>2. InWords = inp[1].words
      BY <1>8, <2>1, Zenon DEF InWords
    <3>3. InWords' = inp'[1].words \o inp'[2].words
      BY <1>1, <3>1, Zenon DEF InWords
    <3> QED BY <2>2, <3>2, <3>3
  <2>4. \A c : /\ Incoming(c) <=> inp[1].cmd = c
               /\ Incoming(c)' <=> inp[1].cmd = c \/ p.cmd = c
    BY <1>8, <2>2 DEF Incoming
  <2>5. inp[1].cmd = "OKAY" => inp[1].words = <<>>
    BY <1>8 DEF FlowControl
  <2> QED BY <1>1, <1>2, <1>6, <1>8, <2>1, <2>2, <2>3, <2>4, <2>5
<1> QED BY <1>5, <1>7, <1>8

-----------------------------------------------------------------------------
(* What one side does leaves the other side's part of the invariant.       *)
LEMMA MoveFirst ==
  ASSUME NEW a \in Seq(Record), NEW b \in Seq(Record), NEW t \in Seq(Record), t # <<>>
  PROVE  (a \o Append(b, Head(t))) \o Tail(t) = (a \o b) \o t
<1>1. Head(t) \in Record /\ Tail(t) \in Seq(Record)
  BY FirstOf
<1>2. <<Head(t)>> \in Seq(Record) /\ Len(<<Head(t)>>) = 1 /\ <<Head(t)>>[1] = Head(t)
  BY <1>1
<1>3. <<Head(t)>> \o Tail(t) = t
  <2>1. /\ <<Head(t)>> \o Tail(t) \in Seq(Record)
        /\ Len(<<Head(t)>> \o Tail(t)) = 1 + Len(Tail(t))
        /\ \A i \in 1..1 + Len(Tail(t)) : (<<Head(t)>> \o Tail(t))[i] =
             IF i <= 1 THEN <<Head(t)>>[i] ELSE Tail(t)[i - 1]
    BY <1>1, <1>2, ConcatProperties
  <2>2. /\ Len(t) \in Nat \ {0} /\ Head(t) = t[1] /\ Len(Tail(t)) = Len(t) - 1
        /\ \A i \in 1..Len(t) - 1 : Tail(t)[i] = t[i + 1]
    BY FirstOf
  <2>3. \A i \in 1..Len(t) : (<<Head(t)>> \o Tail(t))[i] = t[i]
    BY <1>2, <2>1, <2>2
  <2> QED BY <2>1, <2>2, <2>3, SeqEqual
<1>4. Append(b, Head(t)) = b \o <<Head(t)>>
  BY <1>1, AppendIsConcat
<1>5. a \o b \in Seq(Record) /\ b \o <<Head(t)>> \in Seq(Record)
  BY <1>2, ConcatProperties
<1>6. a \o (b \o <<Head(t)>>) = (a \o b) \o <<Head(t)>>
  BY <1>2, ConcatAssociative
<1>7. ((a \o b) \o <<Head(t)>>) \o Tail(t) = (a \o b) \o (<<Head(t)>> \o Tail(t))
  BY <1>1, <1>2, <1>5, ConcatAssociative, SMTT(30)
<1> QED BY <1>3, <1>4, <1>6, <1>7

LEMMA ReadingKept ==
  ASSUME SyncInv, pc # "ended", pc = "body" <=> pc' = "body", Ahead' = Ahead,
         UNCHANGED <<op, record, result, outcome, answer>>,
         Incoming("WRTE")' => answer # <<>>,
         pc' = "flushed" /\ inp' # <<>> /\ Head(inp').cmd = "WRTE" => Failed
  PROVE  Reading'
<1>1. /\ outcome = "none"
      /\ Current \in 1..Len(answer) + 1
      /\ pc = "body" =>
           /\ Current <= Len(answer)
           /\ record = answer[Current]
           /\ record.id \in ExpectedIds \ {"STAT"}
  BY DEF SyncInv, Reading
<1>2. PICK starts \in [1..Len(answer) + 1 -> Int] : Layout(starts)
  BY DEF SyncInv, Reading
<1>3. /\ Current' = Current /\ RecvHeaderLen' = RecvHeaderLen /\ ExpectedIds' = ExpectedIds
      /\ Failed' = Failed
      /\ \A r : Size(r)' = Size(r)
  BY DEF Current, RecvHeaderLen, ExpectedIds, Failed, Size, HeaderLen
<1>4. Layout(starts)'
  BY <1>2, <1>3 DEF Layout
<1> QED BY <1>1, <1>3, <1>4 DEF Reading

LEMMA AnswerKept ==
  ASSUME SyncInv, UNCHANGED <<op, answer>>, Complete => Complete'
  PROVE  AnswerSoFar' /\ Failed' = Failed /\ Replies' = Replies
<1>1. Replies' = Replies /\ Failed' = Failed
  BY DEF Replies, Failed
<1> QED BY <1>1 DEF SyncInv, AnswerSoFar

LEMMA CallerKept ==
  ASSUME SyncInv, UNCHANGED <<op, result, outcome>>, Complete => Complete',
         Failed => Failed', outcome = "done" => answer' = answer
  PROVE  Ended' /\ ResultIsAnswer'
<1>1. Replies' = Replies /\ Kept' = Kept
  BY DEF Replies, Kept
<1>2. answer' = answer => Failed' = Failed
  BY DEF Failed
<1> QED BY <1>1, <1>2 DEF SyncInv, Ended, ResultIsAnswer

(* A packet that is under way with records is not yet received.            *)
LEMMA NotComplete ==
  ASSUME SyncInv, OnWay("WRTE") \/ send_buffer # <<>>
  PROVE  ~Complete
<1>1. /\ received \in Seq(Record) /\ Packed \in Seq(Record)
      /\ send_buffer \in Seq(Record) /\ todo \in Seq(Record)
  BY OutNow DEF SyncInv, SessionType, TypeOK
<1>2. Packed # <<>> \/ send_buffer # <<>>
  BY OutNow DEF SyncInv
<1>3. Len(Packed) > 0 \/ Len(send_buffer) > 0
  BY <1>1, <1>2, EmptySeq
<1>4. /\ received \o Packed \in Seq(Record)
      /\ Len(received \o Packed) = Len(received) + Len(Packed)
  BY <1>1, ConcatProperties
<1>5. /\ (received \o Packed) \o send_buffer \in Seq(Record)
      /\ Len((received \o Packed) \o send_buffer) = Len(received \o Packed) + Len(send_buffer)
  BY <1>1, <1>4, ConcatProperties
<1>6. Len(((received \o Packed) \o send_buffer) \o todo) =
        Len((received \o Packed) \o send_buffer) + Len(todo)
  BY <1>1, <1>5, ConcatProperties
<1>7. /\ Len(received) \in Nat /\ Len(Packed) \in Nat
      /\ Len(send_buffer) \in Nat /\ Len(todo) \in Nat
  BY <1>1
<1>8. Len(((received \o Packed) \o send_buffer) \o todo) # Len(received)
  BY <1>3, <1>4, <1>5, <1>6, <1>7
<1> QED BY <1>8 DEF SyncInv, RecordsInOrder, Complete

(* A request that the service has not all of is answered by FAIL alone.    *)
LEMMA OnlyFailure ==
  ASSUME SyncInv, ~Complete, answer # <<>>
  PROVE  Failed
<1>1. Len(answer) \in Nat \ {0}
  BY EmptySeq DEF SyncInv, SessionType, TypeOK
<1>2. answer[1] = Failure
  BY <1>1 DEF SyncInv, AnswerSoFar
<1>3. 1 \in 1..Len(answer)
  BY <1>1
<1> QED BY <1>2, <1>3 DEF Failed, Failure, Rec

(* What begins to arrive has been answered.                                *)
LEMMA UnreadAnswered ==
  ASSUME SyncInv, pc # "ended", unsent # <<>>
  PROVE  answer # <<>>
<1>1. SUFFICES ASSUME answer = <<>> PROVE FALSE
  OBVIOUS
<1>2. SessionType /\ Len(inp) <= 2 /\ Current \in 1..Len(answer) + 1 /\ unsent \in Seq(Word)
      /\ (pc = "body" => Current <= Len(answer))
  BY DEF SyncInv, FlowControl, Reading, SessionType, TypeOK
<1>3. Len(answer) = 0
  BY <1>1
<1>4. Current = 1 /\ pc # "body"
  BY <1>2, <1>3
<1>5. PICK starts \in [1..Len(answer) + 1 -> Int] : Layout(starts)
  BY DEF SyncInv, Reading
<1>6. starts[1] = Len(Ahead) /\ starts[1] = 0
  BY <1>3, <1>4, <1>5 DEF Layout
<1>7. Len(unsent) \in Nat \ {0}
  BY <1>2, EmptySeq
<1> QED BY <1>2, <1>6, <1>7, AheadType

LEMMA FlushKeeps ==
  ASSUME SyncInv, pc = "send", send_idx # 0, Flush("flushed"),
         UNCHANGED <<op, todo, recv_buffer, record, result, outcome, inp, serviceVars>>
  PROVE  OneOut' /\ Buffered' /\ FlowControl' /\ AnswerSoFar' /\ Reading' /\ Ended'
         /\ RecordsInOrder' /\ ResultIsAnswer'
<1>0. SessionType /\ OneOut /\ Buffered /\ FlowControl /\ Reading
  BY DEF SyncInv
<1>1. out = <<>> /\ Packed = <<>>
  BY <1>0, OutNow DEF OnWay
<1>2. DEFINE p == [cmd |-> "WRTE", recs |-> send_buffer, len |-> send_idx]
<1>3. /\ send_buffer \in Seq(Record) /\ send_buffer # <<>> /\ p \in OutPacket
      /\ todo \in Seq(Record) /\ received \in Seq(Record)
  BY <1>0 DEF SessionType, TypeOK, Buffered, OutPacket
<1>4. out' = Append(out, p) /\ send_buffer' = <<>> /\ send_idx' = 0 /\ pc' = "flushed"
  BY DEF Flush, Write
<1>5. /\ out' # <<>> /\ Len(out') = 1 /\ Head(out') = p /\ Packed' = send_buffer
      /\ \A c : OnWay(c)' <=> c = "WRTE"
  <2> HIDE DEF p
  <2>1. p.recs = send_buffer /\ p.cmd = "WRTE"
    BY DEF p
  <2> QED BY <1>0, <1>1, <1>3, <1>4, <2>1, AppendOut
<1>6. OneOut'
  BY <1>3, <1>4, <1>5 DEF OneOut
<1>7. Buffered'
  BY <1>0, <1>4, FileSyncAssumption DEF Buffered
<1>8. FlowControl'
  <2>1. \A c : Incoming(c)' <=> Incoming(c)
    BY DEF Incoming
  <2>2. ~Incoming("OKAY")
    BY <1>0 DEF FlowControl
  <2>3. acked' = acked
    BY DEF serviceVars
  <2> QED BY <1>0, <1>4, <1>5, <2>1, <2>2, <2>3 DEF FlowControl
<1>9. RecordsInOrder'
  <2>1. (received \o Packed) \o send_buffer = received \o send_buffer
    BY <1>1, <1>3, ConcatEmptySeq
  <2>2. (received' \o Packed') \o send_buffer' = received \o send_buffer
    <3>1. received \o send_buffer \in Seq(Record)
      BY <1>3, ConcatProperties
    <3>2. (received \o send_buffer) \o <<>> = received \o send_buffer
      BY <3>1, ConcatEmptySeq
    <3>3. received' = received
      BY DEF serviceVars
    <3> QED BY <1>4, <1>5, <3>2, <3>3
  <2> QED BY <2>1, <2>2 DEF SyncInv, RecordsInOrder, Script, Chunks
<1>10. ~Complete /\ (Complete => Complete') /\ answer' = answer
  BY <1>3, NotComplete DEF Complete, serviceVars
<1>11. AnswerSoFar' /\ Ended' /\ ResultIsAnswer' /\ Failed' = Failed
  BY <1>10, AnswerKept, CallerKept
<1>12. Reading'
  <2>1. Ahead' = Ahead
    BY DEF Ahead, InWords, serviceVars
  <2>2. Incoming("WRTE")' => answer # <<>>
    BY <1>0 DEF Reading, Incoming
  <2>3. inp' # <<>> /\ Head(inp').cmd = "WRTE" => Failed
    <3>1. inp # <<>> /\ Head(inp).cmd = "WRTE" => Incoming("WRTE")
      BY <1>0, FirstOf DEF Incoming, SessionType
    <3> QED BY <1>0, <1>10, <3>1, OnlyFailure DEF Reading
  <2> QED BY <1>4, <1>10, <2>1, <2>2, <2>3, ReadingKept
<1> QED BY <1>6, <1>7, <1>8, <1>9, <1>11, <1>12

LEMMA SendRecordKeeps ==
  ASSUME SyncInv, SendRecord
  PROVE  SyncInv'
<1>0. SessionType /\ OneOut /\ Buffered /\ FlowControl /\ Reading /\ SessionType'
  BY SendType DEF SyncInv
<1>1. /\ pc = "send" /\ todo # <<>>
      /\ UNCHANGED <<op, recv_buffer, record, result, outcome, inp, serviceVars>>
  BY DEF SendRecord
<1>2. /\ Head(todo) \in Record /\ Head(todo).len \in Nat /\ Head(todo) = todo[1]
      /\ Tail(todo) \in Seq(Record) /\ Len(Tail(todo)) = Len(todo) - 1
      /\ \A i \in 1..Len(todo) - 1 : Tail(todo)[i] = todo[i + 1]
      /\ Len(todo) \in Nat \ {0}
      /\ send_buffer \in Seq(Record) /\ received \in Seq(Record)
      /\ send_idx \in Nat
  BY <1>0, <1>1, FirstOf, RecordType, FileSyncAssumption, SMTT(30) DEF SessionType, TypeOK
<1>3. CASE CanAddToSendBuffer(Head(todo).len)
  <2>1. /\ send_buffer' = Append(send_buffer, Head(todo))
        /\ send_idx' = send_idx + SendHeaderLen + Head(todo).len
        /\ todo' = Tail(todo)
        /\ pc' = pc /\ out' = out
    BY <1>3 DEF SendRecord
  <2>2. OneOut' /\ FlowControl' /\ Packed' = Packed
    <3>1. \A c : (Incoming(c)' <=> Incoming(c)) /\ (OnWay(c)' <=> OnWay(c))
      BY <1>1, <2>1 DEF Incoming, OnWay
    <3>2. acked' = acked /\ inp' = inp
      BY <1>1 DEF serviceVars
    <3> QED BY <1>0, <2>1, <3>1, <3>2 DEF OneOut, FlowControl, Packed
  <2>3. Buffered'
    <3>1. send_buffer' # <<>>
      BY <1>2, <2>1, AppendProperties
    <3>2. \A i \in 1..Len(todo') : todo'[i].len + SendHeaderLen < MaxData
      BY <1>0, <1>2, <2>1 DEF Buffered
    <3>3. send_idx' <= MaxData /\ send_idx' # 0
      BY <1>2, <1>3, <2>1, FileSyncAssumption DEF CanAddToSendBuffer, SendHeaderLen
    <3> QED BY <3>1, <3>2, <3>3 DEF Buffered
  <2>4. RecordsInOrder'
    <3>1. received \o Packed \in Seq(Record)
      BY <1>0, <1>2, OutNow, ConcatProperties
    <3>2. ((received \o Packed) \o Append(send_buffer, Head(todo))) \o Tail(todo)
            = ((received \o Packed) \o send_buffer) \o todo
      <4>1. todo \in Seq(Record)
        BY <1>0 DEF SessionType, TypeOK
      <4> QED BY <1>1, <1>2, <3>1, <4>1, MoveFirst
    <3>3. received' = received /\ Script(op)' = Script(op)
      BY <1>1 DEF serviceVars, Script, Chunks
    <3> QED BY <2>1, <2>2, <3>2, <3>3 DEF SyncInv, RecordsInOrder
  <2>5. UNCHANGED <<op, answer, result, outcome>> /\ (Complete => Complete')
    BY <1>1 DEF Complete, serviceVars
  <2>6. AnswerSoFar' /\ Ended' /\ ResultIsAnswer' /\ Failed' = Failed
    BY <2>5, AnswerKept, CallerKept
  <2>7. Reading'
    <3>1. Ahead' = Ahead
      BY <1>1 DEF Ahead, InWords, serviceVars
    <3>2. Incoming("WRTE")' => answer # <<>>
      BY <1>0, <1>1 DEF Reading, Incoming
    <3> QED BY <1>1, <2>1, <2>5, <3>1, <3>2, ReadingKept
  <2> QED BY <1>0, <2>2, <2>3, <2>4, <2>6, <2>7 DEF SyncInv
<1>4. CASE ~CanAddToSendBuffer(Head(todo).len)
  <2>1. Flush("flushed") /\ todo' = todo
    BY <1>4 DEF SendRecord
  <2>2. send_idx # 0
    <3>1. todo[1].len + SendHeaderLen < MaxData
      BY <1>0, <1>2 DEF Buffered
    <3> QED BY <1>2, <1>4, <3>1, FileSyncAssumption DEF CanAddToSendBuffer, SendHeaderLen
  <2> QED BY <1>0, <1>1, <2>1, <2>2, FlushKeeps DEF SyncInv
<1> QED BY <1>3, <1>4

LEMMA StartReadKeeps ==
  ASSUME SyncInv, StartRead
  PROVE  SyncInv'
<1>0. SessionType /\ OneOut /\ Buffered /\ FlowControl /\ Reading /\ SessionType'
  BY SendType DEF SyncInv
<1>1. /\ pc = "send"
      /\ UNCHANGED <<op, todo, recv_buffer, record, result, outcome, inp, serviceVars>>
  BY DEF StartRead
<1>2. CASE send_idx # 0
  BY <1>0, <1>1, <1>2, FlushKeeps DEF SyncInv, StartRead
<1>3. CASE send_idx = 0
  <2>1. pc' = "header" /\ UNCHANGED <<send_buffer, send_idx, out>>
    BY <1>3 DEF StartRead
  <2>2. out = <<>>
    BY <1>0, <1>1, OutNow
  <2>3. \A c : (Incoming(c)' <=> Incoming(c)) /\ ~OnWay(c) /\ ~OnWay(c)'
    BY <1>1, <2>1, <2>2 DEF Incoming, OnWay
  <2>4. OneOut' /\ FlowControl'
    <3>1. acked' = acked /\ inp' = inp /\ out' = out
      BY <1>1, <2>1 DEF serviceVars
    <3> QED BY <1>0, <1>1, <2>1, <2>3, <3>1 DEF OneOut, FlowControl
  <2>5. Buffered' /\ RecordsInOrder'
    BY <1>0, <1>1, <2>1 DEF Buffered, SyncInv, RecordsInOrder, Packed, Script, Chunks, serviceVars
  <2>6. UNCHANGED <<op, answer, result, outcome>> /\ (Complete => Complete')
    BY <1>1 DEF Complete, serviceVars
  <2>7. AnswerSoFar' /\ Ended' /\ ResultIsAnswer' /\ Failed' = Failed
    BY <2>6, AnswerKept, CallerKept
  <2>8. Reading'
    <3>1. Ahead' = Ahead
      BY <1>1 DEF Ahead, InWords, serviceVars
    <3>2. Incoming("WRTE")' => answer # <<>>
      BY <1>0, <1>1 DEF Reading, Incoming
    <3> QED BY <1>1, <2>1, <2>6, <3>1, <3>2, ReadingKept
  <2> QED BY <1>0, <2>4, <2>5, <2>7, <2>8 DEF SyncInv
<1> QED BY <1>2, <1>3

LEMMA WriteAnswerKeeps ==
  ASSUME SyncInv, WriteAnswer
  PROVE  SyncInv'
<1>0. SessionType /\ OneOut /\ Buffered /\ FlowControl /\ Reading /\ SessionType'
  BY SendType DEF SyncInv
<1>1. /\ pc = "flushed" /\ inp # <<>> /\ inp' = Tail(inp)
      /\ UNCHANGED <<op, todo, send_buffer, send_idx, recv_buffer, record, result, out, serviceVars>>
  BY DEF WriteAnswer
<1>2. IF Head(inp).cmd = "OKAY" THEN pc' = "send" /\ outcome' = outcome
      ELSE pc' = "ended" /\ outcome' = "misread"
  BY DEF WriteAnswer, Ends
<1>3. /\ Head(inp) \in InPacket /\ Head(inp).cmd \in {"OKAY", "WRTE"}
      /\ Head(inp).cmd = "OKAY" => Head(inp).words = <<>>
      /\ Len(inp') <= 1 /\ Incoming(Head(inp).cmd)
      /\ \A c : Incoming(c)' <=> Incoming(c) /\ c # Head(inp).cmd
      /\ \A i \in 1..Len(inp') : inp'[i].cmd = "OKAY" => inp'[i].words = <<>>
      /\ InWords' \in Seq(Word) /\ InWords = Head(inp).words \o InWords'
  BY <1>0, <1>1, TailInp
<1>4. \A c : OnWay(c)' <=> OnWay(c)
  BY <1>1 DEF OnWay
<1>5. Head(inp).cmd = "OKAY" => ~OnWay("WRTE")
  BY <1>0, <1>3 DEF FlowControl
<1>6. OneOut'
  BY <1>0, <1>1, <1>2, <1>4, <1>5 DEF OneOut
<1>7. FlowControl'
  <2>1. acked' = acked
    BY <1>1 DEF serviceVars
  <2>2. Len(inp') \in Nat
    BY <1>0 DEF SessionType
  <2>3. Len(inp') <= 2 /\ Len(inp') # 2
    <3>1. \A n \in Nat : n <= 1 => n <= 2 /\ n # 2
      OBVIOUS
    <3> QED BY <1>3, <2>2, <3>1
  <2> QED BY <1>0, <1>1, <1>2, <1>3, <1>4, <1>5, <2>1, <2>3 DEF FlowControl
<1>8. Buffered' /\ RecordsInOrder'
  BY <1>0, <1>1 DEF Buffered, SyncInv, RecordsInOrder, Packed, Script, Chunks, serviceVars
<1>9. UNCHANGED <<op, answer, result>> /\ (Complete => Complete')
  BY <1>1 DEF Complete, serviceVars
<1>10. AnswerSoFar' /\ Failed' = Failed
  BY <1>9, AnswerKept
<1>11. CASE Head(inp).cmd = "OKAY"
  <2>1. pc' = "send" /\ outcome' = outcome
    BY <1>2, <1>11
  <2>2. Ended' /\ ResultIsAnswer'
    BY <1>9, <1>10, <2>1, CallerKept
  <2>3. Reading'
    <3>1. InWords' = InWords
      BY <1>3, <1>11, ConcatEmptySeq
    <3>2. Ahead' = Ahead
      BY <1>1, <3>1 DEF Ahead, serviceVars
    <3>3. Incoming("WRTE")' => answer # <<>>
      BY <1>0, <1>1, <1>3 DEF Reading
    <3> QED BY <1>1, <1>9, <2>1, <3>2, <3>3, ReadingKept
  <2> QED BY <1>0, <1>6, <1>7, <1>8, <1>10, <2>2, <2>3 DEF SyncInv
<1>12. CASE Head(inp).cmd # "OKAY"
  <2>1. pc' = "ended" /\ outcome' = "misread" /\ Head(inp).cmd = "WRTE"
    BY <1>2, <1>3, <1>12
  <2>2. Failed
    BY <1>0, <1>1, <2>1 DEF Reading
  <2>3. Reading' /\ Ended'
    BY <2>1 DEF Reading, Ended
  <2>4. Kept' = Kept
    BY <1>9 DEF Kept, Replies
  <2>5. ResultIsAnswer'
    BY <1>9, <1>10, <2>1, <2>2, <2>4 DEF SyncInv, ResultIsAnswer
  <2> QED BY <1>0, <1>6, <1>7, <1>8, <1>10, <2>3, <2>5 DEF SyncInv
<1> QED BY <1>11, <1>12

-----------------------------------------------------------------------------
(* What the host reads is taken from the front of the words ahead, and the *)
(* beginnings of the records move with it.                                 *)
LEMMA Consumed ==
  ASSUME SessionType, SessionType', Len(inp) <= 2, NEW n \in Nat, n <= Len(recv_buffer),
         recv_buffer' = RestOf(n), UNCHANGED <<inp, unsent>>
  PROVE  /\ Ahead \in Seq(Word) /\ Ahead' \in Seq(Word)
         /\ Len(Ahead') = Len(Ahead) - n
         /\ \A i \in 1..Len(Ahead) - n : Ahead'[i] = Ahead[i + n]
<1> DEFINE a == SubSeq(recv_buffer, 1, n)
           b == SubSeq(recv_buffer, n + 1, Len(recv_buffer))
<1>1. recv_buffer \in Seq(Word) /\ unsent \in Seq(Word) /\ InWords \in Seq(Word)
      /\ Ahead \in Seq(Word) /\ Len(recv_buffer) \in Nat
  BY AheadType DEF SessionType, TypeOK
<1>2. a \in Seq(Word) /\ Len(a) = n /\ b \in Seq(Word)
  BY <1>1, Cut
<1>3. a \o b = recv_buffer
  <2>1. 1 \in 1..Len(recv_buffer) + 1 /\ n \in 1 - 1..Len(recv_buffer)
        /\ Len(recv_buffer) \in n..Len(recv_buffer)
    BY <1>1
  <2>2. a \o b = SubSeq(recv_buffer, 1, Len(recv_buffer))
    BY <1>1, <2>1, ConcatAdjacentSubSeq
  <2> QED BY <1>1, <2>2, SubSeqFull
<1>4. recv_buffer' = b /\ Ahead' = (b \o InWords) \o unsent
  BY DEF RestOf, Ahead, InWords
<1>5. Ahead = ((a \o b) \o InWords) \o unsent
  BY <1>3 DEF Ahead
<1> HIDE DEF a, b
<1>6. b \o InWords \in Seq(Word) /\ (b \o InWords) \o unsent \in Seq(Word)
  BY <1>1, <1>2, ConcatProperties
<1>7. (a \o b) \o InWords = a \o (b \o InWords)
  BY <1>1, <1>2, WordsAssociate, ZenonT(40)
<1>8. (a \o (b \o InWords)) \o unsent = a \o ((b \o InWords) \o unsent)
  <2>1. a \in Seq(Word) /\ unsent \in Seq(Word) /\ b \o InWords \in Seq(Word)
    BY <1>1, <1>2, <1>6
  <2> QED BY <2>1, WordsAssociate
<1>9. Ahead = a \o Ahead' /\ Ahead' \in Seq(Word)
  BY <1>4, <1>5, <1>6, <1>7, <1>8
<1>10. /\ Len(Ahead) = Len(a) + Len(Ahead')
       /\ \A i \in 1..Len(a) + Len(Ahead') :
            Ahead[i] = IF i <= Len(a) THEN a[i] ELSE Ahead'[i - Len(a)]
  BY <1>2, <1>9, ConcatProperties
<1>11. Len(Ahead') \in Nat
  BY <1>9
<1>12. ASSUME NEW i \in 1..Len(Ahead) - n
       PROVE  Ahead'[i] = Ahead[i + n]
  <2>1. i + n \in 1..Len(a) + Len(Ahead') /\ ~(i + n <= Len(a)) /\ i + n - Len(a) = i
    BY <1>2, <1>10, <1>11
  <2> QED BY <1>10, <2>1
<1> QED BY <1>1, <1>2, <1>9, <1>10, <1>11, <1>12

LEMMA Shifted ==
  ASSUME NEW n \in Nat, NEW starts, Layout(starts), UNCHANGED <<op, answer>>,
         answer \in Seq(Record), Ahead \in Seq(Word),
         Len(Ahead') = Len(Ahead) - n,
         \A i \in 1..Len(Ahead) - n : Ahead'[i] = Ahead[i + n],
         Current \in 1..Len(answer) + 1, Current' \in Current..Len(answer) + 1,
         starts[Current'] - n = IF pc' = "body" THEN 0 - RecvHeaderLen ELSE 0
  PROVE  \E s \in [1..Len(answer') + 1 -> Int] : Layout(s)'
<1> DEFINE N == Len(answer) + 1
<1>1. /\ Len(answer) \in Nat /\ answer' = answer /\ Len(Ahead) \in Nat
      /\ RecvHeaderLen' = RecvHeaderLen
      /\ \A r : Size(r)' = Size(r)
  BY DEF RecvHeaderLen, Size, HeaderLen
<1>2. starts \in [1..N -> Int]
  BY DEF Layout
<1>3. PICK s \in [1..N -> Int] : \A k \in 1..N : s[k] = starts[k] - n
  <2>1. [k \in 1..N |-> starts[k] - n] \in [1..N -> Int]
    BY <1>2
  <2> QED BY <2>1
<1>4. \A k \in 1..N : starts[k] \in Int
  BY <1>2
<1>5. Current \in Int /\ Current' \in 1..N
  BY <1>1
<1>6. \A k, l \in 1..N : k <= l => s[k] <= s[l]
  BY <1>3, <1>4 DEF Layout
<1>7. \A k \in 1..Len(answer) : s[k + 1] = s[k] + Size(answer[k])
  <2>1. TAKE k \in 1..Len(answer)
  <2>2. k \in 1..N /\ k + 1 \in 1..N /\ answer[k] \in Record
    BY <1>1, ElementOfSeq
  <2>3. starts[k + 1] = starts[k] + Size(answer[k])
    BY DEF Layout
  <2>4. Size(answer[k]) \in Nat
    BY <2>2, SizeType
  <2>5. s[k] = starts[k] - n /\ s[k + 1] = starts[k + 1] - n
    BY <1>3, <2>2
  <2>6. starts[k] \in Int /\ starts[k + 1] \in Int
    BY <1>4, <2>2
  <2>7. \A x, a, m \in Int : (x + a) - m = (x - m) + a
    OBVIOUS
  <2>8. (starts[k] + Size(answer[k])) - n = (starts[k] - n) + Size(answer[k])
    BY <2>4, <2>6, <2>7
  <2> HIDE DEF N
  <2> QED BY <2>3, <2>5, <2>8
<1>8. s[N] = Len(Ahead')
  <2>1. N \in 1..N
    BY <1>1
  <2> QED BY <1>3, <2>1 DEF Layout
<1>9. s[Current'] = IF pc' = "body" THEN 0 - RecvHeaderLen ELSE 0
  BY <1>3, <1>5
<1>10. ASSUME NEW k \in Current'..Len(answer), NEW j \in 1..Size(answer[k]), s[k] + j >= 1
       PROVE  Ahead'[s[k] + j] = <<k, j>>
  <2>1. k \in 1..Len(answer) /\ k \in Current..Len(answer) /\ k \in 1..N
        /\ k + 1 \in 1..N /\ N \in 1..N /\ k + 1 <= N
    BY <1>1, <1>5
  <2>2. answer[k] \in Record /\ Size(answer[k]) \in Nat
    BY <2>1, ElementOfSeq, SizeType
  <2>3. s[k] = starts[k] - n /\ starts[k] \in Int /\ starts[k] + j >= 1
    BY <1>3, <1>4, <1>10, <2>1, <2>2, SMTT(30)
  <2>4. Ahead[starts[k] + j] = <<k, j>>
    BY <2>1, <2>3 DEF Layout
  <2>5. starts[k + 1] = starts[k] + Size(answer[k]) /\ starts[k + 1] <= Len(Ahead)
    BY <2>1 DEF Layout
  <2>6. s[k] + j \in 1..Len(Ahead) - n /\ s[k] + j + n = starts[k] + j
    <3>1. PICK x \in Int : x = s[k]
      BY <1>3, <2>1
    <3>2. PICK y \in Int : y = starts[k]
      BY <1>4, <2>1
    <3>3. PICK z \in Int : z = starts[k + 1]
      BY <1>4, <2>1
    <3>4. PICK l \in Nat : l = Len(Ahead)
      BY <1>1
    <3>5. PICK m \in Nat : m = Size(answer[k])
      BY <2>2
    <3>6. x = y - n /\ z = y + m /\ z <= l /\ j \in 1..m /\ x + j >= 1
      BY <1>10, <2>3, <2>5, <3>1, <3>2, <3>3, <3>4, <3>5
    <3>7. x + j \in 1..l - n /\ x + j + n = y + j
      BY <3>6
    <3> QED BY <3>1, <3>2, <3>4, <3>7
  <2> QED BY <2>4, <2>6
<1>11. Layout(s)'
  BY <1>1, <1>3, <1>6, <1>7, <1>8, <1>9, <1>10 DEF Layout
<1> QED BY <1>1, <1>3, <1>11

-----------------------------------------------------------------------------
(* What the host can find in the answer.                                   *)
LEMMA RepliesExpected ==
  ASSUME op \in Ops, NEW k \in 1..Len(Replies)
  PROVE  /\ Replies[k].id \in ExpectedIds \ {"FAIL"}
         /\ Replies[k].id \in {"DATA", "DENT"} => k \in 1..Len(Kept)
         /\ Replies[k].id \notin {"DATA", "DENT"} => k = Len(Replies)
         /\ Replies[k].id = "STAT" => op = "stat" /\ Len(Replies) = 1
         /\ Replies[k].id = "STAT" => Kept = Replies
<1>1. /\ Replies \in Seq(Record) /\ Len(Replies) \in Nat \ {0}
      /\ Len(Kept) = IF op = "stat" THEN 1 ELSE Len(Replies) - 1
      /\ \A l \in 1..Len(Kept) : Kept[l] = Replies[l]
      /\ \A l \in 1..Len(Kept) :
           Replies[l].id = IF op = "pull" THEN "DATA" ELSE IF op = "list" THEN "DENT" ELSE "STAT"
      /\ Replies[Len(Replies)].id =
           IF op = "push" THEN "OKAY" ELSE IF op = "stat" THEN "STAT" ELSE "DONE"
  BY RepliesType
<1>2. op = "stat" => Replies = <<Rec("STAT", 0, 0)>> /\ Kept = Replies
  BY DEF Replies, Kept
<1>3. op = "stat" => Len(Replies) = 1
  BY <1>2
<1>4. op = "push" => Len(Replies) = 1
  BY DEF Replies
<1>5. k = Len(Replies) \/ (k \in 1..Len(Kept) /\ k # Len(Replies))
  <2>1. Len(Replies) - 1 <= Len(Kept) /\ Len(Kept) \in Nat
    BY <1>1, <1>3
  <2> QED BY <1>1, <2>1
<1>6. ExpectedIds = IF op = "push" THEN {"OKAY", "FAIL"} ELSE IF op = "pull" THEN {"DATA", "DONE"}
                    ELSE IF op = "stat" THEN {"STAT"} ELSE {"DENT", "DONE"}
  BY DEF ExpectedIds, Ops
<1>7. CASE k = Len(Replies)
  BY <1>1, <1>2, <1>3, <1>6, <1>7 DEF Ops
<1>8. CASE k \in 1..Len(Kept) /\ k # Len(Replies)
  <2>1. op \in {"pull", "list"}
    BY <1>3, <1>4, <1>8 DEF Ops
  <2> QED BY <1>1, <1>6, <1>8, <2>1
<1> QED BY <1>5, <1>7, <1>8

LEMMA AnswerIs ==
  ASSUME SyncInv, NEW k \in 1..Len(answer)
  PROVE  /\ answer[k] \in Record
         /\ k \in 1..Len(Replies)
         /\ \/ answer[k] = Replies[k] /\ Complete
            \/ answer[k].id = "FAIL" /\ k = Len(answer)
         /\ answer[k].id = "FAIL" => Failed
         /\ answer[k].id # "FAIL" => /\ answer[k] = Replies[k] /\ Complete
                                     /\ answer[k].id \in ExpectedIds
<1>1. answer \in Seq(Record) /\ op \in Ops /\ Len(answer) <= Len(Replies)
  BY DEF SyncInv, SessionType, TypeOK, AnswerSoFar
<1>2. answer[k] \in Record
  BY <1>1, ElementOfSeq
<1>3. k \in 1..Len(Replies)
  <2>1. Len(answer) \in Nat /\ Len(Replies) \in Nat
    BY <1>1, RepliesType
  <2> QED BY <1>1, <2>1
<1>4. \/ answer[k] = Replies[k] /\ Complete
      \/ k = Len(answer) /\ answer[k].id = "FAIL"
  <2>1. Failure.id = "FAIL"
    BY DEF Failure, Rec
  <2> QED BY <2>1 DEF SyncInv, AnswerSoFar
<1>5. Replies[k].id \in ExpectedIds
  BY <1>1, <1>3, RepliesExpected
<1> QED BY <1>2, <1>3, <1>4, <1>5 DEF Failed

LEMMA Succeeded ==
  ASSUME SyncInv, Current \in 1..Len(answer), answer[Current].id \notin {"FAIL", "DATA", "DENT"}
  PROVE  Len(answer) = Len(Replies) /\ Complete /\ ~Failed /\ Current = Len(Replies)
<1>1. /\ Current \in 1..Len(Replies) /\ answer[Current] = Replies[Current] /\ Complete
      /\ op \in Ops /\ Len(answer) <= Len(Replies) /\ Len(answer) \in Nat
  BY AnswerIs DEF SyncInv, SessionType, TypeOK, AnswerSoFar
<1>2. Current = Len(Replies)
  BY <1>1, RepliesExpected
<1>3. Len(answer) = Len(Replies)
  BY <1>1, <1>2
<1>4. ASSUME NEW k \in 1..Len(answer) PROVE answer[k].id # "FAIL"
  <2>1. k = Len(answer) \/ answer[k] = Replies[k]
    BY AnswerIs
  <2>2. answer[k] = Replies[k]
    BY <1>1, <1>2, <1>3, <2>1
  <2>3. k \in 1..Len(Replies)
    BY <1>3
  <2> QED BY <1>1, <2>2, <2>3, RepliesExpected
<1> QED BY <1>1, <1>2, <1>3, <1>4 DEF Failed

LEMMA ReadSide ==
  ASSUME SyncInv, pc \in {"header", "body"}, pc' \in {"header", "body", "ended"},
         UNCHANGED <<op, todo, send_buffer, send_idx, out, inp, serviceVars>>
  PROVE  /\ OneOut' /\ Buffered' /\ FlowControl' /\ RecordsInOrder' /\ AnswerSoFar'
         /\ Failed' = Failed /\ Complete' = Complete /\ Replies' = Replies /\ Kept' = Kept
<1>0. SessionType /\ OneOut /\ Buffered /\ FlowControl
  BY DEF SyncInv
<1>1. \A c : (OnWay(c)' <=> OnWay(c)) /\ (Incoming(c)' <=> Incoming(c))
  BY DEF OnWay, Incoming
<1>2. ~OnWay("WRTE") /\ ~Incoming("OKAY")
  BY <1>0 DEF OneOut, FlowControl
<1>3. acked' = acked /\ answer' = answer /\ Complete' = Complete /\ received' = received
  BY DEF serviceVars, Complete
<1>4. OneOut' /\ FlowControl'
  BY <1>0, <1>1, <1>2, <1>3 DEF OneOut, FlowControl
<1>5. Buffered' /\ RecordsInOrder'
  BY <1>0, <1>3 DEF Buffered, SyncInv, RecordsInOrder, Packed, Script, Chunks
<1>6. AnswerSoFar' /\ Failed' = Failed /\ Replies' = Replies
  BY <1>3, AnswerKept
<1>7. Kept' = Kept
  BY DEF Kept, Replies
<1> QED BY <1>3, <1>4, <1>5, <1>6, <1>7

LEMMA ReadHeaderKeeps ==
  ASSUME SyncInv, ReadHeader
  PROVE  SyncInv'
<1>0. SessionType /\ Reading /\ SessionType' /\ Len(inp) <= 2 /\ op \in Ops
  BY ReadType DEF SyncInv, FlowControl, SessionType, TypeOK
<1>1. /\ pc = "header" /\ Len(recv_buffer) >= RecvHeaderLen
      /\ recv_buffer' = RestOf(RecvHeaderLen)
      /\ UNCHANGED <<op, todo, send_buffer, send_idx, out, inp, serviceVars>>
  BY DEF ReadHeader, Wanted
<1>2. /\ Current \in 1..Len(answer) /\ Aligned /\ Front = answer[Current]
      /\ record' = answer[Current]
  BY FrontIsNext DEF ReadHeader
<1>3. /\ answer[Current].id = "FAIL" => Failed
      /\ answer[Current].id # "FAIL" => answer[Current].id \in ExpectedIds
      /\ answer[Current].id # "FAIL" => answer[Current] = Replies[Current]
      /\ Current \in 1..Len(Replies)
  BY <1>2, AnswerIs
<1>4. outcome = "none"
  BY <1>0, <1>1 DEF Reading
<1>5. CASE answer[Current].id \notin ExpectedIds
  <2>1. pc' = "ended" /\ outcome' = "command_failed" /\ result' = result /\ Failed
    BY <1>2, <1>3, <1>5 DEF ReadHeader, Ends
  <2>2. /\ OneOut' /\ Buffered' /\ FlowControl' /\ RecordsInOrder' /\ AnswerSoFar'
        /\ Failed' = Failed /\ Kept' = Kept
    BY <1>1, <2>1, ReadSide
  <2>3. Reading' /\ Ended'
    BY <2>1 DEF Reading, Ended
  <2>4. ResultIsAnswer'
    BY <2>1, <2>2 DEF SyncInv, ResultIsAnswer
  <2> QED BY <1>0, <2>2, <2>3, <2>4 DEF SyncInv
<1>6. CASE answer[Current].id \in ExpectedIds /\ answer[Current].id = "STAT"
  <2>1. pc' = "ended" /\ outcome' = "done" /\ result' = <<answer[Current]>>
    BY <1>2, <1>6 DEF ReadHeader, Ends
  <2>2. /\ OneOut' /\ Buffered' /\ FlowControl' /\ RecordsInOrder' /\ AnswerSoFar'
        /\ Failed' = Failed /\ Complete' = Complete /\ Kept' = Kept /\ Replies' = Replies
    BY <1>1, <2>1, ReadSide
  <2>3. Len(answer) = Len(Replies) /\ Complete /\ ~Failed
    BY <1>2, <1>6, Succeeded
  <2>4. Kept = Replies /\ Len(Replies) = 1 /\ answer[Current] = Replies[Current] /\ Current = 1
    BY <1>0, <1>3, <1>6, RepliesExpected
  <2>5. result' = Kept /\ Kept \in Seq(Record)
    <3>1. Replies \in Seq(Record)
      BY <1>0, RepliesType
    <3>2. Replies = <<Replies[1]>>
      BY <2>4, <3>1
    <3> QED BY <2>1, <2>4, <3>1, <3>2
  <2>6. Reading' /\ Ended'
    <3>1. answer' = answer
      BY <1>1 DEF serviceVars
    <3> QED BY <2>1, <2>2, <2>3, <3>1 DEF Reading, Ended
  <2>7. ResultIsAnswer'
    <3>1. SubSeq(Kept, 1, Len(Kept)) = Kept /\ Len(Kept) <= Len(Kept)
      BY <2>5, SubSeqFull
    <3> QED BY <2>1, <2>2, <2>3, <2>5, <3>1 DEF ResultIsAnswer
  <2> QED BY <1>0, <2>2, <2>6, <2>7 DEF SyncInv
<1>7. CASE answer[Current].id \in ExpectedIds /\ answer[Current].id # "STAT"
  <2>1. pc' = "body" /\ outcome' = outcome /\ result' = result
    BY <1>2, <1>7 DEF ReadHeader
  <2>2. /\ OneOut' /\ Buffered' /\ FlowControl' /\ RecordsInOrder' /\ AnswerSoFar'
        /\ Failed' = Failed /\ Complete' = Complete
    BY <1>1, <2>1, ReadSide
  <2>3. answer' = answer /\ unsent' = unsent /\ Current' = Current /\ ExpectedIds' = ExpectedIds
        /\ op' = op
    BY <1>1, <2>1 DEF serviceVars, Current, ExpectedIds
  <2>4. Ended' /\ ResultIsAnswer'
    BY <2>1, <2>2, <2>3, CallerKept
  <2>5. PICK starts \in [1..Len(answer) + 1 -> Int] : Layout(starts)
    BY <1>0, <1>1 DEF Reading
  <2>6. starts[Current] = 0
    BY <1>1, <2>5 DEF Layout
  <2>7. /\ Ahead \in Seq(Word)
        /\ Len(Ahead') = Len(Ahead) - RecvHeaderLen
        /\ \A i \in 1..Len(Ahead) - RecvHeaderLen : Ahead'[i] = Ahead[i + RecvHeaderLen]
    <3>1. RecvHeaderLen \in Nat /\ RecvHeaderLen <= Len(recv_buffer)
      <4>1. Len(recv_buffer) \in Nat
        BY <1>0 DEF SessionType, TypeOK
      <4> QED BY <1>1, <4>1, HeaderLens
    <3>2. UNCHANGED <<inp, unsent>>
      BY <1>1, <2>3
    <3> QED BY <1>0, <1>1, <3>1, <3>2, Consumed
  <2>8. \E s \in [1..Len(answer') + 1 -> Int] : Layout(s)'
    <3>1. RecvHeaderLen \in Nat /\ answer \in Seq(Record) /\ Len(answer) \in Nat
      <4>1. answer \in Seq(Record)
        BY <1>0 DEF SessionType, TypeOK
      <4> QED BY <4>1, HeaderLens
    <3>2. Current \in 1..Len(answer) + 1 /\ Current' \in Current..Len(answer) + 1
      BY <1>2, <2>3, <3>1
    <3>3. starts[Current'] - RecvHeaderLen = IF pc' = "body" THEN 0 - RecvHeaderLen ELSE 0
      BY <2>1, <2>3, <2>6
    <3> QED BY <2>3, <2>5, <2>7, <3>1, <3>2, <3>3, Shifted
  <2>9. Reading'
    <3>1. Current \in 1..Len(answer) + 1 /\ Current <= Len(answer)
      <4>1. Len(answer) \in Nat
        BY <1>0 DEF SessionType, TypeOK
      <4> QED BY <1>2, <4>1
    <3>2. Incoming("WRTE")' => answer' # <<>>
      BY <1>0, <1>1, <2>3 DEF Reading, Incoming
    <3> QED BY <1>2, <1>4, <1>7, <2>1, <2>3, <2>8, <3>1, <3>2 DEF Reading
  <2> QED BY <1>0, <2>2, <2>4, <2>9 DEF SyncInv
<1> QED BY <1>5, <1>6, <1>7

LEMMA ReadBodyKeeps ==
  ASSUME SyncInv, ReadBody
  PROVE  SyncInv'
<1>0. SessionType /\ Reading /\ SessionType' /\ Len(inp) <= 2 /\ op \in Ops
      /\ answer \in Seq(Record) /\ Len(answer) \in Nat /\ result \in Seq(Record)
      /\ Len(recv_buffer) \in Nat
  <2>1. SessionType /\ Reading /\ SessionType' /\ Len(inp) <= 2
    BY ReadType DEF SyncInv, FlowControl
  <2> QED BY <2>1, SMTT(30) DEF SessionType, TypeOK
<1>1. /\ pc = "body" /\ Len(recv_buffer) >= record.len
      /\ recv_buffer' = RestOf(record.len)
      /\ Deliver(record)
      /\ UNCHANGED <<op, todo, send_buffer, send_idx, out, inp, serviceVars>>
  BY DEF ReadBody, Wanted
<1>2. /\ Current \in 1..Len(answer) /\ record = answer[Current] /\ outcome = "none"
      /\ record.id \in ExpectedIds \ {"STAT"}
  BY <1>0, <1>1 DEF Reading
<1>3. /\ record \in Record
      /\ record.id = "FAIL" => Failed
      /\ record.id # "FAIL" => record = Replies[Current]
      /\ Current \in 1..Len(Replies)
  BY <1>2, AnswerIs
<1>4. answer' = answer /\ unsent' = unsent
  BY <1>1 DEF serviceVars
<1>5. CASE record.id = "FAIL"
  <2>1. pc' = "ended" /\ outcome' = "push_failed" /\ result' = result
    BY <1>1, <1>5 DEF Deliver, Ends
  <2>2. /\ OneOut' /\ Buffered' /\ FlowControl' /\ RecordsInOrder' /\ AnswerSoFar'
        /\ Failed' = Failed /\ Kept' = Kept
    BY <1>1, <2>1, ReadSide
  <2>3. Reading' /\ Ended'
    BY <2>1 DEF Reading, Ended
  <2>4. ResultIsAnswer'
    BY <1>3, <1>5, <2>1, <2>2 DEF SyncInv, ResultIsAnswer
  <2> QED BY <1>0, <2>2, <2>3, <2>4 DEF SyncInv
<1>6. CASE record.id \notin {"FAIL", "DATA", "DENT"}
  <2>1. pc' = "ended" /\ outcome' = "done" /\ result' = result
    BY <1>1, <1>6 DEF Deliver, Ends
  <2>2. /\ OneOut' /\ Buffered' /\ FlowControl' /\ RecordsInOrder' /\ AnswerSoFar'
        /\ Failed' = Failed /\ Complete' = Complete /\ Kept' = Kept /\ Replies' = Replies
    BY <1>1, <2>1, ReadSide
  <2>3. Len(answer) = Len(Replies) /\ Complete /\ ~Failed /\ Current = Len(Replies)
    BY <1>2, <1>6, Succeeded
  <2>4. result = Kept
    <3>1. Kept \in Seq(Record) /\ Len(Replies) \in Nat
          /\ Len(Kept) = IF op = "stat" THEN 1 ELSE Len(Replies) - 1
      BY <1>0, RepliesType
    <3>2. op # "stat"
      BY <1>2 DEF ExpectedIds
    <3>3. Len(Kept) = Len(result)
      BY <1>0, <2>3, <3>1, <3>2 DEF Current
    <3> QED BY <3>1, <3>3, SubSeqFull DEF SyncInv, ResultIsAnswer
  <2>5. Reading' /\ Ended'
    BY <1>4, <2>1, <2>2, <2>3 DEF Reading, Ended
  <2>6. ResultIsAnswer'
    BY <2>1, <2>2, <2>3, <2>4 DEF SyncInv, ResultIsAnswer
  <2> QED BY <1>0, <2>2, <2>5, <2>6 DEF SyncInv
<1>7. CASE record.id \in {"DATA", "DENT"}
  <2>1. pc' = "header" /\ outcome' = outcome /\ result' = Append(result, record)
    BY <1>1, <1>7 DEF Deliver
  <2>2. /\ OneOut' /\ Buffered' /\ FlowControl' /\ RecordsInOrder' /\ AnswerSoFar'
        /\ Failed' = Failed /\ Complete' = Complete /\ Kept' = Kept /\ Replies' = Replies
    BY <1>1, <2>1, ReadSide
  <2>3. /\ Len(result') = Len(result) + 1
        /\ \A i \in 1..Len(result) : result'[i] = result[i]
        /\ result'[Len(result) + 1] = record
        /\ Current' = Current + 1 /\ Len(result) \in Nat
    BY <1>0, <1>3, <2>1, AppendProperties DEF Current
  <2>4. Ended' /\ ResultIsAnswer'
    <3>1. /\ Kept \in Seq(Record) /\ Len(Kept) \in Nat /\ Current \in 1..Len(Kept)
          /\ Kept[Current] = record
      <4>1. Current \in 1..Len(Kept)
        BY <1>0, <1>3, <1>7, RepliesExpected
      <4> QED BY <1>0, <1>3, <1>7, <4>1, RepliesType
    <3>2. Len(result) <= Len(Kept) /\ result = SubSeq(Kept, 1, Len(result))
      BY DEF SyncInv, ResultIsAnswer
    <3>3. \A i \in 1..Len(result) : result[i] = Kept[i]
      <4>1. Len(result) \in 0..Len(Kept)
        BY <2>3, <3>1, <3>2
      <4>2. \A i \in 1..Len(result) : SubSeq(Kept, 1, Len(result))[i] = Kept[i]
        BY <3>1, <4>1, Cut
      <4> QED BY <3>2, <4>2
    <3>4. Len(result') \in 0..Len(Kept)
      BY <2>3, <3>1 DEF Current
    <3>5. SubSeq(Kept, 1, Len(result')) = result'
      <4>1. /\ SubSeq(Kept, 1, Len(result')) \in Seq(Record)
            /\ Len(SubSeq(Kept, 1, Len(result'))) = Len(result')
            /\ \A i \in 1..Len(result') : SubSeq(Kept, 1, Len(result'))[i] = Kept[i]
        BY <3>1, <3>4, Cut
      <4>2. \A i \in 1..Len(result') : result'[i] = Kept[i]
        BY <2>3, <3>1, <3>3 DEF Current
      <4>3. result' \in Seq(Record)
        BY <1>0 DEF SessionType, TypeOK
      <4> QED BY <4>1, <4>2, <4>3, SeqEqual
    <3>6. Len(result') <= Len(Kept)
      BY <3>1, <3>4
    <3> QED BY <1>2, <2>1, <2>2, <3>5, <3>6 DEF Ended, ResultIsAnswer
  <2>5. PICK starts \in [1..Len(answer) + 1 -> Int] : Layout(starts)
    BY <1>0, <1>1 DEF Reading
  <2>6. starts[Current + 1] - record.len = 0
    <3>1. starts[Current] = 0 - RecvHeaderLen /\ starts[Current + 1] = starts[Current] + Size(record)
      BY <1>1, <1>2, <2>5 DEF Layout
    <3>2. HeaderLen(record) = RecvHeaderLen
      <4>1. \/ record.id = "DATA" /\ op = "pull"
            \/ record.id = "DENT" /\ op = "list"
        BY <1>0, <1>2, <1>7 DEF ExpectedIds, Ops
      <4>2. record.id = "DATA" => HeaderLen(record) = 2
        BY DEF HeaderLen
      <4>3. record.id = "DENT" => HeaderLen(record) = 5
        BY DEF HeaderLen
      <4> QED BY <4>1, <4>2, <4>3, HeaderLens
    <3> QED BY <1>3, <3>1, <3>2, HeaderLens, RecordType DEF Size
  <2>7. /\ Ahead \in Seq(Word)
        /\ Len(Ahead') = Len(Ahead) - record.len
        /\ \A i \in 1..Len(Ahead) - record.len : Ahead'[i] = Ahead[i + record.len]
    <3>1. record.len \in Nat /\ record.len <= Len(recv_buffer)
      BY <1>0, <1>1, <1>3, RecordType
    <3>2. UNCHANGED <<inp, unsent>>
      BY <1>1, <1>4
    <3> QED BY <1>0, <1>1, <3>1, <3>2, Consumed
  <2>8. \E s \in [1..Len(answer') + 1 -> Int] : Layout(s)'
    <3>1. record.len \in Nat
      BY <1>3, RecordType
    <3>2. Current \in 1..Len(answer) + 1 /\ Current' \in Current..Len(answer) + 1
      BY <1>0, <1>2, <2>3
    <3>3. starts[Current'] - record.len = IF pc' = "body" THEN 0 - RecvHeaderLen ELSE 0
      BY <2>1, <2>3, <2>6
    <3>4. UNCHANGED <<op, answer>>
      BY <1>1, <1>4
    <3> QED BY <1>0, <2>5, <2>7, <3>1, <3>2, <3>3, <3>4, Shifted
  <2>9. Reading'
    <3>1. Current' \in 1..Len(answer') + 1
      BY <1>0, <1>2, <1>4, <2>3
    <3>2. Incoming("WRTE")' => answer' # <<>>
      BY <1>0, <1>1, <1>4 DEF Reading, Incoming
    <3> QED BY <1>2, <2>1, <2>8, <3>1, <3>2 DEF Reading
  <2> QED BY <1>0, <2>2, <2>4, <2>9 DEF SyncInv
<1> QED BY <1>5, <1>6, <1>7

LEMMA ReadMoreKeeps ==
  ASSUME SyncInv, ReadMore
  PROVE  SyncInv'
<1>0. SessionType /\ OneOut /\ Buffered /\ FlowControl /\ Reading /\ SessionType'
  BY ReadType DEF SyncInv
<1>1. /\ pc \in {"header", "body"} /\ inp # <<>> /\ inp' = Tail(inp)
      /\ UNCHANGED <<op, pc, todo, send_buffer, send_idx, record, result, outcome, serviceVars>>
  BY DEF ReadMore
<1>2. /\ Head(inp) \in InPacket /\ Head(inp).cmd \in {"OKAY", "WRTE"}
      /\ Head(inp).words \in Seq(Word)
      /\ Len(inp') <= 1 /\ Incoming(Head(inp).cmd)
      /\ \A c : Incoming(c)' <=> Incoming(c) /\ c # Head(inp).cmd
      /\ InWords' \in Seq(Word) /\ InWords = Head(inp).words \o InWords'
  BY <1>0, <1>1, TailInp
<1>3. Head(inp).cmd = "WRTE" /\ ~Incoming("OKAY") /\ ~acked /\ ~OnWay("OKAY") /\ ~OnWay("WRTE")
  BY <1>0, <1>1, <1>2 DEF FlowControl, OneOut
<1>4. out = <<>>
  BY <1>0, <1>3, OutNow DEF OnWay
<1>5. recv_buffer' = recv_buffer \o Head(inp).words
      /\ out' = Append(out, [cmd |-> "OKAY", recs |-> <<>>, len |-> 0])
  BY <1>3 DEF ReadMore, Okay
<1>6. /\ out' # <<>> /\ Len(out') = 1 /\ Head(out').recs = <<>> /\ Head(out').len = 0
      /\ Packed' = <<>> /\ \A c : OnWay(c)' <=> c = "OKAY"
  <2> DEFINE p == [cmd |-> "OKAY", recs |-> <<>>, len |-> 0]
  <2>1. p \in OutPacket
    <3>1. <<>> \in Seq(Record)
      OBVIOUS
    <3> QED BY <3>1 DEF OutPacket
  <2>2. p.cmd = "OKAY" /\ p.recs = <<>> /\ p.len = 0 /\ out' = Append(out, p)
    BY <1>5
  <2> HIDE DEF p
  <2> QED BY <1>0, <1>4, <2>1, <2>2, AppendOut
<1>7. OneOut'
  BY <1>1, <1>6 DEF OneOut
<1>8. FlowControl'
  <2>1. Len(inp') <= 2 /\ Len(inp') # 2
    <3>1. Len(inp') \in Nat
      BY <1>0 DEF SessionType
    <3>2. \A n \in Nat : n <= 1 => n <= 2 /\ n # 2
      OBVIOUS
    <3> QED BY <1>2, <3>1, <3>2
  <2>2. \A c : ~Incoming(c)' \/ c \notin {"OKAY", "WRTE"}
    BY <1>2, <1>3
  <2>3. \A i \in 1..Len(inp') : inp'[i].cmd # "OKAY"
    BY <2>2 DEF Incoming
  <2>4. acked' = acked /\ pc' \notin {"flushed"}
    BY <1>1 DEF serviceVars
  <2> QED BY <1>3, <2>1, <2>2, <2>3, <2>4 DEF FlowControl
<1>9. Buffered' /\ RecordsInOrder'
  <2>1. Packed = <<>> /\ Script(op)' = Script(op) /\ received' = received
    BY <1>1, <1>4 DEF Packed, Script, Chunks, serviceVars
  <2> QED BY <1>0, <1>1, <1>6, <2>1 DEF Buffered, SyncInv, RecordsInOrder
<1>10. UNCHANGED <<op, answer, result, outcome>> /\ (Complete => Complete')
  BY <1>1 DEF Complete, serviceVars
<1>11. AnswerSoFar' /\ Ended' /\ ResultIsAnswer'
  BY <1>10, AnswerKept, CallerKept
<1>12. Ahead' = Ahead
  <2>1. recv_buffer \in Seq(Word) /\ unsent' = unsent
    BY <1>0, <1>1 DEF SessionType, TypeOK, serviceVars
  <2>2. (recv_buffer \o Head(inp).words) \o InWords' = recv_buffer \o (Head(inp).words \o InWords')
    <3>1. recv_buffer \in Seq(Word) /\ Head(inp).words \in Seq(Word) /\ InWords' \in Seq(Word)
      BY <1>2, <2>1
    <3> QED BY <3>1, WordsAssociate
  <2> QED BY <1>2, <1>5, <2>1, <2>2 DEF Ahead
<1>13. Reading'
  <2>1. Incoming("WRTE")' => answer # <<>>
    BY <1>0, <1>1, <1>2 DEF Reading
  <2> QED BY <1>1, <1>10, <1>12, <2>1, ReadingKept
<1> QED BY <1>0, <1>7, <1>8, <1>9, <1>11, <1>13 DEF SyncInv

-----------------------------------------------------------------------------
(* The steps of the service.                                               *)
LEMMA ServiceReadsKeeps ==
  ASSUME SyncInv, ServiceReads
  PROVE  SyncInv'
<1>0. SessionType /\ OneOut /\ Buffered /\ FlowControl /\ SessionType'
  BY ServiceType DEF SyncInv, Service
<1>1. out # <<>> /\ out' = Tail(out) /\ UNCHANGED <<hostVars, answer, unsent>>
  BY DEF ServiceReads
<1>2. UNCHANGED <<op, pc, todo, send_buffer, send_idx, recv_buffer, record, result, outcome>>
  BY <1>1 DEF hostVars
<1>3. /\ Head(out).cmd \in {"OKAY", "WRTE"} /\ Head(out).recs \in Seq(Record)
      /\ out' = <<>> /\ Packed = Head(out).recs /\ Packed' = <<>>
  BY <1>0, <1>1, OutNow DEF Packed
<1>4. \A c : (OnWay(c) <=> Head(out).cmd = c) /\ ~OnWay(c)'
  BY <1>1, <1>3 DEF OnWay
<1>5. OneOut' /\ Buffered'
  <2>1. Len(<<>>) <= 1
    OBVIOUS
  <2>2. OneOut'
    BY <1>3, <1>4, <2>1 DEF OneOut
  <2> QED BY <1>0, <1>2, <2>2 DEF Buffered
<1>6. Script(op)' = Script(op)
  BY <1>2 DEF Script, Chunks
<1>7. /\ received \in Seq(Record) /\ received \o Packed \in Seq(Record)
      /\ (received \o Packed) \o <<>> = received \o Packed
  BY <1>0, OutNow, ConcatProperties, ConcatEmptySeq DEF SessionType, TypeOK
<1>8. CASE Head(out).cmd = "OKAY"
  <2>1. acked' = TRUE /\ received' = received /\ inp' = inp
    BY <1>8 DEF ServiceReads
  <2>2. \A c : Incoming(c)' <=> Incoming(c)
    BY <2>1 DEF Incoming
  <2>3. OnWay("OKAY") /\ ~OnWay("WRTE") /\ ~Incoming("WRTE") /\ pc # "flushed"
    BY <1>0, <1>4, <1>8 DEF FlowControl, OneOut
  <2>4. FlowControl'
    BY <1>0, <1>2, <1>4, <2>1, <2>2, <2>3 DEF FlowControl
  <2>5. RecordsInOrder'
    <3>1. Packed = <<>>
      BY <1>0, <2>3, OutNow
    <3> QED BY <1>2, <1>3, <1>6, <2>1, <3>1 DEF SyncInv, RecordsInOrder
  <2>6. UNCHANGED <<op, answer, result, outcome>> /\ (Complete => Complete')
    BY <1>1, <1>2, <2>1 DEF Complete
  <2>7. AnswerSoFar' /\ Ended' /\ ResultIsAnswer'
    BY <2>6, AnswerKept, CallerKept
  <2>8. Reading'
    <3>1. CASE pc = "ended"
      BY <1>2, <3>1 DEF Reading
    <3>2. CASE pc # "ended"
      <4>1. Ahead' = Ahead
        BY <1>1, <1>2, <2>1 DEF Ahead, InWords
      <4> QED BY <1>2, <2>2, <2>3, <2>6, <3>2, <4>1, ReadingKept
    <3> QED BY <3>1, <3>2
  <2> QED BY <1>0, <1>5, <2>4, <2>5, <2>7, <2>8 DEF SyncInv
<1>9. CASE Head(out).cmd = "WRTE"
  <2> DEFINE p == [cmd |-> "OKAY", words |-> <<>>]
  <2>1. acked' = acked /\ received' = received \o Head(out).recs /\ inp' = Append(inp, p)
    BY <1>9 DEF ServiceReads
  <2>2. OnWay("WRTE") /\ ~OnWay("OKAY") /\ ~Incoming("OKAY") /\ pc \in {"flushed", "ended"}
    BY <1>0, <1>4, <1>9 DEF FlowControl, OneOut
  <2>3. p \in InPacket /\ p.cmd = "OKAY" /\ p.words = <<>>
    <3>1. <<>> \in Seq(Word)
      OBVIOUS
    <3> QED BY <3>1 DEF InPacket
  <2> HIDE DEF p
  <2>4. /\ Len(inp') <= 2 /\ inp' # <<>>
        /\ Len(inp') = 2 => inp'[1].cmd # inp'[2].cmd
        /\ Head(inp').cmd = IF inp = <<>> THEN "OKAY" ELSE Head(inp).cmd
        /\ \A c : Incoming(c)' <=> Incoming(c) \/ c = "OKAY"
        /\ \A i \in 1..Len(inp') : inp'[i].cmd = "OKAY" => inp'[i].words = <<>>
        /\ InWords' = InWords \o <<>>
    BY <1>0, <2>1, <2>2, <2>3, AppendInp
  <2>5. FlowControl'
    BY <1>0, <1>2, <1>4, <2>1, <2>2, <2>4 DEF FlowControl
  <2>6. RecordsInOrder'
    BY <1>2, <1>3, <1>6, <1>7, <2>1 DEF SyncInv, RecordsInOrder
  <2>7. UNCHANGED <<op, answer, result, outcome>> /\ (Complete => Complete')
    BY <1>1, <1>2, <2>2, NotComplete
  <2>8. AnswerSoFar' /\ Ended' /\ ResultIsAnswer'
    BY <2>7, AnswerKept, CallerKept
  <2>9. Reading'
    <3>1. CASE pc = "ended"
      BY <1>2, <3>1 DEF Reading
    <3>2. CASE pc # "ended"
      <4>1. InWords \in Seq(Word)
        BY <1>0, AheadType DEF FlowControl
      <4>2. InWords' = InWords
        BY <2>4, <4>1, ConcatEmptySeq
      <4>3. Ahead' = Ahead
        BY <1>1, <1>2, <4>2 DEF Ahead
      <4>4. Incoming("WRTE")' => answer # <<>>
        BY <2>4, <3>2 DEF SyncInv, Reading
      <4>5. pc' = "flushed" /\ inp' # <<>> /\ Head(inp').cmd = "WRTE" => Failed
        BY <1>2, <2>4, <3>2 DEF SyncInv, Reading
      <4> QED BY <1>2, <2>7, <3>2, <4>3, <4>4, <4>5, ReadingKept
    <3> QED BY <3>1, <3>2
  <2> QED BY <1>0, <1>5, <2>5, <2>6, <2>8, <2>9 DEF SyncInv
<1> QED BY <1>3, <1>8, <1>9

LEMMA ServiceWritesKeeps ==
  ASSUME SyncInv, ServiceWrites
  PROVE  SyncInv'
<1>0. SessionType /\ OneOut /\ Buffered /\ FlowControl /\ SessionType'
  BY ServiceType DEF SyncInv, Service
<1>1. acked /\ acked' = FALSE /\ UNCHANGED <<hostVars, out, received, answer>>
  BY DEF ServiceWrites
<1>2. UNCHANGED <<op, pc, todo, send_buffer, send_idx, recv_buffer, record, result, outcome>>
  BY <1>1 DEF hostVars
<1>3. PICK n \in 1..Len(unsent) :
        /\ inp' = Append(inp, [cmd |-> "WRTE", words |-> SubSeq(unsent, 1, n)])
        /\ unsent' = SubSeq(unsent, n + 1, Len(unsent))
  BY DEF ServiceWrites
<1> DEFINE a == SubSeq(unsent, 1, n)
           p == [cmd |-> "WRTE", words |-> a]
<1>4. /\ unsent \in Seq(Word) /\ Len(unsent) \in Nat /\ unsent # <<>>
      /\ a \in Seq(Word) /\ unsent' \in Seq(Word) /\ a \o unsent' = unsent
  <2>1. unsent \in Seq(Word) /\ Len(unsent) \in Nat /\ unsent # <<>>
    <3>1. unsent \in Seq(Word)
      BY <1>0 DEF SessionType, TypeOK
    <3>2. Len(unsent) # 0
      OBVIOUS
    <3> QED BY <3>1, <3>2
  <2>2. a \in Seq(Word) /\ unsent' \in Seq(Word)
    BY <1>3, <2>1, Cut
  <2>3. 1 \in 1..Len(unsent) + 1 /\ n \in 1 - 1..Len(unsent) /\ Len(unsent) \in n..Len(unsent)
    BY <2>1
  <2>4. a \o unsent' = SubSeq(unsent, 1, Len(unsent))
    BY <1>3, <2>1, <2>3, ConcatAdjacentSubSeq
  <2> QED BY <2>1, <2>2, <2>4, SubSeqFull
<1>5. p \in InPacket /\ p.cmd = "WRTE" /\ p.words = a /\ inp' = Append(inp, p)
  BY <1>3, <1>4 DEF InPacket
<1> HIDE DEF a, p
<1>6. ~Incoming("WRTE") /\ ~OnWay("OKAY")
  BY <1>0, <1>1 DEF FlowControl
<1>7. /\ Len(inp') <= 2 /\ inp' # <<>>
      /\ Len(inp') = 2 => inp'[1].cmd # inp'[2].cmd
      /\ Head(inp').cmd = IF inp = <<>> THEN "WRTE" ELSE Head(inp).cmd
      /\ \A c : Incoming(c)' <=> Incoming(c) \/ c = "WRTE"
      /\ \A i \in 1..Len(inp') : inp'[i].cmd = "OKAY" => inp'[i].words = <<>>
      /\ InWords' = InWords \o a
  BY <1>0, <1>5, <1>6, AppendInp
<1>8. \A c : OnWay(c)' <=> OnWay(c)
  BY <1>1 DEF OnWay
<1>9. OneOut' /\ Buffered' /\ RecordsInOrder'
  BY <1>0, <1>1, <1>2, <1>8 DEF OneOut, Buffered, SyncInv, RecordsInOrder, Packed, Script, Chunks
<1>10. FlowControl'
  BY <1>0, <1>1, <1>2, <1>6, <1>7, <1>8 DEF FlowControl
<1>11. UNCHANGED <<op, answer, result, outcome>> /\ (Complete => Complete')
  BY <1>1, <1>2 DEF Complete
<1>12. AnswerSoFar' /\ Ended' /\ ResultIsAnswer'
  BY <1>11, AnswerKept, CallerKept
<1>13. Reading'
  <2>1. CASE pc = "ended"
    BY <1>2, <2>1 DEF Reading
  <2>2. CASE pc # "ended"
    <3>1. recv_buffer \in Seq(Word) /\ InWords \in Seq(Word)
      BY <1>0, AheadType DEF FlowControl, SessionType, TypeOK
    <3>2. recv_buffer \o (InWords \o a) = (recv_buffer \o InWords) \o a
      <4>1. recv_buffer \in Seq(Word) /\ InWords \in Seq(Word) /\ a \in Seq(Word)
        BY <1>4, <3>1
      <4> QED BY <4>1, WordsAssociate
    <3>3. recv_buffer \o InWords \in Seq(Word) /\ a \in Seq(Word) /\ unsent' \in Seq(Word)
      BY <1>4, <3>1, ConcatProperties
    <3>4. ((recv_buffer \o InWords) \o a) \o unsent' = (recv_buffer \o InWords) \o (a \o unsent')
      BY <3>3, WordsAssociate
    <3>5. Ahead' = Ahead
      BY <1>2, <1>4, <1>7, <3>2, <3>4 DEF Ahead
    <3>6. answer # <<>>
      BY <1>4, <2>2, UnreadAnswered
    <3>7. pc' = "flushed" /\ inp' # <<>> /\ Head(inp').cmd = "WRTE" => Failed
      <4>1. SUFFICES ASSUME pc = "flushed", Head(inp').cmd = "WRTE" PROVE Failed
        BY <1>2
      <4>2. CASE inp # <<>>
        BY <1>7, <4>1, <4>2 DEF SyncInv, Reading
      <4>3. CASE inp = <<>>
        <5>1. ~Incoming("OKAY")
          BY <4>3 DEF Incoming
        <5>2. OnWay("WRTE")
          BY <1>0, <4>1, <5>1 DEF FlowControl
        <5> QED BY <3>6, <5>2, NotComplete, OnlyFailure
      <4> QED BY <4>2, <4>3
    <3> QED BY <1>2, <1>11, <2>2, <3>5, <3>6, <3>7, ReadingKept
  <2> QED BY <2>1, <2>2
<1> QED BY <1>0, <1>9, <1>10, <1>12, <1>13 DEF SyncInv

(* A new record lies behind all words that are ahead.                      *)
LEMMA Extended ==
  ASSUME SyncInv, SessionType', NEW r \in Record, Answers(r), pc # "ended"
  PROVE  \E s \in [1..Len(answer') + 1 -> Int] : Layout(s)'
<1> DEFINE N == Len(answer) + 1
<1>1. /\ answer \in Seq(Record) /\ Len(answer) \in Nat /\ Len(inp) <= 2
      /\ Current \in 1..N /\ (pc = "body" => Current <= Len(answer))
      /\ unsent \in Seq(Word)
  <2>1. answer \in Seq(Record) /\ unsent \in Seq(Word)
    BY DEF SyncInv, SessionType, TypeOK
  <2>2. Len(inp) <= 2 /\ Current \in 1..N /\ (pc = "body" => Current <= Len(answer))
    BY DEF SyncInv, FlowControl, Reading
  <2> QED BY <2>1, <2>2
<1>2. /\ answer' = Append(answer, r) /\ unsent' = unsent \o Words(N, r)
      /\ UNCHANGED <<op, pc, recv_buffer, result, inp>>
  BY DEF Answers, hostVars
<1>3. /\ Len(answer') = N /\ answer'[N] = r
      /\ \A k \in 1..Len(answer) : answer'[k] = answer[k]
  BY <1>1, <1>2, AppendProperties
<1>4. PICK starts \in [1..N -> Int] : Layout(starts)
  BY DEF SyncInv, Reading
<1>5. /\ Words(N, r) \in Seq(Word) /\ Len(Words(N, r)) = Size(r)
      /\ \A j \in 1..Size(r) : Words(N, r)[j] = <<N, j>>
      /\ Size(r) \in Nat
  BY <1>1, WordsType
<1>6. Ahead \in Seq(Word) /\ InWords \in Seq(Word) /\ recv_buffer \in Seq(Word)
  BY <1>1, AheadType DEF SyncInv, SessionType, TypeOK
<1>7. Ahead' = Ahead \o Words(N, r)
  <2>1. recv_buffer \o InWords \in Seq(Word)
    BY <1>6, ConcatProperties
  <2>2. unsent \in Seq(Word) /\ Words(N, r) \in Seq(Word)
    BY <1>1, <1>5
  <2>3. ((recv_buffer \o InWords) \o unsent) \o Words(N, r) = (recv_buffer \o InWords) \o (unsent \o Words(N, r))
    BY <2>1, <2>2, WordsAssociate
  <2>4. InWords' = InWords
    BY <1>2 DEF InWords
  <2> QED BY <1>2, <2>3, <2>4 DEF Ahead
<1>8. /\ Len(Ahead) \in Nat /\ Len(Ahead') = Len(Ahead) + Size(r)
      /\ \A i \in 1..Len(Ahead) + Size(r) :
           Ahead'[i] = IF i <= Len(Ahead) THEN Ahead[i] ELSE Words(N, r)[i - Len(Ahead)]
  <2>1. Ahead \in Seq(Word) /\ Words(N, r) \in Seq(Word) /\ Len(Ahead) \in Nat
    BY <1>5, <1>6
  <2>2. /\ Len(Ahead \o Words(N, r)) = Len(Ahead) + Len(Words(N, r))
        /\ \A i \in 1..Len(Ahead) + Len(Words(N, r)) : (Ahead \o Words(N, r))[i] =
             IF i <= Len(Ahead) THEN Ahead[i] ELSE Words(N, r)[i - Len(Ahead)]
    BY <2>1, ConcatProperties
  <2> QED BY <1>5, <1>7, <2>1, <2>2
<1>9. /\ Current' = Current /\ RecvHeaderLen' = RecvHeaderLen /\ \A q : Size(q)' = Size(q)
  BY <1>2 DEF Current, RecvHeaderLen, Size, HeaderLen
<1>10. PICK s \in [1..N + 1 -> Int] :
         \A k \in 1..N + 1 : s[k] = IF k <= N THEN starts[k] ELSE Len(Ahead) + Size(r)
  <2>1. \A k \in 1..N + 1 : (IF k <= N THEN starts[k] ELSE Len(Ahead) + Size(r)) \in Int
    <3>1. \A k \in 1..N : starts[k] \in Int
      BY <1>4
    <3>2. \A k \in 1..N + 1 : k <= N => k \in 1..N
      BY <1>1
    <3> QED BY <1>5, <1>8, <3>1, <3>2
  <2>2. [k \in 1..N + 1 |-> IF k <= N THEN starts[k] ELSE Len(Ahead) + Size(r)] \in [1..N + 1 -> Int]
    BY <2>1
  <2> QED BY <2>2
<1>11. /\ \A k, l \in 1..N : k <= l => starts[k] <= starts[l]
       /\ \A k \in 1..Len(answer) : starts[k + 1] = starts[k] + Size(answer[k])
       /\ \A k \in Current..Len(answer) : \A j \in 1..Size(answer[k]) :
            starts[k] + j >= 1 => Ahead[starts[k] + j] = <<k, j>>
       /\ starts[N] = Len(Ahead)
       /\ starts[Current] = IF pc = "body" THEN 0 - RecvHeaderLen ELSE 0
       /\ \A k \in 1..N : starts[k] \in Int
  BY <1>4 DEF Layout
<1>12. s[N] = Len(Ahead) /\ s[N + 1] = Len(Ahead) + Size(r) /\ \A k \in 1..N : s[k] = starts[k]
  <2>1. N \in 1..N /\ N \in 1..N + 1 /\ N + 1 \in 1..N + 1 /\ ~(N + 1 <= N) /\ N <= N
    BY <1>1
  <2>2. \A k \in 1..N : k \in 1..N + 1 /\ k <= N
    BY <1>1
  <2> QED BY <1>10, <1>11, <2>1, <2>2
<1>13. \A k, l \in 1..N + 1 : k <= l => s[k] <= s[l]
  <2>1. TAKE k, l \in 1..N + 1
  <2>2. HAVE k <= l
  <2>3. CASE l <= N
    BY <1>11, <1>12, <2>2, <2>3
  <2>4. CASE l = N + 1 /\ k <= N
    <3>1. k \in 1..N /\ N \in 1..N
      BY <1>1, <2>4
    <3>2. starts[k] <= Len(Ahead)
      BY <1>11, <3>1
    <3> QED BY <1>5, <1>8, <1>11, <1>12, <2>4, <3>1, <3>2
  <2>5. CASE l = N + 1 /\ k = N + 1
    BY <1>5, <1>8, <1>12, <2>5
  <2> QED BY <1>1, <2>2, <2>3, <2>4, <2>5
<1>14. \A k \in 1..N : s[k + 1] = s[k] + Size(answer'[k])
  <2>1. TAKE k \in 1..N
  <2>2. CASE k = N
    BY <1>3, <1>12, <2>2
  <2>3. CASE k # N
    <3>1. k \in 1..Len(answer) /\ k + 1 \in 1..N
      BY <1>1, <2>3
    <3> QED BY <1>3, <1>11, <1>12, <3>1
  <2> QED BY <2>2, <2>3
<1>15. \A k \in Current..N : \A j \in 1..Size(answer'[k]) :
         s[k] + j >= 1 => Ahead'[s[k] + j] = <<k, j>>
  <2>1. TAKE k \in Current..N
  <2>2. TAKE j \in 1..Size(answer'[k])
  <2>3. HAVE s[k] + j >= 1
  <2>4. CASE k = N
    <3>1. j \in 1..Size(r) /\ s[k] = Len(Ahead)
      BY <1>3, <1>12, <2>4
    <3>2. /\ s[k] + j \in 1..Len(Ahead) + Size(r) /\ ~(s[k] + j <= Len(Ahead))
          /\ s[k] + j - Len(Ahead) = j
      BY <1>5, <1>8, <3>1
    <3> QED BY <1>5, <1>8, <2>4, <3>1, <3>2
  <2>5. CASE k # N
    <3>1. k \in 1..Len(answer) /\ k \in Current..Len(answer) /\ k \in 1..N
          /\ k + 1 \in 1..N /\ N \in 1..N /\ k + 1 <= N
      BY <1>1, <2>5
    <3>2. j \in 1..Size(answer[k]) /\ answer[k] \in Record /\ s[k] = starts[k]
      BY <1>1, <1>3, <1>12, <3>1, ElementOfSeq
    <3>3. Size(answer[k]) \in Nat /\ starts[k] \in Int
      BY <1>11, <3>1, <3>2, SizeType
    <3>4. Ahead[starts[k] + j] = <<k, j>>
      BY <1>11, <2>3, <3>1, <3>2
    <3>5. starts[k + 1] = starts[k] + Size(answer[k]) /\ starts[k + 1] <= Len(Ahead)
      BY <1>11, <3>1
    <3>6. starts[k] + j <= Len(Ahead)
      <4>1. \A x, y, z, m \in Int : y = x + m /\ j <= m /\ y <= z => x + j <= z
        BY <3>2, <3>3
      <4> QED BY <1>8, <3>2, <3>3, <3>5, <4>1
    <3>7. s[k] + j \in 1..Len(Ahead) + Size(r)
      BY <1>5, <1>8, <2>3, <3>2, <3>3, <3>6
    <3> QED BY <1>8, <3>2, <3>4, <3>6, <3>7
  <2> QED BY <2>4, <2>5
<1>16. s[Current] = IF pc' = "body" THEN 0 - RecvHeaderLen ELSE 0
  BY <1>1, <1>2, <1>11, <1>12
<1>17. Layout(s)'
  BY <1>3, <1>8, <1>9, <1>10, <1>12, <1>13, <1>14, <1>15, <1>16 DEF Layout
<1> QED BY <1>3, <1>17

LEMMA AnswersKeep ==
  ASSUME SyncInv, Service, NEW r \in Record, Answers(r), ~Failed, Len(answer) < Len(Replies),
         \/ r = Replies[Len(answer) + 1] /\ Complete
         \/ r = Failure /\ op \in {"push", "pull"}
  PROVE  SyncInv'
<1>0. SessionType /\ OneOut /\ Buffered /\ FlowControl /\ SessionType'
      /\ answer \in Seq(Record) /\ Len(answer) \in Nat /\ op \in Ops
  <2>1. SessionType /\ OneOut /\ Buffered /\ FlowControl /\ SessionType'
    BY ServiceType DEF SyncInv
  <2> QED BY <2>1 DEF SessionType, TypeOK
<1>1. /\ answer' = Append(answer, r)
      /\ UNCHANGED <<op, pc, todo, send_buffer, send_idx, recv_buffer, record, result, outcome,
                     out, inp, received, acked>>
  BY DEF Answers, hostVars
<1>2. /\ Len(answer') = Len(answer) + 1 /\ answer'[Len(answer) + 1] = r /\ answer' # <<>>
      /\ \A k \in 1..Len(answer) : answer'[k] = answer[k]
  BY <1>0, <1>1, AppendProperties
<1>3. \A c : (OnWay(c)' <=> OnWay(c)) /\ (Incoming(c)' <=> Incoming(c))
  BY <1>1 DEF OnWay, Incoming
<1>4. OneOut' /\ Buffered' /\ FlowControl' /\ RecordsInOrder'
  BY <1>0, <1>1, <1>3
     DEF OneOut, Buffered, FlowControl, SyncInv, RecordsInOrder, Packed, Script, Chunks
<1>5. Replies' = Replies /\ Complete' = Complete
  BY <1>1 DEF Replies, Complete, Script, Chunks
<1>6. AnswerSoFar'
  <2>1. \A k \in 1..Len(answer) : answer'[k] = Replies[k] /\ Complete
    BY <1>2, AnswerIs
  <2>2. Len(Replies) \in Nat
    BY <1>0, RepliesType
  <2>3. Len(answer') <= Len(Replies')
    BY <1>0, <1>2, <1>5, <2>2
  <2>4. ASSUME NEW k \in 1..Len(answer')
        PROVE  \/ answer'[k] = Replies[k] /\ Complete
               \/ k = Len(answer') /\ answer'[k] = Failure /\ op \in {"push", "pull"}
    <3>1. k \in 1..Len(answer) \/ k = Len(answer) + 1
      BY <1>0, <1>2
    <3> QED BY <1>2, <2>1, <3>1
  <2>5. Failure' = Failure /\ op' = op
    BY <1>1 DEF Failure
  <2> QED BY <1>5, <2>3, <2>4, <2>5 DEF AnswerSoFar
<1>7. Ended' /\ ResultIsAnswer'
  <2>1. outcome # "done"
    BY <1>0 DEF SyncInv, Ended
  <2> QED BY <1>1, <1>5, <2>1, CallerKept
<1>8. Reading'
  <2>1. CASE pc = "ended"
    BY <1>1, <2>1 DEF Reading
  <2>2. CASE pc # "ended"
    <3>1. \E s \in [1..Len(answer') + 1 -> Int] : Layout(s)'
      BY <1>0, <2>2, Extended
    <3>2. Current' = Current /\ ExpectedIds' = ExpectedIds
      BY <1>1 DEF Current, ExpectedIds
    <3>3. /\ outcome = "none" /\ Current \in 1..Len(answer) + 1
          /\ pc = "body" => /\ Current <= Len(answer) /\ record = answer[Current]
                            /\ record.id \in ExpectedIds \ {"STAT"}
          /\ pc = "flushed" /\ inp # <<>> => Head(inp).cmd # "WRTE"
      BY <2>2 DEF SyncInv, Reading
    <3>4. Current \in 1..Len(answer') + 1
      BY <1>0, <1>2, <3>3
    <3>5. pc = "body" => /\ Current <= Len(answer') /\ record = answer'[Current]
      <4>1. SUFFICES ASSUME pc = "body" PROVE Current <= Len(answer') /\ record = answer'[Current]
        OBVIOUS
      <4>2. Current \in 1..Len(answer)
        BY <1>0, <3>3, <4>1
      <4> QED BY <1>0, <1>2, <3>3, <4>1, <4>2
    <3> QED BY <1>1, <1>2, <3>1, <3>2, <3>3, <3>4, <3>5 DEF Reading
  <2> QED BY <2>1, <2>2
<1> QED BY <1>0, <1>4, <1>6, <1>7, <1>8 DEF SyncInv

LEMMA ServiceAnswersKeeps ==
  ASSUME SyncInv, ServiceAnswers
  PROVE  SyncInv'
<1>1. answer \in Seq(Record) /\ op \in Ops
  BY DEF SyncInv, SessionType, TypeOK
<1>2. Len(answer) + 1 \in 1..Len(Replies) /\ Replies \in Seq(Record)
  BY <1>1, RepliesType DEF ServiceAnswers
<1>3. Replies[Len(answer) + 1] \in Record
  BY <1>2, ElementOfSeq
<1>4. Complete /\ ~Failed /\ Len(answer) < Len(Replies) /\ Answers(Replies[Len(answer) + 1])
  BY DEF ServiceAnswers
<1> QED BY <1>3, <1>4, AnswersKeep DEF Service

LEMMA ServiceFailureKeeps ==
  ASSUME SyncInv, ServiceFailure
  PROVE  SyncInv'
<1>1. Failure \in Record
  BY RecType, FileSyncAssumption DEF Failure
<1>2. /\ op \in {"push", "pull"} /\ ~Failed /\ Len(answer) < Len(Replies) /\ Answers(Failure)
  BY DEF ServiceFailure, Failure
<1> QED BY <1>1, <1>2, AnswersKeep DEF Service

-----------------------------------------------------------------------------
(* The first state, and all steps.                                         *)
LEMMA InitSync ==
  ASSUME Init
  PROVE  SyncInv
<1> USE DEF Init
<1>a. /\ Len(<<>>) = 0
      /\ <<>> \in Seq(Record) /\ <<>> \in Seq(Word) /\ <<>> \in Seq(InPacket) /\ <<>> \in Seq(OutPacket)
  OBVIOUS
<1>b. /\ Script(op) \in Seq(Record)
      /\ \A i \in 1..Len(Script(op)) : Script(op)[i].len + SendHeaderLen < MaxData
  BY ScriptType
<1>1. SessionType
  BY <1>a, <1>b, NoRecordType, FileSyncAssumption DEF SessionType, TypeOK
<1>2. OneOut /\ Buffered
  BY <1>a, <1>b, FileSyncAssumption DEF OneOut, OnWay, Buffered
<1>3. \A c : ~Incoming(c) /\ ~OnWay(c)
  BY <1>a DEF Incoming, OnWay
<1>4. FlowControl
  BY <1>a, <1>3 DEF FlowControl
<1>5. AnswerSoFar
  <2>1. Len(Replies) \in Nat
    BY RepliesType
  <2> QED BY <1>a, <2>1 DEF AnswerSoFar
<1>6. Reading
  <2>1. Current = 1 /\ Len(answer) + 1 = 1
    BY <1>a DEF Current
  <2>2. Len(Ahead) = 0
    BY <1>a, ConcatEmptySeq DEF Ahead, InWords
  <2>3. PICK s \in [1..1 -> Int] : s[1] = 0
    <3>1. [k \in 1..1 |-> 0] \in [1..1 -> Int] /\ [k \in 1..1 |-> 0][1] = 0
      OBVIOUS
    <3> QED BY <3>1
  <2>4. Layout(s)
    BY <1>a, <2>1, <2>2, <2>3 DEF Layout
  <2> QED BY <1>3, <2>1, <2>3, <2>4 DEF Reading
<1>7. RecordsInOrder
  BY <1>b, ConcatEmptySeq DEF RecordsInOrder, Packed
<1>8. Ended /\ ResultIsAnswer
  <2>1. Len(Kept) \in Nat /\ SubSeq(Kept, 1, 0) = <<>>
    BY RepliesType, SubSeqEmpty
  <2> QED BY <1>a, <2>1 DEF Ended, ResultIsAnswer
<1> QED BY <1>1, <1>2, <1>4, <1>5, <1>6, <1>7, <1>8 DEF SyncInv

LEMMA StutterSync ==
  ASSUME SyncInv, UNCHANGED vars
  PROVE  SyncInv'
<1>1. UNCHANGED <<op, pc, todo, send_buffer, send_idx, recv_buffer, record, result, outcome,
                  out, inp, received, answer, unsent, acked>>
  BY DEF vars, hostVars, serviceVars
<1>2. \A c : (OnWay(c)' <=> OnWay(c)) /\ (Incoming(c)' <=> Incoming(c))
  BY <1>1 DEF OnWay, Incoming
<1>3. SessionType' /\ OneOut' /\ Buffered' /\ FlowControl' /\ RecordsInOrder'
  BY <1>1, <1>2, ZenonT(30) DEF SyncInv, SessionType, TypeOK, OneOut, Buffered, FlowControl, RecordsInOrder,
                    Packed, Script, Chunks
<1>4. UNCHANGED <<op, answer, result, outcome>> /\ (Complete => Complete')
  BY <1>1 DEF Complete
<1>5. AnswerSoFar' /\ Ended' /\ ResultIsAnswer'
  BY <1>4, AnswerKept, CallerKept
<1>6. Reading'
  <2>1. CASE pc = "ended"
    BY <1>1, <2>1 DEF Reading
  <2>2. CASE pc # "ended"
    <3>1. Ahead' = Ahead
      BY <1>1 DEF Ahead, InWords
    <3>2. Incoming("WRTE") => answer # <<>>
      BY <2>2 DEF SyncInv, Reading
    <3>3. pc = "flushed" /\ inp # <<>> /\ Head(inp).cmd = "WRTE" => Failed
      BY <2>2 DEF SyncInv, Reading
    <3> QED BY <1>1, <1>2, <2>2, <3>1, <3>2, <3>3, ReadingKept
  <2> QED BY <2>1, <2>2
<1> QED BY <1>3, <1>5, <1>6 DEF SyncInv

LEMMA NextSync ==
  ASSUME SyncInv, [Next]_vars
  PROVE  SyncInv'
<1>1. CASE SendRecord
  BY <1>1, SendRecordKeeps
<1>2. CASE StartRead
  BY <1>2, StartReadKeeps
<1>3. CASE WriteAnswer
  BY <1>3, WriteAnswerKeeps
<1>4. CASE ReadMore
  BY <1>4, ReadMoreKeeps
<1>5. CASE ReadHeader
  BY <1>5, ReadHeaderKeeps
<1>6. CASE ReadBody
  BY <1>6, ReadBodyKeeps
<1>7. CASE ServiceReads
  BY <1>7, ServiceReadsKeeps
<1>8. CASE ServiceAnswers
  BY <1>8, ServiceAnswersKeeps
<1>9. CASE ServiceFailure
  BY <1>9, ServiceFailureKeeps
<1>10. CASE ServiceWrites
  BY <1>10, ServiceWritesKeeps
<1>11. CASE UNCHANGED vars
  BY <1>11, StutterSync
<1> QED BY <1>1, <1>2, <1>3, <1>4, <1>5, <1>6, <1>7, <1>8, <1>9, <1>10, <1>11
        DEF Next, Host, Service

(* The strengthening is inductive: packets under way, words ahead and the  *)
(* answer of the service fit together in every state of a session.         *)
THEOREM SyncInvariant == Spec => []SyncInv
<1>1. Init => SyncInv
  BY InitSync
<1>2. SyncInv /\ [Next]_vars => SyncInv'
  BY NextSync
<1> QED BY <1>1, <1>2, PTL DEF Spec

(* Type correctness of a session of filesync_protocol.py.                  *)
THEOREM SyncTypeCorrect == Spec => []TypeOK
<1>1. SyncInv => TypeOK
  BY DEF SyncInv, SessionType
<1> QED BY <1>1, SyncInvariant, PTL

(* The service receives the records in the order of the calls of Send,     *)
(* each once, whatever their lengths and however they are packed.          *)
THEOREM RecordsAlwaysInOrder == Spec => []RecordsInOrder
<1>1. SyncInv => RecordsInOrder
  BY DEF SyncInv
<1> QED BY <1>1, SyncInvariant, PTL

(* The records the caller is given are those the service has sent, all of  *)
(* them when the call succeeds, wherever the packets are cut; a call that  *)
(* raises does so because the service has failed.                          *)
THEOREM ResultAlwaysAnswer == Spec => []ResultIsAnswer
<1>1. SyncInv => ResultIsAnswer
  BY DEF SyncInv
<1> QED BY <1>1, SyncInvariant, PTL

(* No packet is longer than adbd accepts: the buffer is flushed before a   *)
(* record that does not fit (_CanAddToSendBuffer).                         *)
THEOREM PacketsAlwaysFit == Spec => []PacketsFit
<1>1. Init => PacketsFit
  BY DEF Init, PacketsFit
<1>2. SyncInv /\ PacketsFit /\ [Next]_vars => PacketsFit'
  <2> SUFFICES ASSUME SyncInv, PacketsFit, [Next]_vars PROVE PacketsFit'
    OBVIOUS
  <2>0. /\ out \in Seq(OutPacket) /\ send_idx <= MaxData /\ 0 <= MaxData
        /\ send_buffer \in Seq(Record) /\ send_idx \in Nat
    BY FileSyncAssumption DEF SyncInv, SessionType, TypeOK, Buffered
  <2>1. ASSUME NEW p \in OutPacket, p.len <= MaxData, out' = Append(out, p)
        PROVE  PacketsFit'
    <3>1. /\ Len(out') = Len(out) + 1 /\ out'[Len(out) + 1] = p /\ Len(out) \in Nat
          /\ \A i \in 1..Len(out) : out'[i] = out[i]
      BY <2>0, <2>1, AppendProperties
    <3>2. \A i \in 1..Len(out') : i \in 1..Len(out) \/ i = Len(out) + 1
      BY <3>1
    <3> QED BY <2>1, <3>1, <3>2 DEF PacketsFit
  <2>2. ASSUME Flush("flushed") PROVE PacketsFit'
    <3> DEFINE p == [cmd |-> "WRTE", recs |-> send_buffer, len |-> send_idx]
    <3>1. p \in OutPacket /\ p.len <= MaxData /\ out' = Append(out, p)
      BY <2>0, <2>2 DEF OutPacket, Flush, Write
    <3> QED BY <2>1, <3>1
  <2>3. ASSUME Okay PROVE PacketsFit'
    <3> DEFINE p == [cmd |-> "OKAY", recs |-> <<>>, len |-> 0]
    <3>1. p \in OutPacket /\ p.len <= MaxData /\ out' = Append(out, p)
      <4>1. <<>> \in Seq(Record)
        OBVIOUS
      <4> QED BY <2>0, <2>3, <4>1 DEF OutPacket, Okay
    <3> QED BY <2>1, <3>1
  <2>4. CASE out' = out
    BY <2>4 DEF PacketsFit
  <2>5. CASE ServiceReads
    <3>1. /\ Len(out') = Len(out) - 1 /\ \A i \in 1..Len(out) - 1 : out'[i] = out[i + 1]
      BY <2>0, <2>5, FirstOf DEF ServiceReads
    <3>2. \A i \in 1..Len(out) - 1 : i + 1 \in 1..Len(out)
      BY <2>0
    <3> QED BY <3>1, <3>2 DEF PacketsFit
  <2>6. Flush("flushed") \/ Okay \/ out' = out \/ ServiceReads
    BY DEF Next, Host, Service, SendRecord, StartRead, WriteAnswer, ReadMore, ReadHeader, ReadBody,
           ServiceAnswers, ServiceFailure, ServiceWrites, Answers, vars
  <2> QED BY <2>2, <2>3, <2>4, <2>5, <2>6
<1> QED BY <1>1, <1>2, SyncInvariant, PTL DEF Spec
=============================================================================
