---------------------------- MODULE MyAdbProofs ----------------------------
(***************************************************************************)
(* Proofs about ADBDevice of myadb/device.py, for any number of calls in   *)
(* any order, pushes of any size, services that write any number of chunks *)
(* and fail or end early, and devices that close a stream twice.           *)
(***************************************************************************)
EXTENDS MyAdb, SequenceTheorems, TLAPS

-----------------------------------------------------------------------------
(* The calls made so far, and the stream of a call.                        *)
InOrder == Orderly(call)
CallFacts ==
  /\ \A c \in Calls : c > call => status[c] = "none" /\ data[c] = <<>>
  /\ pc \notin {"idle", "stranded"} =>
       call \in Calls /\ status[call] = "none" /\ kind[call] \in Kinds
  /\ pc = "answer" => data[call] = <<>>
  /\ local_id <= base_id /\ active.local <= base_id
FailedOpened == \A r \in failed : stream[r].st # "none"

(* A step of adbd in which no interactive shell ends.                      *)
Speaks ==
  \/ DevPacket /\ UNCHANGED failed
  \/ \E r \in RemoteIds :
       /\ IsOpen(r)
       /\ \/ (ServiceAnswer(r) \/ ServiceWrite(r) \/ ServiceEnd(r)) /\ UNCHANGED failed
          \/ ServiceFails(r) /\ failed' = failed \cup {r}

(* A stream that says nothing more: its service has ended, or is an        *)
(* interactive shell whose last packet is not acknowledged.                *)
IsActive(r) == \E n \in 1..call : kind[n] = "active" /\ stream[r].service = <<n, 0>>
Silent(r) ==
  /\ stream[r].st # "ready"
  /\ stream[r].st = "waitack" => IsActive(r) /\ stream[r].peer <= base_id
AllSilent == \A r \in RemoteIds : Silent(r)
OfCall(r) ==
  /\ r \in RemoteIds
  /\ stream[r].peer = local_id
  /\ stream[r].service = <<call, 0>>
  /\ \A q \in RemoteIds \ {r} : Silent(q)

-----------------------------------------------------------------------------
(* What a call may leave behind: acknowledgements and CLSE to streams that *)
(* have ended, and the CLSE of such a stream; the command of an active     *)
(* shell and the OKAY to it.  None has an id of n or more.                 *)
Ending(p, n) ==
  /\ p.arg0 < n
  /\ p.arg1 \in RemoteIds
  /\ \/ p.cmd \in {"OKAY", "CLSE"} /\ p.data = NoData /\ stream[p.arg1].st = "closed"
     \/ p.cmd = "WRTE"
Over(t, n) ==
  /\ t.kind = "header" /\ t.packet.cmd \in {"CLSE", "OKAY"} /\ t.packet.data = NoData
  /\ t.packet.arg1 < n
LeftOut(asked, n) == \A i \in 1..Len(asked) : Ending(asked[i], n)
LeftIn(said, n) == \A i \in 1..Len(said) : Over(said[i], n)

(* What the host and the stream r of its call say to each other.           *)
Yes(r) == Pkt("OKAY", r, local_id, NoData)
Chunk(r, k) == Pkt("WRTE", r, local_id, <<r, k>>)
Payload(p) == [kind |-> "payload", packet |-> p]
Goodbye(r) == Pkt("CLSE", r, local_id, NoData)
AckTo(r) == Pkt("OKAY", local_id, r, NoData)
CloseTo(r) == Pkt("CLSE", local_id, r, NoData)
WriteTo(r, n) == Pkt("WRTE", local_id, r, <<call, n>>)

(* What r has said and the host, which has taken n chunks, has not read.   *)
Unread(r, n) ==
  (IF stream[r].sent > n THEN Transfers(Chunk(r, n + 1)) ELSE <<>>)
  \o (IF stream[r].st = "closed" THEN <<Header(Goodbye(r))>> ELSE <<>>)

(* The host has taken n chunks and acknowledged them; the last of these    *)
(* may be on its way, or else r may have written the next.                 *)
Turn(r, n, ack) ==
  \/ /\ ack = <<AckTo(r)>>
     /\ stream[r].sent = n /\ stream[r].st \in {"waitack", "closed"}
  \/ /\ ack = <<>>
     /\ \/ stream[r].sent = n /\ stream[r].st \in {"ready", "closed"}
        \/ stream[r].sent = n + 1 /\ stream[r].st \in {"waitack", "closed"}
Talk(r, n, before, asked) ==
  /\ inp = before \o Unread(r, n)
  /\ \E ack \in {<<>>, <<AckTo(r)>>} : out = ack \o asked /\ Turn(r, n, ack)
(* The host has a chunk that it has not acknowledged.                      *)
Owes(r) ==
  /\ out = <<>> /\ inp = <<>>
  /\ stream[r].st = "waitack" /\ stream[r].sent = 1
Open(r) == stream[r].st # "closed"

-----------------------------------------------------------------------------
(* Where a call stands.                                                    *)
IdlePhase == AllSilent /\ LeftOut(out, base_id + 1) /\ LeftIn(inp, base_id + 1)

Asking ==
  /\ AllSilent
  /\ LeftIn(inp, local_id)
  /\ \E l \in Seq(Packet) :
       out = Append(l, Pkt("OPEN", local_id, 0, <<call, 0>>)) /\ LeftOut(l, local_id)
Refusing ==
  /\ AllSilent /\ out = <<>>
  /\ \E l \in Seq(Transfer) :
       inp = Append(l, Header(Pkt("CLSE", 0, local_id, NoData))) /\ LeftIn(l, local_id)
Began(r) ==
  /\ OfCall(r)
  /\ stream[r].got = <<>> /\ r \notin failed
  /\ kind[call] # "shell" => Open(r)
  /\ kind[call] \in {"query", "push"} => stream[r].sent = 0
Opened(r) ==
  /\ Began(r) /\ out = <<>>
  /\ \E l \in Seq(Transfer) : Talk(r, 0, Append(l, Header(Yes(r))), <<>>) /\ LeftIn(l, local_id)
AnswerPhase ==
  local_id = base_id /\ (Asking \/ Refusing \/ \E r \in RemoteIds : Opened(r))

ReadPhase(r) ==
  LET n == Len(data[call])
  IN  /\ kind[call] = "shell"
      /\ data[call] = [i \in 1..n |-> <<r, i>>]
      /\ Talk(r, n, <<>>, <<>>)

PromptPhase(r) ==
  /\ kind[call] = "active" /\ Began(r)
  /\ data[call] = <<>>
  /\ Talk(r, 0, <<>>, <<>>)

(* The thread of an active shell has its stream, and a command follows.    *)
FirstCommand(r) ==
  /\ kind[call] = "active" /\ Began(r)
  /\ data[call] = <<>>
  /\ Talk(r, 1, <<>>, <<>>)
(* The host has taken n chunks; an acknowledgement of the last of these    *)
(* may be behind the command, and the OKAY to that behind the next.        *)
Commanded(r, n) ==
  \/ Got(r) = 0 /\ Talk(r, n, <<>>, <<WriteTo(r, 1)>>)
  \/ /\ Got(r) = 0 /\ stream[r].sent = n /\ stream[r].st = "waitack"
     /\ out = <<WriteTo(r, 1), AckTo(r)>> /\ inp = <<>>
  \/ Got(r) = 1 /\ Talk(r, n, <<Header(Yes(r))>>, <<>>)
  \/ /\ Got(r) = 1 /\ stream[r].sent = n + 1 /\ stream[r].st = "waitack"
     /\ out = <<>> /\ inp = Transfers(Chunk(r, n + 1)) \o <<Header(Yes(r))>>
  \/ Got(r) = 1 /\ Talk(r, n, <<>>, <<>>)
FirstOutput(r) ==
  LET n == Len(data[call]) + 1
  IN  /\ kind[call] = "active" /\ Open(r)
      /\ data[call] = [i \in 1..n - 1 |-> <<r, i + 1>>]
      /\ \A i \in 2..n : <<r, i>> \notin Prompts
      /\ Commanded(r, n)
(* A further command: no stream will ever answer it but with OKAY.         *)
Repeating ==
  /\ AllSilent /\ remote_id \in RemoteIds
  /\ \A i \in 1..Len(out) :
       /\ out[i].cmd \in {"OKAY", "CLSE", "WRTE"} /\ out[i].arg1 \in RemoteIds
       /\ out[i].cmd = "OKAY" => stream[out[i].arg1].st = "closed"
  /\ \A i \in 1..Len(inp) :
       /\ inp[i].kind = "header" /\ inp[i].packet.cmd \in {"OKAY", "CLSE"}
       /\ inp[i].packet.data = NoData

QueryPhase(r) ==
  /\ kind[call] = "query"
  /\ \/ step = 0 /\ Got(r) = 0 /\ stream[r].sent = 0 /\ Open(r) /\ Talk(r, 0, <<>>, <<>>)
     \/ /\ step = 1 /\ Got(r) = 0 /\ stream[r].sent = 0 /\ Open(r)
        /\ Talk(r, 0, <<>>, <<WriteTo(r, 1)>>)
     \/ step = 1 /\ Got(r) = 1 /\ Open(r) /\ Talk(r, 0, <<Header(Yes(r))>>, <<>>)
     \/ step = 2 /\ Got(r) = 1 /\ Open(r) /\ Talk(r, 0, <<>>, <<>>)
     \/ step = 3 /\ Owes(r)
     \/ step = 4 /\ stream[r].sent = 1 /\ Open(r) /\ Talk(r, 1, <<>>, <<>>)
     \/ step = 5 /\ stream[r].sent = 1 /\ Open(r) /\ Talk(r, 1, <<>>, <<CloseTo(r)>>)
     \/ step = 5 /\ stream[r].sent = 1 /\ ~Open(r) /\ out = <<>> /\ Talk(r, 1, <<>>, <<>>)

(* Records of a push, of which the service has got some.                   *)
Sending(r) ==
  /\ r \notin failed /\ Open(r)
  /\ \/ /\ step = 2 * Got(r) /\ Got(r) < Records /\ stream[r].sent = 0
        /\ Talk(r, 0, <<>>, <<>>)
     \/ /\ step = 2 * Got(r) + 1 /\ Got(r) < Records /\ stream[r].sent = 0
        /\ Talk(r, 0, <<>>, <<WriteTo(r, step)>>)
     \/ /\ step + 1 = 2 * Got(r) /\ Got(r) \in 1..Records
        /\ stream[r].sent = 1 => Got(r) = Records
        /\ Talk(r, 0, <<Header(Yes(r))>>, <<>>)
Ended(r) ==
  /\ r \notin failed
  /\ \/ step = 2 * Records /\ Got(r) = Records /\ Open(r) /\ Talk(r, 0, <<>>, <<>>)
     \/ /\ data[call] = << <<r, 1>> >> /\ stream[r].sent = 1
        /\ \/ step = 2 * Records + 1 /\ Got(r) = Records /\ Owes(r)
           \/ step = 2 * Records + 2 /\ Got(r) = Records /\ Open(r) /\ Talk(r, 1, <<>>, <<>>)
           \/ /\ step = 2 * Records + 3 /\ Got(r) = Records /\ Open(r)
              /\ Talk(r, 1, <<>>, <<WriteTo(r, step)>>)
           \/ /\ step = 2 * Records + 3 /\ Got(r) = Records + 1 /\ out = <<>>
              /\ Talk(r, 1, <<>>, <<>>) \/ Talk(r, 1, <<Header(Yes(r))>>, <<>>)
           \/ /\ step = 2 * Records + 4 /\ Got(r) = Records + 1 /\ ~Open(r)
              /\ out = <<>> /\ inp = <<>>
(* The service has failed: its FAIL comes before an OKAY that is awaited.  *)
(* When it has been skipped, payload and all, the host sends every record, *)
(* and waits for an answer that has gone by.                               *)
Doomed(r) ==
  LET fail == <<Header(Chunk(r, 1)), Payload(Chunk(r, 1))>>
      yes == <<Header(Yes(r))>>
  IN  /\ stream[r].st = "waitack" /\ stream[r].sent = 1
      /\ \/ step + 1 = 2 * Got(r) /\ Got(r) < Records /\ out = <<>> /\ inp = yes \o fail
         \/ step = 2 * Got(r) /\ Got(r) < Records /\ out = <<>> /\ inp = fail
         \/ /\ step = 2 * Got(r) + 1 /\ Got(r) < Records /\ out = <<WriteTo(r, step)>>
            /\ inp = fail \/ inp = Tail(fail)
         \/ /\ step + 1 = 2 * Got(r) /\ Got(r) \in 1..Records /\ out = <<>>
            /\ inp = fail \o yes \/ inp = Tail(fail) \o yes
Starved(r) ==
  /\ stream[r].st = "waitack" /\ stream[r].sent = 1
  /\ \/ step = 2 * Got(r) /\ Got(r) <= Records /\ out = <<>> /\ inp = <<>>
     \/ /\ step = 2 * Got(r) + 1 /\ Got(r) < Records
        /\ out = <<WriteTo(r, step)>> /\ inp = <<>>
     \/ /\ step + 1 = 2 * Got(r) /\ Got(r) \in 1..Records
        /\ out = <<>> /\ inp = <<Header(Yes(r))>>
PushPhase(r) ==
  /\ kind[call] = "push"
  /\ data[call] = <<>> \/ step > 2 * Records
  /\ Sending(r) \/ Ended(r) \/ Doomed(r) \/ Starved(r)

CallPhase(r) ==
  /\ OfCall(r)
  /\ \/ pc = "read" /\ ReadPhase(r)
     \/ pc = "prompt" /\ PromptPhase(r)
     \/ pc = "command" /\ FirstCommand(r)
     \/ pc = "output" /\ FirstOutput(r)
     \/ InScript /\ (QueryPhase(r) \/ PushPhase(r))

Phases ==
  /\ active = NoIds \/ active.remote \in RemoteIds
  /\ \/ pc = "stranded"
     \/ pc = "idle" /\ IdlePhase
     \/ pc = "answer" /\ AnswerPhase
     \/ pc \in {"command", "output"} /\ Repeating
     \/ \E r \in RemoteIds : remote_id = r /\ CallPhase(r)

(* What a call that has returned was given, and its stream.                *)
ResultOf(c) ==
  \E r \in RemoteIds :
    /\ stream[r].service = <<c, 0>> /\ stream[r].st # "none"
    /\ kind[c] = "shell" =>
         stream[r].st = "closed" /\ data[c] = [i \in 1..stream[r].sent |-> <<r, i>>]
    /\ kind[c] = "push" => Got(r) >= Records /\ r \notin failed /\ data[c] = << <<r, 1>> >>
    /\ kind[c] = "active" =>
         \E n \in 2..stream[r].sent :
           /\ data[c] = [i \in 1..n - 1 |-> <<r, i + 1>>]
           /\ \A i \in 2..n : <<r, i>> \in Prompts <=> i = n
Results == \A c \in Calls : status[c] = "returned" /\ Orderly(c) => ResultOf(c)

MyAdbInv ==
  /\ TypeOK
  /\ CallFacts
  /\ FailedOpened
  /\ Results
  /\ InOrder => Phases
-----------------------------------------------------------------------------
(* Sequences.                                                              *)
LEMMA CatEmpty ==
  ASSUME NEW S, NEW s \in Seq(S)
  PROVE  <<>> \o s = s /\ s \o <<>> = s
OBVIOUS

LEMMA CatAssoc ==
  ASSUME NEW S, NEW s \in Seq(S), NEW t \in Seq(S), NEW u \in Seq(S)
  PROVE  /\ s \o t \in Seq(S)
         /\ (s \o t) \o u = s \o (t \o u)
OBVIOUS

LEMMA OneItem ==
  ASSUME NEW S, NEW a \in S
  PROVE  /\ <<a>> \in Seq(S) /\ <<a>> # <<>> /\ Len(<<a>>) = 1
         /\ Head(<<a>>) = a /\ Tail(<<a>>) = <<>> /\ Append(<<>>, a) = <<a>>
         /\ <<>> \in Seq(S)
OBVIOUS

LEMMA FirstItem ==
  ASSUME NEW S, NEW a \in S, NEW s \in Seq(S)
  PROVE  /\ <<a>> \o s \in Seq(S) /\ <<a>> \o s # <<>>
         /\ Head(<<a>> \o s) = a /\ Tail(<<a>> \o s) = s
OBVIOUS

LEMMA TwoItems ==
  ASSUME NEW S, NEW a \in S, NEW b \in S, NEW s \in Seq(S)
  PROVE  /\ <<a, b>> \in Seq(S) /\ <<a, b>> \o s \in Seq(S) /\ <<a, b>> \o s # <<>>
         /\ Head(<<a, b>> \o s) = a /\ Tail(<<a, b>> \o s) = <<b>> \o s
         /\ Tail(<<a, b>>) = <<b>> /\ Head(<<a, b>>) = a
         /\ <<a, b>> # <<>> /\ <<a>> \o <<b>> = <<a, b>> /\ Append(<<a>>, b) = <<a, b>>
<1>1. <<a, b>> \in Seq(S) /\ <<a, b>> # <<>> /\ Tail(<<a, b>>) = <<b>> /\ Head(<<a, b>>) = a
  OBVIOUS
<1>2. <<a>> \in Seq(S) /\ <<b>> \in Seq(S)
  BY OneItem
<1>5. Append(<<a>>, b) = <<a, b>>
  <2>1. /\ Append(<<a>>, b) \in Seq(S) /\ Len(Append(<<a>>, b)) = 2
        /\ Append(<<a>>, b)[1] = a /\ Append(<<a>>, b)[2] = b
    OBVIOUS
  <2>2. Len(<<a, b>>) = 2 /\ <<a, b>>[1] = a /\ <<a, b>>[2] = b
    OBVIOUS
  <2>3. \A i \in 1..2 : Append(<<a>>, b)[i] = <<a, b>>[i]
    BY <2>1, <2>2
  <2> QED BY <1>1, <2>1, <2>2, <2>3, SeqEqual
<1>6. <<a>> \o <<b>> = <<a, b>>
  BY <1>2, <1>5, AppendIsConcat
<1>3. <<a>> \o (<<b>> \o s) = <<a, b>> \o s
  <2>1. (<<a>> \o <<b>>) \o s = <<a>> \o (<<b>> \o s)
    BY <1>2, CatAssoc
  <2> QED BY <1>6, <2>1
<1>4. <<b>> \o s \in Seq(S)
  BY FirstItem
<1> QED BY <1>1, <1>3, <1>4, <1>5, <1>6, FirstItem

(* What is after the first item or the first two.                          *)
LEMMA AfterFirst ==
  ASSUME NEW S, NEW a \in S, NEW b \in S, NEW s \in Seq(S)
  PROVE  /\ SubSeq(<<a>> \o s, 2, Len(<<a>> \o s)) = s
         /\ SubSeq(<<a, b>> \o s, 3, Len(<<a, b>> \o s)) = s
<1>1. /\ Len(s) \in Nat
      /\ Len(<<a>> \o s) = Len(s) + 1 /\ Len(<<a, b>> \o s) = Len(s) + 2
      /\ \A i \in 1..Len(s) : (<<a>> \o s)[i + 1] = s[i] /\ (<<a, b>> \o s)[i + 2] = s[i]
  OBVIOUS
<1>2. SubSeq(<<a>> \o s, 2, Len(<<a>> \o s)) = s
  BY <1>1
<1>3. SubSeq(<<a, b>> \o s, 3, Len(<<a, b>> \o s)) = s
  BY <1>1
<1> QED BY <1>2, <1>3

LEMMA CatParts ==
  ASSUME NEW S, NEW l \in Seq(S), NEW s \in Seq(S), l # <<>>
  PROVE  /\ l \o s # <<>> /\ Head(l \o s) = Head(l) /\ Tail(l \o s) = Tail(l) \o s
         /\ Tail(l) \in Seq(S) /\ Head(l) \in S
OBVIOUS

(* The head and the rest of what something was appended to.                *)
LEMMA AppendParts ==
  ASSUME NEW S, NEW l \in Seq(S), NEW a \in S
  PROVE  /\ Append(l, a) \in Seq(S) /\ Append(l, a) # <<>>
         /\ Append(l, a) = l \o <<a>>
         /\ l = <<>> => Head(Append(l, a)) = a /\ Tail(Append(l, a)) = <<>>
         /\ l # <<>> => /\ Head(l) \in S /\ Tail(l) \in Seq(S)
                        /\ Head(Append(l, a)) = Head(l)
                        /\ Tail(Append(l, a)) = Append(Tail(l), a)
<1>4. Append(l, a) \in Seq(S) /\ Append(l, a) # <<>>
  BY AppendProperties
<1>5. Append(l, a) = l \o <<a>>
  BY AppendIsConcat
<1>1. Append(l, a) \in Seq(S) /\ Append(l, a) # <<>> /\ Append(l, a) = l \o <<a>>
  BY <1>4, <1>5
<1>2. l = <<>> => Head(Append(l, a)) = a /\ Tail(Append(l, a)) = <<>>
  BY OneItem
<1>3. ASSUME l # <<>>
      PROVE  /\ Head(l) \in S /\ Tail(l) \in Seq(S)
             /\ Head(Append(l, a)) = Head(l)
             /\ Tail(Append(l, a)) = Append(Tail(l), a)
  <2>1. <<a>> \in Seq(S)
    BY OneItem
  <2>2. /\ Head(l \o <<a>>) = Head(l) /\ Tail(l \o <<a>>) = Tail(l) \o <<a>>
        /\ Tail(l) \in Seq(S) /\ Head(l) \in S
    BY <1>3, <2>1, CatParts
  <2>3. Append(Tail(l), a) = Tail(l) \o <<a>>
    BY <2>2
  <2> QED BY <1>1, <2>2, <2>3
<1> QED BY <1>1, <1>2, <1>3

LEMMA TailItems ==
  ASSUME NEW S, NEW s \in Seq(S), s # <<>>
  PROVE  /\ Tail(s) \in Seq(S) /\ Len(s) \in Nat /\ 1 \in 1..Len(s)
         /\ Head(s) = s[1] /\ Head(s) \in S
         /\ \A i \in 1..Len(Tail(s)) : Tail(s)[i] = s[i + 1] /\ i + 1 \in 1..Len(s)
OBVIOUS

LEMMA AppendItems ==
  ASSUME NEW S, NEW s \in Seq(S), NEW a \in S
  PROVE  /\ Append(s, a) \in Seq(S) /\ Len(s) \in Nat /\ Len(Append(s, a)) = Len(s) + 1
         /\ \A i \in 1..Len(Append(s, a)) :
              \/ i \in 1..Len(s) /\ Append(s, a)[i] = s[i]
              \/ Append(s, a)[i] = a
OBVIOUS

-----------------------------------------------------------------------------
(* Packets and transfers.                                                  *)
LEMMA PairType ==
  ASSUME NEW a \in Nat, NEW b \in Nat
  PROVE  /\ <<a, b>> \in Data /\ <<a, b>>[1] = a /\ <<a, b>>[2] = b
         /\ NoData \in Data /\ (a # 0 => <<a, b>> # NoData)
BY DEF Data, NoData

LEMMA PacketType ==
  ASSUME NEW c \in {"OPEN", "OKAY", "CLSE", "WRTE"}, NEW a \in Nat, NEW b \in Nat, NEW d \in Data
  PROVE  /\ Pkt(c, a, b, d) \in Packet
         /\ Pkt(c, a, b, d).cmd = c /\ Pkt(c, a, b, d).arg0 = a
         /\ Pkt(c, a, b, d).arg1 = b /\ Pkt(c, a, b, d).data = d
BY DEF Pkt, Packet

LEMMA HeaderType ==
  ASSUME NEW p \in Packet
  PROVE  /\ Header(p) \in Transfer /\ Header(p).kind = "header" /\ Header(p).packet = p
         /\ Payload(p) \in Transfer /\ Payload(p).kind = "payload"
BY DEF Header, Payload, Transfer

LEMMA TransfersType ==
  ASSUME NEW p \in Packet
  PROVE  /\ Transfers(p) \in Seq(Transfer)
         /\ p.data = NoData => Transfers(p) = <<Header(p)>>
         /\ p.data # NoData => Transfers(p) = <<Header(p), Payload(p)>>
<1>1. CASE p.data = NoData
  <2>1. Transfers(p) = <<Header(p)>>
    BY <1>1 DEF Transfers
  <2> QED BY <1>1, <2>1, HeaderType
<1>2. CASE p.data # NoData
  <2>1. Transfers(p) = <<Header(p), Payload(p)>>
    BY <1>2 DEF Transfers, Payload
  <2>2. Transfers(p) \in Seq(Transfer)
    BY <2>1, HeaderType
  <2> QED BY <1>2, <2>1, <2>2
<1> QED BY <1>1, <1>2

(* What is read is the packet whose transfers come first.                  *)
LEMMA FirstPacket ==
  ASSUME NEW p \in Packet, NEW s \in Seq(Transfer), inp = Transfers(p) \o s
  PROVE  /\ inp \in Seq(Transfer) /\ inp # <<>> /\ Head(inp) = Header(p) /\ Incoming = p
         /\ ~Misreads
         /\ \A cmds : Reads(cmds) => p.cmd \in cmds /\ inp' = s
         /\ \A cmds : Skips(cmds) =>
              /\ p.cmd \notin cmds
              /\ p.data = NoData => inp' = s
              /\ p.data # NoData => inp' = <<Payload(p)>> \o s
<1>1. /\ Header(p) \in Transfer /\ Payload(p) \in Transfer
      /\ Header(p).kind = "header" /\ Header(p).packet = p
  BY HeaderType
<1>2. CASE p.data = NoData
  <2>1. inp = <<Header(p)>> \o s /\ Transfers(p) = <<Header(p)>>
    BY <1>2, TransfersType
  <2>2. inp \in Seq(Transfer) /\ inp # <<>> /\ Head(inp) = Header(p) /\ Tail(inp) = s
    BY <1>1, <2>1, FirstItem
  <2>3. Incoming = p
    BY <1>1, <2>2 DEF Incoming
  <2>4. ~Misreads
    BY <1>1, <2>2 DEF Misreads
  <2>5. SubSeq(inp, Len(Transfers(p)) + 1, Len(inp)) = s
    <3>1. Len(Transfers(p)) = 1
      BY <1>1, <2>1, OneItem
    <3> QED BY <1>1, <2>1, <3>1, AfterFirst
  <2>6. \A cmds : Reads(cmds) => p.cmd \in cmds /\ inp' = s
    BY <2>3, <2>5 DEF Reads
  <2>7. \A cmds : Skips(cmds) => p.cmd \notin cmds /\ inp' = s
    BY <2>2, <2>3 DEF Skips
  <2> QED BY <1>2, <2>2, <2>3, <2>4, <2>6, <2>7
<1>3. CASE p.data # NoData
  <2>1. inp = <<Header(p), Payload(p)>> \o s /\ Transfers(p) = <<Header(p), Payload(p)>>
    BY <1>3, TransfersType
  <2>2. /\ inp \in Seq(Transfer) /\ inp # <<>> /\ Head(inp) = Header(p)
        /\ Tail(inp) = <<Payload(p)>> \o s
    BY <1>1, <2>1, TwoItems
  <2>3. Incoming = p
    BY <1>1, <2>2 DEF Incoming
  <2>4. ~Misreads
    BY <1>1, <2>2 DEF Misreads
  <2>5. SubSeq(inp, Len(Transfers(p)) + 1, Len(inp)) = s
    <3>1. Len(Transfers(p)) = 2
      BY <1>1, <2>1
    <3> QED BY <1>1, <2>1, <3>1, AfterFirst
  <2>6. \A cmds : Reads(cmds) => p.cmd \in cmds /\ inp' = s
    BY <2>3, <2>5 DEF Reads
  <2>7. \A cmds : Skips(cmds) => p.cmd \notin cmds /\ inp' = <<Payload(p)>> \o s
    BY <2>2, <2>3 DEF Skips
  <2> QED BY <1>3, <2>2, <2>3, <2>4, <2>6, <2>7
<1> QED BY <1>2, <1>3

LEMMA NothingRead ==
  ASSUME inp = <<>>
  PROVE  ~Misreads /\ (\A cmds : ~Reads(cmds) /\ ~Skips(cmds))
BY DEF Misreads, Reads, Skips, IsHeader

(* The packets of a call and its stream.                                   *)
LEMMA WriteParts ==
  ASSUME TypeOK, NEW r \in RemoteIds, NEW k \in Nat
  PROVE  /\ WriteTo(r, k) \in Packet /\ WriteTo(r, k).cmd = "WRTE"
         /\ WriteTo(r, k).arg0 = local_id
         /\ WriteTo(r, k).arg1 = r /\ WriteTo(r, k).data = <<call, k>>
<1>1. r \in Nat /\ local_id \in Nat /\ call \in Nat
  BY MessageAssumption DEF TypeOK
<1>2. WriteTo(r, k) = Pkt("WRTE", local_id, r, <<call, k>>)
  BY DEF WriteTo
<1>3. PICK d \in Data : d = <<call, k>>
  BY <1>1, PairType
<1>4. /\ Pkt("WRTE", local_id, r, d) \in Packet /\ Pkt("WRTE", local_id, r, d).cmd = "WRTE"
      /\ Pkt("WRTE", local_id, r, d).arg0 = local_id /\ Pkt("WRTE", local_id, r, d).arg1 = r
      /\ Pkt("WRTE", local_id, r, d).data = d
  BY <1>1, PacketType
<1> QED BY <1>2, <1>3, <1>4

LEMMA ChunkParts ==
  ASSUME TypeOK, NEW r \in RemoteIds, NEW k \in Nat
  PROVE  /\ Chunk(r, k) \in Packet /\ Chunk(r, k).cmd = "WRTE" /\ Chunk(r, k).arg0 = r
         /\ Chunk(r, k).arg1 = local_id /\ Chunk(r, k).data = <<r, k>>
         /\ Chunk(r, k).data \in Data /\ Chunk(r, k).data # NoData
<1>1. r \in Nat \ {0} /\ local_id \in Nat
  BY MessageAssumption DEF TypeOK
<1>2. Chunk(r, k) = Pkt("WRTE", r, local_id, <<r, k>>)
  BY DEF Chunk
<1>3. PICK d \in Data : d = <<r, k>> /\ d # NoData
  <2>1. <<r, k>> \in Data /\ <<r, k>> # NoData
    BY <1>1, PairType
  <2> QED BY <2>1
<1>4. /\ Pkt("WRTE", r, local_id, d) \in Packet /\ Pkt("WRTE", r, local_id, d).cmd = "WRTE"
      /\ Pkt("WRTE", r, local_id, d).arg0 = r /\ Pkt("WRTE", r, local_id, d).arg1 = local_id
      /\ Pkt("WRTE", r, local_id, d).data = d
  BY <1>1, PacketType
<1> QED BY <1>2, <1>3, <1>4

LEMMA Msgs ==
  ASSUME TypeOK, NEW r \in RemoteIds, NEW k \in Nat
  PROVE  /\ r \in Nat \ {0} /\ local_id \in Nat /\ call \in Nat /\ NoData \in Data
         /\ Yes(r) \in Packet /\ Yes(r).cmd = "OKAY" /\ Yes(r).arg0 = r
         /\ Yes(r).arg1 = local_id /\ Yes(r).data = NoData
         /\ Goodbye(r) \in Packet /\ Goodbye(r).cmd = "CLSE" /\ Goodbye(r).arg0 = r
         /\ Goodbye(r).arg1 = local_id /\ Goodbye(r).data = NoData
         /\ Chunk(r, k) \in Packet /\ Chunk(r, k).cmd = "WRTE" /\ Chunk(r, k).arg0 = r
         /\ Chunk(r, k).arg1 = local_id /\ Chunk(r, k).data = <<r, k>> /\ <<r, k>> # NoData
         /\ <<r, k>> \in Data
         /\ AckTo(r) \in Packet /\ AckTo(r).cmd = "OKAY" /\ AckTo(r).arg0 = local_id
         /\ AckTo(r).arg1 = r /\ AckTo(r).data = NoData
         /\ CloseTo(r) \in Packet /\ CloseTo(r).cmd = "CLSE" /\ CloseTo(r).arg0 = local_id
         /\ CloseTo(r).arg1 = r /\ CloseTo(r).data = NoData
         /\ WriteTo(r, k) \in Packet /\ WriteTo(r, k).cmd = "WRTE"
         /\ WriteTo(r, k).arg0 = local_id
         /\ WriteTo(r, k).arg1 = r /\ WriteTo(r, k).data = <<call, k>>
<1>1. r \in Nat \ {0} /\ local_id \in Nat /\ call \in Nat
  BY MessageAssumption DEF TypeOK
<1>2. /\ <<r, k>> \in Data /\ <<r, k>> # NoData /\ <<call, k>> \in Data /\ NoData \in Data
  BY <1>1, PairType
<1>3. /\ Yes(r) \in Packet /\ Yes(r).cmd = "OKAY" /\ Yes(r).arg0 = r
      /\ Yes(r).arg1 = local_id /\ Yes(r).data = NoData
  BY <1>1, <1>2, PacketType DEF Yes
<1>4. /\ Goodbye(r) \in Packet /\ Goodbye(r).cmd = "CLSE" /\ Goodbye(r).arg0 = r
      /\ Goodbye(r).arg1 = local_id /\ Goodbye(r).data = NoData
  BY <1>1, <1>2, PacketType DEF Goodbye
<1>5. /\ Chunk(r, k) \in Packet /\ Chunk(r, k).cmd = "WRTE" /\ Chunk(r, k).arg0 = r
      /\ Chunk(r, k).arg1 = local_id /\ Chunk(r, k).data = <<r, k>>
  BY ChunkParts
<1>6. /\ AckTo(r) \in Packet /\ AckTo(r).cmd = "OKAY" /\ AckTo(r).arg0 = local_id
      /\ AckTo(r).arg1 = r /\ AckTo(r).data = NoData
  <2>1. AckTo(r) = Pkt("OKAY", local_id, r, NoData)
    BY DEF AckTo
  <2> QED BY <1>1, <1>2, <2>1, PacketType
<1>7. /\ CloseTo(r) \in Packet /\ CloseTo(r).cmd = "CLSE" /\ CloseTo(r).arg0 = local_id
      /\ CloseTo(r).arg1 = r /\ CloseTo(r).data = NoData
  BY <1>1, <1>2, PacketType DEF CloseTo
<1>8. /\ WriteTo(r, k) \in Packet /\ WriteTo(r, k).cmd = "WRTE"
      /\ WriteTo(r, k).arg0 = local_id
      /\ WriteTo(r, k).arg1 = r /\ WriteTo(r, k).data = <<call, k>>
  BY WriteParts
<1> QED
  BY <1>1, <1>2, <1>3, <1>4, <1>5, <1>6, <1>7, <1>8

LEMMA StreamParts ==
  ASSUME TypeOK, NEW r \in RemoteIds
  PROVE  /\ stream[r].st \in {"none", "ready", "waitack", "closed"}
         /\ stream[r].peer \in Nat /\ stream[r].service \in Data
         /\ stream[r].sent \in Nat /\ stream[r].got \in Seq(Data) /\ Got(r) \in Nat
         /\ inp \in Seq(Transfer) /\ out \in Seq(Packet)
<1>1. stream[r] \in Stream /\ inp \in Seq(Transfer) /\ out \in Seq(Packet)
  BY DEF TypeOK, WireTypeOK
<1>2. stream[r].got \in Seq(Data)
  BY <1>1 DEF Stream
<1>3. Got(r) \in Nat
  BY <1>2 DEF Got
<1> QED BY <1>1, <1>2, <1>3 DEF Stream

(* What a stream has said and the host has not read.                       *)
LEMMA UnreadIs ==
  ASSUME TypeOK, NEW r \in RemoteIds, NEW n \in Nat
  PROVE  /\ Unread(r, n) \in Seq(Transfer)
         /\ stream[r].sent > n => Unread(r, n) = Transfers(Chunk(r, n + 1)) \o
              (IF stream[r].st = "closed" THEN Transfers(Goodbye(r)) ELSE <<>>)
         /\ stream[r].sent <= n /\ stream[r].st = "closed" => Unread(r, n) = Transfers(Goodbye(r))
         /\ stream[r].sent <= n /\ stream[r].st # "closed" => Unread(r, n) = <<>>
<1>1. /\ Goodbye(r) \in Packet /\ Goodbye(r).data = NoData
      /\ Chunk(r, n + 1) \in Packet
  <2> n + 1 \in Nat
    OBVIOUS
  <2> QED BY Msgs
<1>2. /\ Transfers(Goodbye(r)) = <<Header(Goodbye(r))>>
      /\ Transfers(Goodbye(r)) \in Seq(Transfer) /\ Transfers(Chunk(r, n + 1)) \in Seq(Transfer)
  BY <1>1, TransfersType
<1>3. stream[r].sent \in Nat
  BY StreamParts
<1> DEFINE more == IF stream[r].sent > n THEN Transfers(Chunk(r, n + 1)) ELSE <<>>
           end == IF stream[r].st = "closed" THEN Transfers(Goodbye(r)) ELSE <<>>
<1>4. Unread(r, n) = more \o end
  BY <1>2 DEF Unread
<1>5. more \in Seq(Transfer) /\ end \in Seq(Transfer)
  BY <1>2
<1>6. more \o end \in Seq(Transfer) /\ <<>> \o end = end
  BY <1>5, CatEmpty, CatAssoc
<1>7. stream[r].sent <= n => ~(stream[r].sent > n)
  BY <1>3
<1> QED BY <1>4, <1>6, <1>7

(* What the host reads first of what its stream has said.                  *)
LEMMA TalkFirst ==
  ASSUME TypeOK, NEW r \in RemoteIds, NEW n \in Nat, NEW asked, Talk(r, n, <<>>, asked)
  PROVE  \/ /\ inp = <<>> /\ stream[r].sent = n /\ Open(r)
         \/ /\ stream[r].sent = n + 1 /\ stream[r].st \in {"waitack", "closed"}
            /\ out = <<>> \o asked
            /\ inp = Transfers(Chunk(r, n + 1)) \o Unread(r, n + 1)
         \/ /\ stream[r].sent = n /\ stream[r].st = "closed"
            /\ out = <<>> \o asked \/ out = <<AckTo(r)>> \o asked
            /\ inp = Transfers(Goodbye(r)) \o <<>>
<1>1. PICK ack \in {<<>>, <<AckTo(r)>>} : out = ack \o asked /\ Turn(r, n, ack)
  BY DEF Talk
<1>2. inp = <<>> \o Unread(r, n)
  BY DEF Talk
<1>3. inp = Unread(r, n) /\ Unread(r, n) \in Seq(Transfer)
  BY <1>2, UnreadIs, CatEmpty
<1>4. stream[r].sent \in Nat
  BY StreamParts
<1>5. <<AckTo(r)>> # <<>>
  BY Msgs, OneItem
<1>10. n + 1 \in Nat /\ n + 1 > n /\ n + 1 <= n + 1 /\ n <= n /\ ~(n + 1 <= n) /\ ~(n > n)
  OBVIOUS
<1>6. CASE stream[r].sent = n + 1
  <2>1. ack = <<>> /\ stream[r].st \in {"waitack", "closed"}
    BY <1>1, <1>4, <1>5, <1>6 DEF Turn
  <2>2. Unread(r, n) = Transfers(Chunk(r, n + 1)) \o
           (IF stream[r].st = "closed" THEN Transfers(Goodbye(r)) ELSE <<>>)
    BY <1>4, <1>10, <1>6, UnreadIs
  <2>3. Unread(r, n + 1) = IF stream[r].st = "closed" THEN Transfers(Goodbye(r)) ELSE <<>>
    BY <1>4, <1>10, <1>6, UnreadIs
  <2> QED BY <1>1, <1>3, <1>6, <2>1, <2>2, <2>3
<1>7. CASE stream[r].sent = n /\ stream[r].st = "closed"
  <2>1. Unread(r, n) = Transfers(Goodbye(r))
    BY <1>10, <1>7, UnreadIs
  <2>2. Transfers(Goodbye(r)) \o <<>> = Transfers(Goodbye(r))
    BY Msgs, TransfersType, CatEmpty
  <2> QED BY <1>1, <1>3, <1>7, <2>1, <2>2
<1>8. CASE stream[r].sent = n /\ stream[r].st # "closed"
  <2>1. Unread(r, n) = <<>>
    BY <1>10, <1>8, UnreadIs
  <2> QED BY <1>3, <1>8, <2>1 DEF Open
<1>9. stream[r].sent = n \/ stream[r].sent = n + 1
  BY <1>1, <1>4 DEF Turn
<1> QED BY <1>6, <1>7, <1>8, <1>9

(* What adbd reads first of what the host has sent.                        *)
LEMMA TalkOut ==
  ASSUME TypeOK, NEW r \in RemoteIds, NEW n \in Nat, NEW before, NEW asked,
         asked = <<>> \/ \E p \in Packet : asked = <<p>> /\ p.cmd # "OKAY",
         Talk(r, n, before, asked), out # <<>>
  PROVE  \/ /\ Head(out) = AckTo(r) /\ Tail(out) = asked /\ Turn(r, n, <<AckTo(r)>>)
            /\ stream[r].sent = n /\ stream[r].st \in {"waitack", "closed"}
         \/ /\ \E p \in Packet : asked = <<p>> /\ Head(out) = p /\ p.cmd # "OKAY"
            /\ Tail(out) = <<>> /\ out = asked /\ Turn(r, n, <<>>)
<1>1. PICK ack \in {<<>>, <<AckTo(r)>>} : out = ack \o asked /\ Turn(r, n, ack)
  BY DEF Talk
<1>2. asked \in Seq(Packet) /\ AckTo(r) \in Packet
  <2>1. AckTo(r) \in Packet
    BY Msgs
  <2>2. <<>> \in Seq(Packet)
    OBVIOUS
  <2>3. \A p \in Packet : <<p>> \in Seq(Packet)
    OBVIOUS
  <2>4. asked \in Seq(Packet)
    BY <2>2, <2>3
  <2> QED BY <2>1, <2>4
<1>3. CASE ack = <<AckTo(r)>>
  <2>1. Head(out) = AckTo(r) /\ Tail(out) = asked
    BY <1>1, <1>2, <1>3, FirstItem
  <2>2. <<AckTo(r)>> # <<>>
    BY <1>2, OneItem
  <2> QED BY <1>1, <1>3, <2>1, <2>2 DEF Turn
<1>4. CASE ack = <<>>
  <2>1. out = asked
    BY <1>1, <1>2, <1>4, CatEmpty
  <2>2. PICK p \in Packet : asked = <<p>> /\ p.cmd # "OKAY"
    BY <2>1
  <2> QED BY <1>1, <1>4, <2>1, <2>2, OneItem
<1> QED BY <1>1, <1>3, <1>4

-----------------------------------------------------------------------------
(* What the steps of adbd do to a stream.                                  *)
Becomes(r, st, sent, got) ==
  /\ stream' \in [RemoteIds -> Stream]
  /\ \A q \in RemoteIds : q # r => stream'[q] = stream[q]
  /\ stream'[r].st = st /\ stream'[r].sent = sent /\ stream'[r].got = got
  /\ stream'[r].peer = stream[r].peer /\ stream'[r].service = stream[r].service

LEMMA StreamType ==
  ASSUME TypeOK
  PROVE  /\ stream \in [RemoteIds -> Stream] /\ inp \in Seq(Transfer) /\ out \in Seq(Packet)
         /\ RemoteIds \subseteq Nat \ {0} /\ failed \subseteq RemoteIds
BY MessageAssumption DEF TypeOK, WireTypeOK

LEMMA OutParts ==
  ASSUME TypeOK, out # <<>>
  PROVE  /\ Frame \in Packet /\ Tail(out) \in Seq(Packet)
         /\ Frame.arg0 \in Nat /\ Frame.arg1 \in Nat /\ Frame.data \in Data
<1>1. out \in Seq(Packet)
  BY StreamType
<1>2. Frame \in Packet /\ Tail(out) \in Seq(Packet)
  BY <1>1, TailItems DEF Frame
<1> QED BY <1>2 DEF Packet

LEMMA AckDoes ==
  ASSUME TypeOK, DevAck
  PROVE  /\ out # <<>> /\ Frame.cmd = "OKAY" /\ out' = Tail(out) /\ UNCHANGED inp
         /\ stream' \in [RemoteIds -> Stream]
         /\ Frame.arg1 \in RemoteIds =>
              Becomes(Frame.arg1,
                IF stream[Frame.arg1].st = "waitack" THEN "ready" ELSE stream[Frame.arg1].st,
                stream[Frame.arg1].sent, stream[Frame.arg1].got)
         /\ \A q \in RemoteIds : q # Frame.arg1 => stream'[q] = stream[q]
<1>1. stream \in [RemoteIds -> Stream]
  BY StreamType
<1>2. out # <<>> /\ Frame.cmd = "OKAY" /\ out' = Tail(out) /\ UNCHANGED inp
  BY DEF DevAck, Receives
<1> DEFINE x == Frame.arg1
<1>3. stream' = IF stream[x].st = "waitack" THEN [stream EXCEPT ![x].st = "ready"] ELSE stream
  BY DEF DevAck
<1> HIDE DEF x
<1>4. stream' \in [RemoteIds -> Stream] /\ \A q \in RemoteIds : q # x => stream'[q] = stream[q]
  BY <1>1, <1>3 DEF Stream
<1>5. ASSUME x \in RemoteIds
      PROVE  Becomes(x, IF stream[x].st = "waitack" THEN "ready" ELSE stream[x].st,
                     stream[x].sent, stream[x].got)
  <2>1. CASE stream[x].st = "waitack"
    BY <1>1, <1>3, <1>4, <1>5, <2>1 DEF Becomes, Stream
  <2>2. CASE stream[x].st # "waitack"
    BY <1>1, <1>3, <1>4, <1>5, <2>2 DEF Becomes
  <2> QED BY <2>1, <2>2
<1> QED BY <1>2, <1>4, <1>5 DEF x

LEMMA WriteDoes ==
  ASSUME TypeOK, DevHostWrite
  PROVE  /\ out # <<>> /\ Frame.cmd = "WRTE" /\ out' = Tail(out)
         /\ stream' \in [RemoteIds -> Stream]
         /\ \A q \in RemoteIds : q # Frame.arg1 => stream'[q] = stream[q]
         /\ \/ /\ IsOpen(Frame.arg1)
               /\ Frame.arg1 \in RemoteIds =>
                    Becomes(Frame.arg1, stream[Frame.arg1].st, stream[Frame.arg1].sent,
                            Append(stream[Frame.arg1].got, Frame.data))
               /\ DevWrites(Pkt("OKAY", Frame.arg1, Frame.arg0, NoData))
            \/ ~IsOpen(Frame.arg1) /\ UNCHANGED <<stream, inp>>
<1>1. stream \in [RemoteIds -> Stream]
  BY StreamType
<1>2. out # <<>> /\ Frame.cmd = "WRTE" /\ out' = Tail(out)
  BY DEF DevHostWrite, Receives
<1>3. Frame.data \in Data
  BY <1>2, OutParts
<1> DEFINE x == Frame.arg1
<1>4. CASE IsOpen(x)
  <2>1. /\ stream' = [stream EXCEPT ![x].got = Append(@, Frame.data)]
        /\ DevWrites(Pkt("OKAY", x, Frame.arg0, NoData))
    BY <1>4 DEF DevHostWrite
  <2> HIDE DEF x
  <2>2. \A q \in RemoteIds : q # x => stream'[q] = stream[q]
    BY <1>1, <2>1
  <2>3. CASE x \in RemoteIds
    <3>1. stream[x] \in Stream /\ stream[x].got \in Seq(Data)
      BY <1>1, <2>3 DEF Stream
    <3> DEFINE more == Append(stream[x].got, Frame.data)
    <3>2. more \in Seq(Data)
      BY <1>3, <3>1, AppendProperties
    <3>3. stream' = [stream EXCEPT ![x] = [stream[x] EXCEPT !.got = more]]
      BY <1>1, <2>1, <2>3
    <3> HIDE DEF more
    <3>4. [stream[x] EXCEPT !.got = more] \in Stream
      BY <3>1, <3>2 DEF Stream
    <3>5. stream' \in [RemoteIds -> Stream]
      BY <1>1, <3>3, <3>4
    <3>6. stream'[x] = [stream[x] EXCEPT !.got = more]
      BY <1>1, <2>3, <3>3
    <3>7. Becomes(x, stream[x].st, stream[x].sent, more)
      BY <2>2, <3>1, <3>5, <3>6 DEF Becomes, Stream
    <3> QED BY <1>2, <1>4, <2>1, <2>2, <3>5, <3>7 DEF more, x
  <2>4. CASE x \notin RemoteIds
    <3>1. stream' \in [RemoteIds -> Stream]
      BY <1>1, <2>1, <2>4
    <3> QED BY <1>2, <1>4, <2>1, <2>2, <2>4, <3>1 DEF x
  <2> QED BY <2>3, <2>4
<1>5. CASE ~IsOpen(x)
  <2>1. UNCHANGED <<stream, inp>>
    BY <1>5 DEF DevHostWrite
  <2> QED BY <1>1, <1>2, <1>5, <2>1
<1> QED BY <1>4, <1>5

LEMMA CloseDoes ==
  ASSUME TypeOK, DevCloseRequest
  PROVE  /\ out # <<>> /\ Frame.cmd = "CLSE" /\ out' = Tail(out)
         /\ stream' \in [RemoteIds -> Stream]
         /\ \A q \in RemoteIds : q # Frame.arg1 => stream'[q] = stream[q]
         /\ DevWrites(Pkt("CLSE", Frame.arg1, Frame.arg0, NoData)) \/ UNCHANGED inp
         /\ \/ /\ IsOpen(Frame.arg1)
               /\ DevWrites(Pkt("CLSE", Frame.arg1, Frame.arg0, NoData))
               /\ Frame.arg1 \in RemoteIds =>
                    Becomes(Frame.arg1, "closed", stream[Frame.arg1].sent, stream[Frame.arg1].got)
            \/ ~IsOpen(Frame.arg1) /\ UNCHANGED stream
<1>1. stream \in [RemoteIds -> Stream]
  BY StreamType
<1>2. /\ out # <<>> /\ Frame.cmd = "CLSE" /\ out' = Tail(out)
      /\ DevWrites(Pkt("CLSE", Frame.arg1, Frame.arg0, NoData)) \/ UNCHANGED inp
  BY DEF DevCloseRequest, Receives
<1> DEFINE x == Frame.arg1
<1>3. CASE IsOpen(x)
  <2>1. /\ stream' = [stream EXCEPT ![x].st = "closed"]
        /\ DevWrites(Pkt("CLSE", x, Frame.arg0, NoData))
    BY <1>3 DEF DevCloseRequest
  <2> HIDE DEF x
  <2>2. stream' \in [RemoteIds -> Stream] /\ \A q \in RemoteIds : q # x => stream'[q] = stream[q]
    BY <1>1, <2>1 DEF Stream
  <2>3. x \in RemoteIds => Becomes(x, "closed", stream[x].sent, stream[x].got)
    BY <1>1, <2>1, <2>2 DEF Becomes, Stream
  <2> QED BY <1>2, <1>3, <2>1, <2>2, <2>3 DEF x
<1>4. CASE ~IsOpen(x)
  <2>1. UNCHANGED stream
    BY <1>4 DEF DevCloseRequest
  <2> QED BY <1>1, <1>2, <1>4, <2>1
<1> QED BY <1>3, <1>4

LEMMA SaysDoes ==
  ASSUME TypeOK, NEW r \in RemoteIds, DevStreamWrite(r)
  PROVE  /\ stream[r].st = "ready" /\ UNCHANGED out
         /\ Becomes(r, "waitack", stream[r].sent + 1, stream[r].got)
         /\ DevWrites(Pkt("WRTE", r, stream[r].peer, <<r, stream[r].sent + 1>>))
<1>1. stream \in [RemoteIds -> Stream]
  BY StreamType
<1>2. /\ stream[r].st = "ready" /\ UNCHANGED out
      /\ DevWrites(Pkt("WRTE", r, stream[r].peer, <<r, stream[r].sent + 1>>))
      /\ stream' = [stream EXCEPT ![r].st = "waitack", ![r].sent = @ + 1]
  BY DEF DevStreamWrite
<1>3. stream' = [stream EXCEPT ![r] = [stream[r] EXCEPT !.st = "waitack", !.sent = stream[r].sent + 1]]
  BY <1>1, <1>2
<1>4. [stream[r] EXCEPT !.st = "waitack", !.sent = stream[r].sent + 1] \in Stream
  <2>1. stream[r] \in Stream /\ stream[r].sent + 1 \in Nat
    BY <1>1 DEF Stream
  <2> QED BY <2>1 DEF Stream
<1>5. /\ stream' \in [RemoteIds -> Stream]
      /\ stream'[r] = [stream[r] EXCEPT !.st = "waitack", !.sent = stream[r].sent + 1]
      /\ \A q \in RemoteIds : q # r => stream'[q] = stream[q]
  BY <1>1, <1>3, <1>4
<1>6. Becomes(r, "waitack", stream[r].sent + 1, stream[r].got)
  BY <1>1, <1>5 DEF Becomes, Stream
<1> QED BY <1>2, <1>6

LEMMA EndDoes ==
  ASSUME TypeOK, NEW r \in RemoteIds, DevStreamEnd(r)
  PROVE  /\ IsOpen(r) /\ UNCHANGED out
         /\ Becomes(r, "closed", stream[r].sent, stream[r].got)
         /\ DevWrites(Pkt("CLSE", r, stream[r].peer, NoData))
<1>1. stream \in [RemoteIds -> Stream]
  BY StreamType
<1>2. /\ IsOpen(r) /\ UNCHANGED out
      /\ DevWrites(Pkt("CLSE", r, stream[r].peer, NoData))
      /\ stream' = [stream EXCEPT ![r].st = "closed"]
  BY DEF DevStreamEnd
<1>3. Becomes(r, "closed", stream[r].sent, stream[r].got)
  BY <1>1, <1>2 DEF Becomes, Stream
<1> QED BY <1>2, <1>3

LEMMA OpenDoes ==
  ASSUME TypeOK, DevOpen
  PROVE  /\ out # <<>> /\ Frame.cmd = "OPEN" /\ out' = Tail(out)
         /\ stream' \in [RemoteIds -> Stream]
         /\ \/ \E r \in RemoteIds :
                 /\ stream[r].st = "none"
                 /\ \A q \in RemoteIds : q # r => stream'[q] = stream[q]
                 /\ stream'[r].st = "ready" /\ stream'[r].sent = 0 /\ stream'[r].got = <<>>
                 /\ stream'[r].peer = Frame.arg0 /\ stream'[r].service = Frame.data
                 /\ DevWrites(Pkt("OKAY", r, Frame.arg0, NoData))
            \/ UNCHANGED stream /\ DevWrites(Pkt("CLSE", 0, Frame.arg0, NoData))
<1>1. stream \in [RemoteIds -> Stream]
  BY StreamType
<1>2. out # <<>> /\ Frame.cmd = "OPEN" /\ out' = Tail(out)
  BY DEF DevOpen, Receives
<1>3. Frame.arg0 \in Nat /\ Frame.data \in Data
  BY <1>2, OutParts
<1>4. CASE UNCHANGED stream /\ DevWrites(Pkt("CLSE", 0, Frame.arg0, NoData))
  BY <1>1, <1>2, <1>4
<1>5. CASE \E r \in RemoteIds :
             /\ NextRemoteId(r)
             /\ stream' = [stream EXCEPT ![r] =
                  [st |-> "ready", peer |-> Frame.arg0, service |-> Frame.data,
                   sent |-> 0, got |-> <<>>]]
             /\ DevWrites(Pkt("OKAY", r, Frame.arg0, NoData))
  <2> DEFINE new == [st |-> "ready", peer |-> Frame.arg0, service |-> Frame.data,
                     sent |-> 0, got |-> <<>>]
  <2>1. PICK r \in RemoteIds : /\ NextRemoteId(r)
                               /\ stream' = [stream EXCEPT ![r] = new]
                               /\ DevWrites(Pkt("OKAY", r, Frame.arg0, NoData))
    BY <1>5
  <2>2. <<>> \in Seq(Data)
    OBVIOUS
  <2>3. /\ new \in Stream /\ new.st = "ready" /\ new.sent = 0 /\ new.got = <<>>
        /\ new.peer = Frame.arg0 /\ new.service = Frame.data
    BY <1>3, <2>2 DEF Stream
  <2> HIDE DEF new
  <2>4. /\ stream' \in [RemoteIds -> Stream] /\ stream'[r] = new
        /\ \A q \in RemoteIds : q # r => stream'[q] = stream[q]
    BY <1>1, <2>1, <2>3
  <2>5. stream[r].st = "none"
    BY <2>1 DEF NextRemoteId
  <2> QED BY <1>2, <2>1, <2>3, <2>4, <2>5
<1> QED BY <1>4, <1>5 DEF DevOpen

(* A packet of adbd is added to what is to be read.                        *)
LEMMA DevWritesType ==
  ASSUME TypeOK, NEW p \in Packet, DevWrites(p)
  PROVE  inp' = inp \o Transfers(p) /\ inp' \in Seq(Transfer)
<1>1. inp \in Seq(Transfer) /\ Transfers(p) \in Seq(Transfer)
  BY StreamType, TransfersType
<1> QED BY <1>1, CatAssoc DEF DevWrites

-----------------------------------------------------------------------------
(* Type correctness.                                                       *)
LEMMA NoDataType == NoData \in Data
BY DEF NoData, Data

LEMMA HostReadType ==
  ASSUME TypeOK, NEW cmds, Reads(cmds) \/ Skips(cmds) \/ Misreads
  PROVE  /\ inp # <<>> /\ inp' \in Seq(Transfer)
         /\ Incoming \in Packet /\ Incoming.cmd \in {"OPEN", "OKAY", "CLSE", "WRTE"}
         /\ Incoming.arg0 \in Nat /\ Incoming.arg1 \in Nat /\ Incoming.data \in Data
<1>1. inp \in Seq(Transfer)
  BY StreamType
<1>2. inp # <<>>
  BY DEF Reads, Skips, Misreads, IsHeader
<1>3. Head(inp) \in Transfer /\ Tail(inp) \in Seq(Transfer) /\ Len(inp) \in Nat
  BY <1>1, <1>2, TailItems
<1>4. Incoming \in Packet
  BY <1>3 DEF Incoming, Transfer
<1>5. inp' \in Seq(Transfer)
  <2>1. CASE inp' = Tail(inp)
    BY <1>3, <2>1
  <2>2. CASE Reads(cmds)
    <3>1. Transfers(Incoming) \in Seq(Transfer)
      BY <1>4, TransfersType
    <3> DEFINE m == Len(Transfers(Incoming)) + 1
    <3>2. m \in Nat /\ m >= 1
      BY <3>1
    <3>3. inp' = SubSeq(inp, m, Len(inp))
      BY <2>2 DEF Reads
    <3> HIDE DEF m
    <3>4. SubSeq(inp, m, Len(inp)) \in Seq(Transfer)
      BY <1>1, <1>3, <3>2
    <3> QED BY <3>3, <3>4
  <2> QED BY <2>1, <2>2 DEF Skips, Misreads
<1> QED BY <1>2, <1>4, <1>5 DEF Packet

LEMMA AdbdType ==
  ASSUME TypeOK, Adbd
  PROVE  out' \in Seq(Packet) /\ inp' \in Seq(Transfer) /\ stream' \in [RemoteIds -> Stream]
         /\ failed' \subseteq RemoteIds
<1>1. inp \in Seq(Transfer) /\ out \in Seq(Packet) /\ RemoteIds \subseteq Nat \ {0}
      /\ failed \subseteq RemoteIds
  BY StreamType
<1>2. CASE DevPacket /\ UNCHANGED failed
  <2>1. out # <<>>
    BY <1>2 DEF DevPacket, DevOpen, DevAck, DevHostWrite, DevCloseRequest, Receives
  <2>2. /\ Tail(out) \in Seq(Packet) /\ Frame.arg0 \in Nat /\ Frame.arg1 \in Nat
        /\ 0 \in Nat /\ NoData \in Data
    BY <2>1, OutParts, PairType
  <2>3. /\ \A r \in RemoteIds : Pkt("OKAY", r, Frame.arg0, NoData) \in Packet
        /\ Pkt("OKAY", Frame.arg1, Frame.arg0, NoData) \in Packet
        /\ Pkt("CLSE", Frame.arg1, Frame.arg0, NoData) \in Packet
        /\ Pkt("CLSE", 0, Frame.arg0, NoData) \in Packet
    BY <1>1, <2>2, PacketType
  <2>4. CASE DevOpen
    BY <1>1, <1>2, <2>2, <2>3, <2>4, OpenDoes, DevWritesType
  <2>5. CASE DevAck
    BY <1>1, <1>2, <2>2, <2>5, AckDoes
  <2>6. CASE DevHostWrite
    BY <1>1, <1>2, <2>2, <2>3, <2>6, WriteDoes, DevWritesType
  <2>7. CASE DevCloseRequest
    BY <1>1, <1>2, <2>2, <2>3, <2>7, CloseDoes, DevWritesType
  <2> QED BY <1>2, <2>4, <2>5, <2>6, <2>7 DEF DevPacket
<1>3. ASSUME NEW r \in RemoteIds, DevStreamWrite(r) \/ DevStreamEnd(r),
             UNCHANGED failed \/ failed' = failed \cup {r}
      PROVE  out' \in Seq(Packet) /\ inp' \in Seq(Transfer) /\ stream' \in [RemoteIds -> Stream]
             /\ failed' \subseteq RemoteIds
  <2>1. stream[r].peer \in Nat /\ stream[r].sent + 1 \in Nat /\ r \in Nat /\ NoData \in Data
    BY <1>1, StreamParts, NoDataType
  <2>2. <<r, stream[r].sent + 1>> \in Data
    BY <2>1, PairType
  <2>3. CASE DevStreamWrite(r)
    <3>1. Pkt("WRTE", r, stream[r].peer, <<r, stream[r].sent + 1>>) \in Packet
      BY <2>1, <2>2, PacketType
    <3> QED BY <1>1, <1>3, <2>3, <3>1, SaysDoes, DevWritesType DEF Becomes
  <2>4. CASE DevStreamEnd(r)
    <3>1. Pkt("CLSE", r, stream[r].peer, NoData) \in Packet
      BY <2>1, PacketType
    <3> QED BY <1>1, <1>3, <2>4, <3>1, EndDoes, DevWritesType DEF Becomes
  <2> QED BY <1>3, <2>3, <2>4
<1> QED BY <1>2, <1>3
        DEF Adbd, ServiceAnswer, ServiceWrite, ServiceEnd, ServiceFails, ShellExits, envVars

HostTypeOK ==
  /\ pc \in {"idle", "answer", "read", "script", "prompt", "command", "output", "stranded"}
  /\ call \in 0..MaxCalls
  /\ kind \in [Calls -> Kinds \cup {"none"}]
  /\ base_id \in Nat
  /\ local_id \in Nat
  /\ remote_id \in Nat
  /\ active \in [local : Nat, remote : Nat]
  /\ step \in Nat
  /\ status \in [Calls -> {"none", "returned", "refused", "raised"}]
  /\ data \in [Calls -> Seq(Data)]

LEMMA TypeParts ==
  /\ TypeOK => WireTypeOK /\ HostTypeOK /\ failed \subseteq RemoteIds /\ cut \subseteq 0..MaxCalls
  /\ WireTypeOK /\ HostTypeOK /\ failed \subseteq RemoteIds /\ cut \subseteq 0..MaxCalls => TypeOK
BY DEF TypeOK, HostTypeOK

LEMMA SendType ==
  ASSUME TypeOK, NEW p \in Packet, Send(p)
  PROVE  out' \in Seq(Packet) /\ out' = Append(out, p)
BY StreamType, AppendItems DEF Send

(* What the host writes.                                                   *)
LEMMA HostPackets ==
  ASSUME TypeOK
  PROVE  /\ Ack \in Packet /\ CloseMsg \in Packet
         /\ \A n \in Nat : WriteMsg(n) \in Packet
         /\ Pkt("OPEN", base_id + 1, 0, <<call + 1, 0>>) \in Packet
<1>1. /\ local_id \in Nat /\ remote_id \in Nat /\ call \in Nat /\ base_id + 1 \in Nat
      /\ call + 1 \in Nat /\ NoData \in Data /\ 0 \in Nat
  BY NoDataType DEF TypeOK
<1>2. Ack \in Packet /\ CloseMsg \in Packet
  BY <1>1, PacketType DEF Ack, CloseMsg
<1>3. ASSUME NEW n \in Nat
      PROVE  WriteMsg(n) \in Packet
  <2>1. PICK d \in Data : d = <<call, n>>
    BY <1>1, PairType
  <2>2. Pkt("WRTE", local_id, remote_id, d) \in Packet
    BY <1>1, PacketType
  <2> QED BY <2>1, <2>2 DEF WriteMsg
<1>4. Pkt("OPEN", base_id + 1, 0, <<call + 1, 0>>) \in Packet
  <2>1. PICK d \in Data : d = <<call + 1, 0>>
    BY <1>1, PairType
  <2>2. Pkt("OPEN", base_id + 1, 0, d) \in Packet
    BY <1>1, PacketType
  <2> QED BY <2>1, <2>2
<1> QED BY <1>2, <1>3, <1>4

LEMMA DataType ==
  ASSUME TypeOK, NEW d \in Data, data' = [data EXCEPT ![call] = Append(@, d)] \/ UNCHANGED data
  PROVE  data' \in [Calls -> Seq(Data)]
<1>1. data \in [Calls -> Seq(Data)]
  BY DEF TypeOK
<1>2. CASE call \in Calls
  <2>1. Append(data[call], d) \in Seq(Data)
    BY <1>1, <1>2, AppendProperties
  <2> QED BY <1>1, <2>1
<1>3. CASE call \notin Calls
  BY <1>1, <1>3
<1> QED BY <1>2, <1>3

LEMMA EndsType ==
  ASSUME TypeOK, NEW how \in {"returned", "refused", "raised"}, Ends(how) \/ Raises(how)
  PROVE  /\ pc' \in {"idle", "stranded"}
         /\ status' = [status EXCEPT ![call] = how]
         /\ status' \in [Calls -> {"none", "returned", "refused", "raised"}]
<1>1. status' = [status EXCEPT ![call] = how] /\ pc' \in {"idle", "stranded"}
  BY DEF Ends, Raises
<1> QED BY <1>1 DEF TypeOK

LEMMA CallType ==
  ASSUME TypeOK, Call
  PROVE  WireTypeOK' /\ HostTypeOK'
<1>1. HostTypeOK
  BY TypeParts
<1>2. /\ call + 1 \in Calls /\ call' = call + 1 /\ call' \in 0..MaxCalls
      /\ UNCHANGED <<inp, stream, active, step, status, data>>
  BY <1>1, MyAdbAssumption DEF Call, HostTypeOK, Calls
<1>3. PICK k \in Kinds :
        /\ kind' = [kind EXCEPT ![call + 1] = k]
        /\ IF k = "active" /\ active # NoIds
             THEN /\ pc' = "command" /\ local_id' = active.local /\ remote_id' = active.remote
                  /\ UNCHANGED <<base_id, out>>
             ELSE /\ pc' = "answer" /\ base_id' = base_id + 1 /\ local_id' = base_id + 1
                  /\ Send(Pkt("OPEN", base_id + 1, 0, <<call + 1, 0>>))
                  /\ UNCHANGED remote_id
  BY DEF Call
<1>4. kind' \in [Calls -> Kinds \cup {"none"}]
  BY <1>1, <1>3 DEF HostTypeOK
<1>5. out' \in Seq(Packet)
  BY <1>3, HostPackets, SendType, StreamType
<1>6. /\ pc' \in {"command", "answer"} /\ base_id' \in Nat /\ local_id' \in Nat
      /\ remote_id' \in Nat
  <2>1. CASE k = "active" /\ active # NoIds
    BY <1>1, <1>3, <2>1 DEF HostTypeOK
  <2>2. CASE ~(k = "active" /\ active # NoIds)
    BY <1>1, <1>3, <2>2 DEF HostTypeOK
  <2> QED BY <2>1, <2>2
<1>7. inp' \in Seq(Transfer) /\ stream' \in [RemoteIds -> Stream]
  BY <1>2, StreamType
<1>8. /\ active' \in [local : Nat, remote : Nat] /\ step' \in Nat
      /\ status' \in [Calls -> {"none", "returned", "refused", "raised"}]
      /\ data' \in [Calls -> Seq(Data)]
  BY <1>1, <1>2 DEF HostTypeOK
<1> QED BY <1>2, <1>4, <1>5, <1>6, <1>7, <1>8 DEF WireTypeOK, HostTypeOK

LEMMA NextStepType ==
  ASSUME TypeOK, NextStep
  PROVE  /\ step' = step + 1 /\ step' \in Nat
         /\ \/ pc' = "idle" /\ status' = [status EXCEPT ![call] = "returned"]
            \/ UNCHANGED <<pc, status>>
         /\ status' \in [Calls -> {"none", "returned", "refused", "raised"}]
<1>1. step \in Nat /\ status \in [Calls -> {"none", "returned", "refused", "raised"}]
  BY DEF TypeOK
<1>2. step' = step + 1 /\ (Ends("returned") \/ UNCHANGED <<pc, status>>)
  BY DEF NextStep
<1>3. CASE Ends("returned")
  <2>1. pc' = "idle" /\ status' = [status EXCEPT ![call] = "returned"]
    BY <1>3 DEF Ends
  <2>2. status' \in [Calls -> {"none", "returned", "refused", "raised"}]
    BY <1>1, <2>1
  <2>3. step' \in Nat
    BY <1>1, <1>2
  <2> QED BY <1>2, <2>1, <2>2, <2>3
<1>4. CASE UNCHANGED <<pc, status>>
  BY <1>1, <1>2, <1>4
<1> QED BY <1>2, <1>3, <1>4

LEMMA DeviceType ==
  ASSUME TypeOK, Device
  PROVE  WireTypeOK' /\ HostTypeOK'
<1>1. HostTypeOK
  BY TypeParts
<1>2. /\ out \in Seq(Packet) /\ stream \in [RemoteIds -> Stream] /\ inp \in Seq(Transfer)
  BY StreamType
<1>3. CASE OpenAnswer
  <2>1. inp' \in Seq(Transfer) /\ Incoming.arg0 \in Nat
    BY <1>3, HostReadType DEF OpenAnswer
  <2>2. UNCHANGED <<out, stream, call, kind, base_id, local_id, active, data>>
    BY <1>3 DEF OpenAnswer
  <2>3. \/ UNCHANGED <<pc, remote_id, step, status>>
        \/ Raises("refused") /\ UNCHANGED <<remote_id, step>>
        \/ /\ remote_id' = Incoming.arg0 /\ pc' \in {"read", "prompt", "script"}
           /\ step' = 0 /\ UNCHANGED status
    BY <1>3 DEF OpenAnswer
  <2>4. /\ pc' \in {"idle", "answer", "read", "script", "prompt", "command", "output", "stranded"}
        /\ status' \in [Calls -> {"none", "returned", "refused", "raised"}]
        /\ remote_id' \in Nat /\ step' \in Nat
    BY <1>1, <2>1, <2>3, EndsType DEF HostTypeOK
  <2> QED BY <1>1, <1>2, <2>1, <2>2, <2>4 DEF WireTypeOK, HostTypeOK
<1>4. CASE ReadOutput
  <2>1. inp' \in Seq(Transfer) /\ Incoming.data \in Data
    BY <1>4, HostReadType DEF ReadOutput
  <2>2. UNCHANGED <<stream, call, kind, base_id, local_id, remote_id, active, step>>
    BY <1>4 DEF ReadOutput
  <2>3. Send(Ack) \/ Send(CloseMsg) \/ UNCHANGED out
    BY <1>4 DEF ReadOutput
  <2>4. out' \in Seq(Packet)
    BY <1>2, <2>3, HostPackets, SendType
  <2>5. data' \in [Calls -> Seq(Data)]
    BY <1>4, <2>1, DataType DEF ReadOutput
  <2>6. /\ pc' \in {"idle", "answer", "read", "script", "prompt", "command", "output", "stranded"}
        /\ status' \in [Calls -> {"none", "returned", "refused", "raised"}]
    BY <1>1, <1>4, EndsType DEF HostTypeOK, ReadOutput
  <2> QED BY <1>1, <1>2, <2>1, <2>2, <2>4, <2>5, <2>6 DEF WireTypeOK, HostTypeOK
<1>5. CASE ReadScript
  <2>1. inp' \in Seq(Transfer) /\ Incoming.data \in Data
    BY <1>5, HostReadType DEF ReadScript
  <2>2. UNCHANGED <<out, stream, call, kind, base_id, local_id, remote_id, active>>
    BY <1>5 DEF ReadScript
  <2>3. data' \in [Calls -> Seq(Data)]
    BY <1>5, <2>1, DataType DEF ReadScript
  <2>4. /\ pc' \in {"idle", "answer", "read", "script", "prompt", "command", "output", "stranded"}
        /\ status' \in [Calls -> {"none", "returned", "refused", "raised"}]
        /\ step' \in Nat
    BY <1>1, <1>5, NextStepType DEF HostTypeOK, ReadScript
  <2> QED BY <1>1, <1>2, <2>1, <2>2, <2>3, <2>4 DEF WireTypeOK, HostTypeOK
<1>6. CASE SendScript
  <2>1. UNCHANGED <<inp, stream, call, kind, base_id, local_id, remote_id, active, data>>
    BY <1>6 DEF SendScript
  <2>2. Send(Ack) \/ Send(CloseMsg) \/ Send(WriteMsg(step + 1))
    BY <1>6 DEF SendScript
  <2>3. step + 1 \in Nat
    BY <1>1 DEF HostTypeOK
  <2>4. out' \in Seq(Packet)
    BY <2>2, <2>3, HostPackets, SendType
  <2>5. /\ pc' \in {"idle", "answer", "read", "script", "prompt", "command", "output", "stranded"}
        /\ status' \in [Calls -> {"none", "returned", "refused", "raised"}]
        /\ step' \in Nat
    BY <1>1, <1>6, NextStepType DEF HostTypeOK, SendScript
  <2> QED BY <1>1, <1>2, <2>1, <2>4, <2>5 DEF WireTypeOK, HostTypeOK
<1>7. CASE ReadPrompt
  <2>1. inp' \in Seq(Transfer) /\ out' \in Seq(Packet)
    BY <1>7, HostReadType, HostPackets, SendType DEF ReadPrompt
  <2>2. /\ UNCHANGED <<stream, call, kind, base_id, local_id, remote_id, step, status, data>>
        /\ active' = [local |-> local_id, remote |-> remote_id] /\ pc' = "command"
    BY <1>7 DEF ReadPrompt
  <2>3. active' \in [local : Nat, remote : Nat]
    BY <1>1, <2>2 DEF HostTypeOK
  <2> QED BY <1>1, <1>2, <2>1, <2>2, <2>3 DEF WireTypeOK, HostTypeOK
<1>8. CASE SendCommand
  <2>1. out' \in Seq(Packet)
    BY <1>8, HostPackets, SendType DEF SendCommand
  <2>2. /\ UNCHANGED <<inp, stream, call, kind, base_id, local_id, remote_id, active, step,
                       status, data>>
        /\ pc' = "output"
    BY <1>8 DEF SendCommand
  <2> QED BY <1>1, <1>2, <2>1, <2>2 DEF WireTypeOK, HostTypeOK
<1>9. CASE ReadCommandOutput
  <2>1. inp' \in Seq(Transfer) /\ Incoming.data \in Data
    BY <1>9, HostReadType DEF ReadCommandOutput
  <2>2. UNCHANGED <<stream, call, kind, base_id, local_id, remote_id, active, step>>
    BY <1>9 DEF ReadCommandOutput
  <2>3. Send(Ack) \/ UNCHANGED out
    BY <1>9 DEF ReadCommandOutput
  <2>4. out' \in Seq(Packet)
    BY <1>2, <2>3, HostPackets, SendType
  <2>5. data' \in [Calls -> Seq(Data)]
    BY <1>9, <2>1, DataType DEF ReadCommandOutput
  <2>6. /\ pc' \in {"idle", "answer", "read", "script", "prompt", "command", "output", "stranded"}
        /\ status' \in [Calls -> {"none", "returned", "refused", "raised"}]
    BY <1>1, <1>9, EndsType DEF HostTypeOK, ReadCommandOutput
  <2> QED BY <1>1, <1>2, <2>1, <2>2, <2>4, <2>5, <2>6 DEF WireTypeOK, HostTypeOK
<1>10. CASE SkipPacket
  <2>1. inp' \in Seq(Transfer)
    BY <1>10, HostReadType DEF SkipPacket
  <2> QED BY <1>1, <1>2, <1>10, <2>1 DEF WireTypeOK, HostTypeOK, SkipPacket, hostVars
<1>11. CASE Misread
  <2>1. inp' \in Seq(Transfer)
    BY <1>11, HostReadType DEF Misread
  <2>2. UNCHANGED <<out, stream, call, kind, base_id, local_id, remote_id, active, step, data>>
    BY <1>11 DEF Misread
  <2>3. /\ pc' \in {"idle", "answer", "read", "script", "prompt", "command", "output", "stranded"}
        /\ status' \in [Calls -> {"none", "returned", "refused", "raised"}]
    <3>1. CASE Raises("raised")
      BY <3>1, EndsType
    <3>2. CASE UNCHANGED <<pc, status>>
      BY <1>1, <3>2 DEF HostTypeOK
    <3> QED BY <1>11, <3>1, <3>2 DEF Misread
  <2> QED BY <1>1, <1>2, <2>1, <2>2, <2>3 DEF WireTypeOK, HostTypeOK
<1> QED
  BY <1>3, <1>4, <1>5, <1>6, <1>7, <1>8, <1>9, <1>10, <1>11 DEF Device

LEMMA TypeStep == TypeOK /\ [Next]_vars => TypeOK'
<1> SUFFICES ASSUME TypeOK, [Next]_vars PROVE TypeOK'
  OBVIOUS
<1>1. WireTypeOK /\ HostTypeOK /\ failed \subseteq RemoteIds /\ cut \subseteq 0..MaxCalls
  BY TypeParts
<1>2. ASSUME WireTypeOK', HostTypeOK', failed' \subseteq RemoteIds, cut' \subseteq 0..MaxCalls
      PROVE  TypeOK'
  BY <1>2 DEF TypeOK, HostTypeOK
<1>3. CASE Adbd /\ UNCHANGED hostVars
  <2>1. WireTypeOK' /\ failed' \subseteq RemoteIds
    BY <1>3, AdbdType DEF WireTypeOK
  <2>2. HostTypeOK'
    BY <1>1, <1>3 DEF HostTypeOK, hostVars
  <2>3. cut' \subseteq 0..MaxCalls
    BY <1>1, <1>3 DEF Adbd, envVars, HostTypeOK
  <2> QED BY <1>2, <2>1, <2>2, <2>3
<1>4. CASE (Call \/ Device) /\ UNCHANGED envVars
  BY <1>1, <1>2, <1>4, CallType, DeviceType DEF envVars
<1>5. CASE UNCHANGED vars
  BY <1>1, <1>2, <1>5 DEF WireTypeOK, HostTypeOK, vars, wireVars, hostVars, envVars
<1> QED BY <1>3, <1>4, <1>5 DEF Next

LEMMA TypeInit == Init => TypeOK
<1> SUFFICES ASSUME Init PROVE TypeOK
  OBVIOUS
<1>1. WireTypeOK
  <2>1. NoStream \in Stream
    <3>1. <<>> \in Seq(Data)
      OBVIOUS
    <3> QED BY <3>1, NoDataType DEF NoStream, Stream
  <2>2. /\ stream = [r \in RemoteIds |-> NoStream] /\ out = <<>> /\ inp = <<>>
    BY DEF Init, WireInit
  <2> QED BY <2>1, <2>2 DEF WireTypeOK
<1>2. HostTypeOK
  <2>1. <<>> \in Seq(Data)
    OBVIOUS
  <2> QED BY <2>1, MyAdbAssumption DEF Init, HostTypeOK, Kinds, NoIds
<1> QED BY <1>1, <1>2, TypeParts DEF Init

-----------------------------------------------------------------------------
(* What no step of adbd does to a stream.                                  *)
Kept(r) ==
  /\ stream[r].st # "none" =>
       /\ stream'[r].st # "none"
       /\ stream'[r].service = stream[r].service /\ stream'[r].peer = stream[r].peer
       /\ Len(stream'[r].got) >= Len(stream[r].got)
       /\ stream'[r].sent >= stream[r].sent
  /\ stream[r].st = "closed" =>
       stream'[r].st = "closed" /\ stream'[r].sent = stream[r].sent

LEMMA KeptSame ==
  ASSUME TypeOK, NEW r \in RemoteIds, stream'[r] = stream[r]
  PROVE  Kept(r)
<1>1. Len(stream[r].got) \in Nat /\ stream[r].sent \in Nat
  BY StreamParts
<1> QED BY <1>1 DEF Kept

LEMMA KeptBecomes ==
  ASSUME TypeOK, NEW r \in RemoteIds, NEW st, NEW sent, NEW got, Becomes(r, st, sent, got),
         st # "none", stream[r].st = "closed" => st = "closed" /\ sent = stream[r].sent,
         sent = stream[r].sent \/ sent = stream[r].sent + 1,
         got = stream[r].got \/ \E d \in Data : got = Append(stream[r].got, d)
  PROVE  Kept(r)
<1>1. stream[r].got \in Seq(Data) /\ Len(stream[r].got) \in Nat
  BY StreamParts
<1>2. Len(got) >= Len(stream[r].got)
  <2>1. CASE got = stream[r].got
    BY <1>1, <2>1
  <2>2. ASSUME NEW d \in Data, got = Append(stream[r].got, d)
        PROVE  Len(got) >= Len(stream[r].got)
    BY <1>1, <2>2, AppendItems
  <2> QED BY <2>1, <2>2
<1>3. sent >= stream[r].sent
  <2>1. stream[r].sent \in Nat
    BY StreamParts
  <2> QED BY <2>1
<1> QED BY <1>2, <1>3 DEF Kept, Becomes

LEMMA PacketKeeps ==
  ASSUME TypeOK, DevPacket, NEW r \in RemoteIds
  PROVE  Kept(r)
<1>1. stream[r].st \in {"none", "ready", "waitack", "closed"}
  BY StreamParts
<1>2. CASE DevOpen
  <2>1. CASE UNCHANGED stream
    BY <2>1, KeptSame
  <2>2. ASSUME NEW q \in RemoteIds, stream[q].st = "none",
               \A x \in RemoteIds : x # q => stream'[x] = stream[x]
        PROVE  Kept(r)
    <3>1. CASE r = q
      BY <2>2, <3>1 DEF Kept
    <3>2. CASE r # q
      BY <2>2, <3>2, KeptSame
    <3> QED BY <3>1, <3>2
  <2> QED BY <1>2, <2>1, <2>2, OpenDoes
<1>3. CASE DevAck
  <2>1. CASE r = Frame.arg1
    <3> DEFINE st == IF stream[r].st = "waitack" THEN "ready" ELSE stream[r].st
    <3>1. Becomes(r, st, stream[r].sent, stream[r].got)
      BY <1>3, <2>1, AckDoes
    <3>2. CASE stream[r].st = "none"
      BY <3>2 DEF Kept
    <3>3. CASE stream[r].st # "none"
      <4>1. st # "none" /\ (stream[r].st = "closed" => st = "closed")
        BY <1>1, <3>3
      <4> HIDE DEF st
      <4> QED BY <3>1, <4>1, KeptBecomes
    <3> QED BY <3>2, <3>3
  <2>2. CASE r # Frame.arg1
    BY <1>3, <2>2, AckDoes, KeptSame
  <2> QED BY <2>1, <2>2
<1>4. CASE DevHostWrite
  <2>1. out # <<>>
    BY <1>4 DEF DevHostWrite, Receives
  <2>2. Frame.data \in Data
    BY <2>1, OutParts
  <2>3. CASE r = Frame.arg1 /\ IsOpen(r)
    <3>1. Becomes(r, stream[r].st, stream[r].sent, Append(stream[r].got, Frame.data))
      BY <1>4, <2>3, WriteDoes
    <3>2. stream[r].st # "none" /\ stream[r].st # "closed"
      BY <2>3 DEF IsOpen
    <3> QED BY <2>2, <3>1, <3>2, KeptBecomes
  <2>4. CASE ~(r = Frame.arg1 /\ IsOpen(r))
    <3>1. stream'[r] = stream[r]
      BY <1>4, <2>4, WriteDoes
    <3> QED BY <3>1, KeptSame
  <2> QED BY <2>3, <2>4
<1>5. CASE DevCloseRequest
  <2>1. CASE r = Frame.arg1 /\ IsOpen(r)
    <3>1. Becomes(r, "closed", stream[r].sent, stream[r].got)
      BY <1>5, <2>1, CloseDoes
    <3> QED BY <3>1, KeptBecomes
  <2>2. CASE ~(r = Frame.arg1 /\ IsOpen(r))
    <3>1. stream'[r] = stream[r]
      BY <1>5, <2>2, CloseDoes
    <3> QED BY <3>1, KeptSame
  <2> QED BY <2>1, <2>2
<1> QED BY <1>2, <1>3, <1>4, <1>5 DEF DevPacket

LEMMA SaysKeeps ==
  ASSUME TypeOK, NEW q \in RemoteIds, DevStreamWrite(q) \/ DevStreamEnd(q), NEW r \in RemoteIds
  PROVE  Kept(r)
<1>1. CASE DevStreamWrite(q)
  <2>1. stream[q].st = "ready" /\ Becomes(q, "waitack", stream[q].sent + 1, stream[q].got)
    BY <1>1, SaysDoes
  <2>2. Kept(q)
    BY <2>1, KeptBecomes
  <2>3. r # q => Kept(r)
    BY <2>1, KeptSame DEF Becomes
  <2> QED BY <2>2, <2>3
<1>2. CASE DevStreamEnd(q)
  <2>1. Becomes(q, "closed", stream[q].sent, stream[q].got)
    BY <1>2, EndDoes
  <2>2. Kept(q)
    BY <2>1, KeptBecomes
  <2>3. r # q => Kept(r)
    BY <2>1, KeptSame DEF Becomes
  <2> QED BY <2>2, <2>3
<1> QED BY <1>1, <1>2

(* A step of adbd is that of a packet or of one service.                   *)
LEMMA AdbdKeeps ==
  ASSUME TypeOK, Adbd, NEW r \in RemoteIds
  PROVE  /\ Kept(r)
         /\ r \in failed' => r \in failed \/ (IsOpen(r) /\ Service(r) = "push" /\ ~HasAll(r))
<1>1. CASE DevPacket /\ UNCHANGED failed
  BY <1>1, PacketKeeps
<1>4. ASSUME NEW q \in RemoteIds, ShellExits(q), UNCHANGED failed
      PROVE  Kept(r) /\ UNCHANGED failed
  BY <1>4, SaysKeeps DEF ShellExits
<1>2. ASSUME NEW q \in RemoteIds,
             (ServiceAnswer(q) \/ ServiceWrite(q) \/ ServiceEnd(q)) /\ UNCHANGED failed
      PROVE  Kept(r) /\ UNCHANGED failed
  BY <1>2, SaysKeeps DEF ServiceAnswer, ServiceWrite, ServiceEnd
<1>3. ASSUME NEW q \in RemoteIds, IsOpen(q), ServiceFails(q), failed' = failed \cup {q}
      PROVE  Kept(r) /\ (r \in failed' => r \in failed \/ (IsOpen(r) /\ Service(r) = "push" /\ ~HasAll(r)))
  <2>1. Kept(r)
    BY <1>3, SaysKeeps DEF ServiceFails
  <2>2. IsOpen(q) /\ Service(q) = "push" /\ ~HasAll(q)
    BY <1>3 DEF ServiceFails
  <2> QED BY <1>3, <2>1, <2>2
<1> QED BY <1>1, <1>2, <1>3, <1>4 DEF Adbd, envVars

LEMMA FailedStep ==
  ASSUME TypeOK, FailedOpened, Adbd
  PROVE  FailedOpened'
<1> SUFFICES ASSUME NEW r \in failed' PROVE stream'[r].st # "none"
  BY DEF FailedOpened
<1>1. r \in RemoteIds
  BY AdbdType
<1>2. Kept(r) /\ (r \in failed \/ IsOpen(r))
  BY <1>1, AdbdKeeps
<1>3. stream[r].st # "none"
  BY <1>2 DEF FailedOpened, IsOpen
<1> QED BY <1>2, <1>3 DEF Kept

-----------------------------------------------------------------------------
(* The results of earlier calls.                                           *)
LEMMA ServiceIs ==
  ASSUME NEW r \in RemoteIds, NEW c, stream[r].service = <<c, 0>>
  PROVE  Service(r) = kind[c]
BY DEF Service

LEMMA AdbdResults ==
  ASSUME TypeOK, Results, Adbd, UNCHANGED hostVars
  PROVE  Results'
<1> SUFFICES ASSUME NEW c \in Calls, status'[c] = "returned", Orderly(c)'
             PROVE  ResultOf(c)'
  BY DEF Results
<1>1. UNCHANGED <<kind, status, data>>
  BY DEF hostVars
<1>2. ResultOf(c)
  <2>1. Orderly(c)
    BY <1>1 DEF Orderly, Adbd, envVars
  <2> QED BY <1>1, <2>1 DEF Results
<1>3. PICK r \in RemoteIds :
        /\ stream[r].service = <<c, 0>> /\ stream[r].st # "none"
        /\ kind[c] = "shell" =>
             stream[r].st = "closed" /\ data[c] = [i \in 1..stream[r].sent |-> <<r, i>>]
        /\ kind[c] = "push" => Got(r) >= Records /\ r \notin failed /\ data[c] = << <<r, 1>> >>
        /\ kind[c] = "active" =>
             \E n \in 2..stream[r].sent :
               /\ data[c] = [i \in 1..n - 1 |-> <<r, i + 1>>]
               /\ \A i \in 2..n : <<r, i>> \in Prompts <=> i = n
  BY <1>2 DEF ResultOf
<1>4. Kept(r)
  BY AdbdKeeps
<1>5. stream'[r].service = <<c, 0>> /\ stream'[r].st # "none"
  BY <1>3, <1>4 DEF Kept
<1>6. kind[c] = "shell" =>
        stream'[r].st = "closed" /\ data[c] = [i \in 1..stream'[r].sent |-> <<r, i>>]
  BY <1>3, <1>4 DEF Kept
<1>7. ASSUME kind[c] = "push"
      PROVE  Len(stream'[r].got) >= Records /\ r \notin failed' /\ data[c] = << <<r, 1>> >>
  <2>1. Service(r) = "push"
    BY <1>3, <1>7, ServiceIs
  <2>2. Got(r) >= Records /\ r \notin failed
    BY <1>3, <1>7
  <2>3. HasAll(r)
    BY <2>1, <2>2 DEF HasAll
  <2>4. r \notin failed'
    BY <2>2, <2>3, AdbdKeeps
  <2>5. stream' \in [RemoteIds -> Stream]
    BY AdbdType
  <2>6. Len(stream'[r].got) \in Nat /\ Len(stream[r].got) \in Nat
    BY <2>5, StreamParts DEF Stream
  <2>7. Len(stream'[r].got) >= Records
    BY <1>3, <1>4, <2>2, <2>6, MyAdbAssumption DEF Kept, Got
  <2> QED BY <1>3, <1>7, <2>4, <2>7
<1>8. kind[c] = "active" =>
        \E n \in 2..stream'[r].sent :
          /\ data[c] = [i \in 1..n - 1 |-> <<r, i + 1>>]
          /\ \A i \in 2..n : <<r, i>> \in Prompts <=> i = n
  <2>1. stream'[r].sent \in Nat /\ stream[r].sent \in Nat
    BY AdbdType, StreamParts DEF Stream
  <2>2. stream'[r].sent >= stream[r].sent
    BY <1>3, <1>4 DEF Kept
  <2>3. 2..stream[r].sent \subseteq 2..stream'[r].sent
    BY <2>1, <2>2
  <2> QED BY <1>3, <2>3
<1> QED BY <1>1, <1>3, <1>5, <1>6, <1>7, <1>8 DEF ResultOf, Got

LEMMA SameResult ==
  ASSUME NEW c \in Calls, ResultOf(c), UNCHANGED <<stream, failed, kind>>, data'[c] = data[c]
  PROVE  ResultOf(c)'
<1>1. PICK r \in RemoteIds :
        /\ stream[r].service = <<c, 0>> /\ stream[r].st # "none"
        /\ kind[c] = "shell" =>
             stream[r].st = "closed" /\ data[c] = [i \in 1..stream[r].sent |-> <<r, i>>]
        /\ kind[c] = "push" => Got(r) >= Records /\ r \notin failed /\ data[c] = << <<r, 1>> >>
        /\ kind[c] = "active" =>
             \E n \in 2..stream[r].sent :
               /\ data[c] = [i \in 1..n - 1 |-> <<r, i + 1>>]
               /\ \A i \in 2..n : <<r, i>> \in Prompts <=> i = n
  BY DEF ResultOf
<1>2. Got(r)' = Got(r)
  BY DEF Got
<1>3. kind'[c] = "active" =>
        \E n \in 2..stream'[r].sent :
          /\ data'[c] = [i \in 1..n - 1 |-> <<r, i + 1>>]
          /\ \A i \in 2..n : <<r, i>> \in Prompts <=> i = n
  BY <1>1
<1>4. /\ kind'[c] = "shell" =>
           stream'[r].st = "closed" /\ data'[c] = [i \in 1..stream'[r].sent |-> <<r, i>>]
      /\ kind'[c] = "push" => Got(r)' >= Records /\ r \notin failed' /\ data'[c] = << <<r, 1>> >>
  BY <1>1, <1>2
<1> QED BY <1>1, <1>3, <1>4 DEF ResultOf

LEMMA HostResults ==
  ASSUME TypeOK, CallFacts, Results, UNCHANGED <<stream, envVars, kind>>,
         call \in Calls, status[call] = "none",
         NEW how, status' = [status EXCEPT ![call] = how],
         \A c \in Calls \ {call} : data'[c] = data[c],
         how = "returned" /\ InOrder => \A c \in Calls : c = call => ResultOf(c)'
  PROVE  Results'
<1> SUFFICES ASSUME NEW c \in Calls, status'[c] = "returned", Orderly(c)'
             PROVE  ResultOf(c)'
  BY DEF Results
<1>1. status \in [Calls -> {"none", "returned", "refused", "raised"}] /\ call \in Nat
  BY DEF TypeOK
<1>2. \A b \in 1..c : b \in Calls /\ b \in Nat
  BY MyAdbAssumption DEF Calls
<1>3. \A b \in Calls : status'[b] = IF b = call THEN how ELSE status[b]
  BY <1>1
<1>4. CASE c = call
  <2>1. how = "returned"
    BY <1>3, <1>4
  <2>2. \A b \in 1..call : status[b] # "raised" /\ b \notin cut
    BY <1>2, <1>3, <1>4 DEF Orderly, envVars
  <2>3. InOrder
    BY <2>2 DEF InOrder, Orderly
  <2> QED BY <1>4, <2>1, <2>3
<1>5. CASE c # call
  <2>1. status[c] = "returned"
    BY <1>3, <1>5
  <2>2. Orderly(c)
    BY <1>2, <1>3 DEF Orderly, envVars
  <2>3. ResultOf(c) /\ data'[c] = data[c]
    BY <1>5, <2>1, <2>2 DEF Results
  <2>4. UNCHANGED <<stream, failed, kind>>
    BY DEF envVars
  <2> QED BY <2>3, <2>4, SameResult
<1> QED BY <1>4, <1>5

(* Nothing of a call that has ended is changed.                            *)
LEMMA SameResults ==
  ASSUME TypeOK, CallFacts, Results, UNCHANGED <<stream, envVars, kind, status>>,
         call \in Calls, status[call] = "none", \A c \in Calls \ {call} : data'[c] = data[c]
  PROVE  Results'
<1> SUFFICES ASSUME NEW c \in Calls, status'[c] = "returned", Orderly(c)'
             PROVE  ResultOf(c)'
  BY DEF Results
<1>1. Orderly(c)
  BY DEF Orderly, envVars
<1>2. ResultOf(c) /\ data'[c] = data[c]
  BY <1>1 DEF Results
<1> QED BY <1>2 DEF ResultOf, Got, envVars

LEMMA DataElsewhere ==
  ASSUME TypeOK, NEW d, data' = [data EXCEPT ![call] = d] \/ UNCHANGED data
  PROVE  \A c \in Calls \ {call} : data'[c] = data[c]
BY DEF TypeOK

-----------------------------------------------------------------------------
(* While a call has its stream, adbd speaks on this one only.              *)
LEMMA SilentSays ==
  ASSUME TypeOK, NEW q \in RemoteIds, Silent(q)
  PROVE  /\ ~DevStreamWrite(q)
         /\ ~(IsOpen(q) /\ ServiceEnd(q))
         /\ ~ServiceAnswer(q) /\ ~ServiceWrite(q) /\ ~ServiceFails(q)
<1>1. ~DevStreamWrite(q)
  BY DEF Silent, DevStreamWrite
<1>2. ASSUME IsOpen(q), ServiceEnd(q)
      PROVE  FALSE
  <2>1. IsActive(q)
    BY <1>2 DEF Silent, IsOpen
  <2>2. PICK n \in 1..call : kind[n] = "active" /\ stream[q].service = <<n, 0>>
    BY <2>1 DEF IsActive
  <2>3. Service(q) = "active"
    BY <2>2, ServiceIs
  <2> QED BY <1>2, <2>3 DEF ServiceEnd
<1> QED BY <1>1, <1>2 DEF ServiceAnswer, ServiceWrite, ServiceFails

LEMMA OnlyPackets ==
  ASSUME TypeOK, AllSilent, Speaks
  PROVE  DevPacket /\ UNCHANGED failed
BY SilentSays DEF AllSilent, Speaks

LEMMA OneSpeaks ==
  ASSUME TypeOK, NEW r \in RemoteIds, OfCall(r), Speaks
  PROVE  /\ Service(r) = kind[call]
         /\ \/ DevPacket /\ UNCHANGED failed
            \/ IsOpen(r) /\ (ServiceAnswer(r) \/ ServiceWrite(r)) /\ UNCHANGED failed
            \/ IsOpen(r) /\ ServiceEnd(r) /\ UNCHANGED failed
            \/ IsOpen(r) /\ ServiceFails(r) /\ failed' = failed \cup {r}
<1>1. Service(r) = kind[call]
  BY ServiceIs DEF OfCall
<1>2. \A q \in RemoteIds \ {r} : Silent(q)
  BY DEF OfCall
<1>3. \A q \in RemoteIds \ {r} :
        /\ ~(IsOpen(q) /\ ServiceEnd(q))
        /\ ~ServiceAnswer(q) /\ ~ServiceWrite(q) /\ ~ServiceFails(q)
  BY <1>2, SilentSays
<1> QED BY <1>1, <1>3 DEF Speaks

LEMMA OthersSilent ==
  ASSUME TypeOK, NEW r \in RemoteIds, OfCall(r), UNCHANGED <<call, kind, local_id, base_id>>,
         \A q \in RemoteIds : q # r => stream'[q] = stream[q],
         stream'[r].peer = stream[r].peer, stream'[r].service = stream[r].service
  PROVE  OfCall(r)'
BY DEF OfCall, Silent, IsActive

(* The host and its stream, after a step.                                  *)
TalkNext(r, n, before, asked) ==
  /\ inp' = before \o Unread(r, n)'
  /\ \E ack \in {<<>>, <<AckTo(r)>>} : out' = ack \o asked /\ Turn(r, n, ack)'

LEMMA SameNames ==
  ASSUME NEW r, NEW k, UNCHANGED <<local_id, call>>
  PROVE  /\ Yes(r)' = Yes(r) /\ Goodbye(r)' = Goodbye(r) /\ AckTo(r)' = AckTo(r)
         /\ CloseTo(r)' = CloseTo(r) /\ Chunk(r, k)' = Chunk(r, k) /\ WriteTo(r, k)' = WriteTo(r, k)
BY DEF Yes, Goodbye, AckTo, CloseTo, Chunk, WriteTo

LEMMA SameUnread ==
  ASSUME NEW r, NEW n, UNCHANGED <<local_id, call>>,
         stream'[r].st = "closed" <=> stream[r].st = "closed", stream'[r].sent = stream[r].sent
  PROVE  Unread(r, n)' = Unread(r, n)
<1>1. Goodbye(r)' = Goodbye(r) /\ Chunk(r, n + 1)' = Chunk(r, n + 1)
  BY SameNames
<1>2. Header(Goodbye(r))' = Header(Goodbye(r))
  BY <1>1 DEF Header
<1>3. Transfers(Chunk(r, n + 1))' = Transfers(Chunk(r, n + 1))
  BY <1>1 DEF Transfers, Header
<1> QED BY <1>2, <1>3 DEF Unread

(* A step of adbd on the stream of the call: it takes an acknowledgement,  *)
(* or the stream writes a chunk or ends, and the exchange goes on; or it   *)
(* takes what the host asked.                                              *)
Acked(r, n, before, asked) ==
  /\ out # <<>>
  /\ TalkNext(r, n, before, asked)
  /\ (Open(r))' <=> Open(r)
  /\ stream'[r].sent = stream[r].sent /\ stream'[r].got = stream[r].got /\ UNCHANGED failed
Said(r, n, before, asked) ==
  /\ TalkNext(r, n, before, asked)
  /\ stream[r].st = "ready" /\ stream[r].sent = n
  /\ stream'[r].st = "waitack" /\ stream'[r].sent = n + 1 /\ stream'[r].got = stream[r].got
  /\ out = <<>> \o asked /\ UNCHANGED out
  /\ inp = before /\ inp' = inp \o Transfers(Chunk(r, n + 1))
  /\ \/ (ServiceAnswer(r) \/ ServiceWrite(r)) /\ UNCHANGED failed
     \/ ServiceFails(r) /\ failed' = failed \cup {r}
Finished(r, n, before, asked) ==
  /\ TalkNext(r, n, before, asked)
  /\ ServiceEnd(r) /\ Open(r)
  /\ stream'[r].st = "closed" /\ stream'[r].sent = stream[r].sent
  /\ stream'[r].got = stream[r].got /\ UNCHANGED <<out, failed>>
Taken(r, n, asked) ==
  /\ out = asked /\ out' = <<>> /\ Turn(r, n, <<>>) /\ UNCHANGED failed
  /\ stream'[r].sent = stream[r].sent
  /\ Head(asked).cmd = "WRTE" /\ Open(r) =>
       /\ stream'[r].st = stream[r].st
       /\ stream'[r].got = Append(stream[r].got, Head(asked).data)
       /\ inp' = inp \o <<Header(Yes(r))>>
  /\ Head(asked).cmd = "WRTE" /\ ~Open(r) =>
       UNCHANGED inp /\ stream'[r].st = stream[r].st /\ stream'[r].got = stream[r].got
  /\ Head(asked).cmd = "CLSE" /\ Open(r) =>
       /\ stream'[r].st = "closed" /\ stream'[r].got = stream[r].got
       /\ inp' = inp \o <<Header(Goodbye(r))>>

LEMMA IsOpenOpen ==
  ASSUME TypeOK, NEW r \in RemoteIds, stream[r].st # "none"
  PROVE  IsOpen(r) <=> Open(r)
<1>1. stream[r].st \in {"none", "ready", "waitack", "closed"}
  BY StreamParts
<1> QED BY <1>1 DEF IsOpen, Open

LEMMA AppendUnread ==
  ASSUME TypeOK, NEW before \in Seq(Transfer), NEW s \in Seq(Transfer), NEW t \in Seq(Transfer),
         inp = before \o s
  PROVE  inp \o t = before \o (s \o t)
BY CatAssoc

LEMMA TalkAck ==
  ASSUME TypeOK, NEW r \in RemoteIds, NEW n \in Nat, NEW before \in Seq(Transfer),
         NEW asked,
         asked = <<>> \/ \E p \in Packet : asked = <<p>> /\ p.cmd # "OKAY" /\ p.arg1 = r,
         Talk(r, n, before, asked), DevAck, UNCHANGED <<call, local_id, failed>>
  PROVE  Acked(r, n, before, asked) /\ Becomes(r, stream'[r].st, stream[r].sent, stream[r].got)
<1>1. out # <<>> /\ Frame.cmd = "OKAY" /\ out' = Tail(out) /\ UNCHANGED inp
  BY AckDoes
<1>2. /\ Head(out) = AckTo(r) /\ Tail(out) = asked
      /\ stream[r].sent = n /\ stream[r].st \in {"waitack", "closed"}
  BY <1>1, TalkOut DEF Frame
<1>3. Frame.arg1 = r
  <2>1. AckTo(r).arg1 = r
    BY Msgs
  <2> QED BY <1>2, <2>1 DEF Frame
<1> DEFINE st == IF stream[r].st = "waitack" THEN "ready" ELSE stream[r].st
<1>4. Becomes(r, st, stream[r].sent, stream[r].got)
  BY <1>3, AckDoes
<1>5. stream'[r].st = st /\ stream'[r].sent = n /\ stream'[r].got = stream[r].got
  BY <1>2, <1>4 DEF Becomes
<1>6. Unread(r, n)' = Unread(r, n)
  BY <1>2, <1>5, SameUnread
<1>7. inp' = before \o Unread(r, n)'
  BY <1>1, <1>6 DEF Talk
<1>8. out' = <<>> \o asked
  <2>1. asked \in Seq(Packet)
    BY <1>1, <1>2, OutParts
  <2> QED BY <1>1, <1>2, <2>1, CatEmpty
<1>9. Turn(r, n, <<>>)'
  BY <1>2, <1>5 DEF Turn
<1>10. TalkNext(r, n, before, asked)
  BY <1>7, <1>8, <1>9 DEF TalkNext
<1> QED BY <1>1, <1>2, <1>4, <1>5, <1>10 DEF Acked, Open

LEMMA TalkSays ==
  ASSUME TypeOK, NEW r \in RemoteIds, NEW n \in Nat, NEW before \in Seq(Transfer),
         NEW asked, Talk(r, n, before, asked),
         stream[r].peer = local_id, DevStreamWrite(r), UNCHANGED <<call, local_id>>
  PROVE  /\ TalkNext(r, n, before, asked)
         /\ stream[r].st = "ready" /\ stream[r].sent = n
         /\ Becomes(r, "waitack", n + 1, stream[r].got)
         /\ out = <<>> \o asked /\ UNCHANGED out
         /\ inp = before /\ inp' = inp \o Transfers(Chunk(r, n + 1))
<1>1. /\ stream[r].st = "ready" /\ UNCHANGED out
      /\ Becomes(r, "waitack", stream[r].sent + 1, stream[r].got)
      /\ DevWrites(Pkt("WRTE", r, stream[r].peer, <<r, stream[r].sent + 1>>))
  BY SaysDoes
<1>2. stream[r].sent \in Nat
  BY StreamParts
<1>3. PICK ack \in {<<>>, <<AckTo(r)>>} : out = ack \o asked /\ Turn(r, n, ack)
  BY DEF Talk
<1>4. ack = <<>> /\ stream[r].sent = n
  BY <1>1, <1>3 DEF Turn
<1>5. inp' = inp \o Transfers(Chunk(r, n + 1))
  BY <1>1, <1>4 DEF DevWrites, Chunk
<1>6. stream'[r].st = "waitack" /\ stream'[r].sent = n + 1
  BY <1>1, <1>4 DEF Becomes
<1>7. Unread(r, n)' = Transfers(Chunk(r, n + 1))
  <2>1. Chunk(r, n + 1)' = Chunk(r, n + 1)
    BY SameNames
  <2>2. Transfers(Chunk(r, n + 1))' = Transfers(Chunk(r, n + 1))
    BY <2>1 DEF Transfers, Header
  <2>3. Unread(r, n)' = Transfers(Chunk(r, n + 1)) \o <<>>
    BY <1>6, <2>2 DEF Unread
  <2>4. n + 1 \in Nat
    OBVIOUS
  <2>5. Transfers(Chunk(r, n + 1)) \in Seq(Transfer)
    BY <2>4, Msgs, TransfersType
  <2> QED BY <2>3, <2>5, CatEmpty
<1>8. inp = before
  <2>1. Unread(r, n) = <<>>
    <3>1. stream[r].sent <= n /\ stream[r].st # "closed"
      BY <1>1, <1>2, <1>4
    <3> QED BY <3>1, UnreadIs
  <2> QED BY <2>1, CatEmpty DEF Talk
<1>9. Turn(r, n, <<>>)'
  BY <1>6 DEF Turn
<1>10. out' = <<>> \o asked
  BY <1>1, <1>3, <1>4
<1>11. TalkNext(r, n, before, asked)
  BY <1>5, <1>7, <1>8, <1>9, <1>10 DEF TalkNext
<1> QED BY <1>1, <1>3, <1>4, <1>5, <1>8, <1>11

LEMMA TalkEnds ==
  ASSUME TypeOK, NEW r \in RemoteIds, NEW n \in Nat, NEW before \in Seq(Transfer),
         NEW asked, Talk(r, n, before, asked),
         stream[r].peer = local_id, DevStreamEnd(r), UNCHANGED <<call, local_id>>
  PROVE  /\ TalkNext(r, n, before, asked)
         /\ Open(r) /\ UNCHANGED out
         /\ Becomes(r, "closed", stream[r].sent, stream[r].got)
<1>1. /\ IsOpen(r) /\ UNCHANGED out
      /\ Becomes(r, "closed", stream[r].sent, stream[r].got)
      /\ DevWrites(Pkt("CLSE", r, stream[r].peer, NoData))
  BY EndDoes
<1>2. stream[r].sent \in Nat /\ Open(r)
  BY <1>1, StreamParts DEF IsOpen, Open
<1>3. PICK ack \in {<<>>, <<AckTo(r)>>} : out = ack \o asked /\ Turn(r, n, ack)
  BY DEF Talk
<1>4. /\ Goodbye(r) \in Packet /\ Goodbye(r).data = NoData
      /\ Chunk(r, n + 1) \in Packet
  <2> n + 1 \in Nat
    OBVIOUS
  <2> QED BY Msgs
<1>5. /\ Transfers(Goodbye(r)) = <<Header(Goodbye(r))>>
      /\ Transfers(Goodbye(r)) \in Seq(Transfer) /\ Transfers(Chunk(r, n + 1)) \in Seq(Transfer)
  BY <1>4, TransfersType
<1>6. inp' = inp \o Transfers(Goodbye(r))
  BY <1>1 DEF DevWrites, Goodbye
<1>7. stream'[r].st = "closed" /\ stream'[r].sent = stream[r].sent
  BY <1>1 DEF Becomes
<1>8. Turn(r, n, ack)'
  <2>1. AckTo(r)' = AckTo(r)
    BY SameNames
  <2> QED BY <1>3, <1>7, <2>1 DEF Turn
<1> DEFINE more == IF stream[r].sent > n THEN Transfers(Chunk(r, n + 1)) ELSE <<>>
<1>9. more \in Seq(Transfer)
  BY <1>5
<1>10. Unread(r, n) = more
  <2>1. Unread(r, n) = more \o <<>>
    BY <1>2 DEF Unread, Open
  <2> QED BY <1>9, <2>1, CatEmpty
<1>11. Unread(r, n)' = more \o Transfers(Goodbye(r))
  <2>1. Goodbye(r)' = Goodbye(r) /\ Chunk(r, n + 1)' = Chunk(r, n + 1)
    BY SameNames
  <2>2. Header(Goodbye(r))' = Header(Goodbye(r))
    BY <2>1 DEF Header
  <2>3. Transfers(Chunk(r, n + 1))' = Transfers(Chunk(r, n + 1))
    BY <2>1 DEF Transfers, Header
  <2> QED BY <1>5, <1>7, <2>2, <2>3 DEF Unread
<1>12. inp = before \o more
  BY <1>10 DEF Talk
<1>13. inp' = before \o Unread(r, n)'
  <2> HIDE DEF more
  <2>1. inp \o Transfers(Goodbye(r)) = before \o (more \o Transfers(Goodbye(r)))
    BY <1>5, <1>9, <1>12, AppendUnread
  <2> QED BY <1>6, <1>11, <2>1
<1>14. TalkNext(r, n, before, asked)
  BY <1>1, <1>3, <1>8, <1>13 DEF TalkNext
<1> QED BY <1>1, <1>2, <1>14

LEMMA TalkTakes ==
  ASSUME TypeOK, NEW r \in RemoteIds, NEW n \in Nat, NEW before \in Seq(Transfer),
         NEW p \in Packet, p.cmd \in {"WRTE", "CLSE"}, p.arg0 = local_id, p.arg1 = r,
         Talk(r, n, before, <<p>>), stream[r].st # "none",
         DevHostWrite \/ DevCloseRequest, UNCHANGED <<call, local_id, failed>>
  PROVE  /\ Taken(r, n, <<p>>)
         /\ Becomes(r, stream'[r].st, stream[r].sent, stream'[r].got)
<1>1. out # <<>> /\ Frame.cmd \in {"WRTE", "CLSE"}
  BY WriteDoes, CloseDoes
<1>2. Frame = p /\ out' = <<>> /\ out = <<p>> /\ Turn(r, n, <<>>)
  <2>1. \E q \in Packet : <<p>> = <<q>> /\ q.cmd # "OKAY"
    OBVIOUS
  <2>2. AckTo(r).cmd = "OKAY"
    BY Msgs
  <2>3. out' = Tail(out)
    BY WriteDoes, CloseDoes
  <2>4. ~(Head(out) = AckTo(r))
    BY <1>1, <2>2 DEF Frame
  <2>5. /\ \E q \in Packet : <<p>> = <<q>> /\ Head(out) = q /\ q.cmd # "OKAY"
        /\ Tail(out) = <<>> /\ out = <<p>> /\ Turn(r, n, <<>>)
    BY <1>1, <2>1, <2>4, TalkOut
  <2> QED BY <2>3, <2>5 DEF Frame
<1>3. IsOpen(r) <=> Open(r)
  BY IsOpenOpen
<1>4. Head(<<p>>) = p
  BY OneItem
<1>5. stream \in [RemoteIds -> Stream]
  BY StreamType
<1>6. CASE DevHostWrite
  <2>1. p.cmd = "WRTE"
    BY <1>2, <1>6, WriteDoes
  <2>2. CASE Open(r)
    <3>1. /\ Becomes(r, stream[r].st, stream[r].sent, Append(stream[r].got, p.data))
          /\ DevWrites(Pkt("OKAY", r, local_id, NoData))
      BY <1>2, <1>3, <1>6, <2>2, WriteDoes
    <3>2. inp' = inp \o <<Header(Yes(r))>>
      <4>1. inp' = inp \o Transfers(Yes(r))
        BY <3>1 DEF DevWrites, Yes
      <4>2. Yes(r) \in Packet /\ Yes(r).data = NoData
        BY Msgs
      <4> QED BY <4>1, <4>2, TransfersType
    <3> QED BY <1>2, <1>4, <2>1, <2>2, <3>1, <3>2 DEF Taken, Becomes
  <2>3. CASE ~Open(r)
    <3>1. UNCHANGED <<stream, inp>>
      BY <1>2, <1>3, <1>6, <2>3, WriteDoes
    <3> QED BY <1>2, <1>4, <1>5, <2>1, <2>3, <3>1 DEF Taken, Becomes
  <2> QED BY <2>2, <2>3
<1>7. CASE DevCloseRequest
  <2>1. p.cmd = "CLSE"
    BY <1>2, <1>7, CloseDoes
  <2>2. CASE Open(r)
    <3>1. /\ Becomes(r, "closed", stream[r].sent, stream[r].got)
          /\ DevWrites(Pkt("CLSE", r, local_id, NoData))
      BY <1>2, <1>3, <1>7, <2>2, CloseDoes
    <3>2. inp' = inp \o <<Header(Goodbye(r))>>
      <4>1. inp' = inp \o Transfers(Goodbye(r))
        BY <3>1 DEF DevWrites, Goodbye
      <4>2. Goodbye(r) \in Packet /\ Goodbye(r).data = NoData
        BY Msgs
      <4> QED BY <4>1, <4>2, TransfersType
    <3> QED BY <1>2, <1>4, <2>1, <2>2, <3>1, <3>2 DEF Taken, Becomes
  <2>3. CASE ~Open(r)
    <3>1. UNCHANGED stream
      BY <1>2, <1>3, <1>7, <2>3, CloseDoes
    <3> QED BY <1>2, <1>4, <1>5, <2>1, <2>3, <3>1 DEF Taken, Becomes
  <2> QED BY <2>2, <2>3
<1> QED BY <1>6, <1>7

(* The host asks nothing, or it has a chunk or the end of a stream to send.*)
Asks(r, asked) ==
  \/ asked = <<>>
  \/ \E p \in Packet : /\ asked = <<p>> /\ p.cmd \in {"WRTE", "CLSE"}
                       /\ p.arg0 = local_id /\ p.arg1 = r

LEMMA DevStep ==
  ASSUME TypeOK, NEW r \in RemoteIds, OfCall(r), stream[r].st # "none",
         NEW n \in Nat, NEW before \in Seq(Transfer), NEW asked, Asks(r, asked),
         Talk(r, n, before, asked), Speaks, UNCHANGED hostVars
  PROVE  /\ OfCall(r)'
         /\ \/ Acked(r, n, before, asked)
            \/ Said(r, n, before, asked)
            \/ Finished(r, n, before, asked)
            \/ asked # <<>> /\ Taken(r, n, asked)
<1>1. UNCHANGED <<call, local_id, kind, base_id>>
  BY DEF hostVars
<1>2. stream[r].peer = local_id
  BY DEF OfCall
<1>3. asked = <<>> \/ \E p \in Packet : asked = <<p>> /\ p.cmd # "OKAY" /\ p.arg1 = r
  BY DEF Asks
<1>4. ASSUME NEW st, NEW sent, NEW got, Becomes(r, st, sent, got)
      PROVE  OfCall(r)'
  BY <1>1, <1>4, OthersSilent DEF Becomes
<1>5. CASE DevAck /\ UNCHANGED failed
  BY <1>1, <1>3, <1>4, <1>5, TalkAck
<1>6. CASE (DevHostWrite \/ DevCloseRequest) /\ UNCHANGED failed
  <2>1. out # <<>> /\ Frame.cmd \in {"WRTE", "CLSE"}
    BY <1>6, WriteDoes, CloseDoes
  <2>2. AckTo(r).cmd = "OKAY"
    BY Msgs
  <2>3. asked # <<>>
    <3>1. asked = <<>> \/ \E p \in Packet : asked = <<p>> /\ p.cmd # "OKAY"
      BY <1>3
    <3>2. ~(Head(out) = AckTo(r))
      BY <2>1, <2>2 DEF Frame
    <3>3. PICK p \in Packet : asked = <<p>>
      BY <2>1, <3>1, <3>2, TalkOut
    <3> QED BY <3>3, OneItem
  <2>4. PICK p \in Packet : /\ asked = <<p>> /\ p.cmd \in {"WRTE", "CLSE"}
                            /\ p.arg0 = local_id /\ p.arg1 = r
    BY <2>3 DEF Asks
  <2>5. Taken(r, n, <<p>>) /\ Becomes(r, stream'[r].st, stream[r].sent, stream'[r].got)
    BY <1>1, <1>6, <2>4, TalkTakes
  <2> QED BY <1>4, <2>3, <2>4, <2>5
<1>7. ~DevOpen
  <2>1. SUFFICES ASSUME DevOpen PROVE FALSE
    OBVIOUS
  <2>2. out # <<>> /\ Frame.cmd = "OPEN"
    BY <2>1, OpenDoes
  <2>3. AckTo(r).cmd = "OKAY"
    BY Msgs
  <2>4. asked = <<>> \/ \E p \in Packet : asked = <<p>> /\ p.cmd # "OKAY"
    BY <1>3
  <2>5. \E p \in Packet : asked = <<p>> /\ Head(out) = p
    BY <2>2, <2>3, <2>4, TalkOut DEF Frame
  <2>6. PICK p \in Packet : asked = <<p>> /\ Head(out) = p
    BY <2>5
  <2>7. p.cmd \in {"WRTE", "CLSE"}
    <3>1. asked # <<>>
      BY <2>6, OneItem
    <3>2. PICK q \in Packet : asked = <<q>> /\ q.cmd \in {"WRTE", "CLSE"}
      BY <3>1 DEF Asks
    <3>3. p = q
      BY <2>6, <3>2, OneItem
    <3> QED BY <3>2, <3>3
  <2> QED BY <2>2, <2>6, <2>7 DEF Frame
<1>8. CASE (ServiceAnswer(r) \/ ServiceWrite(r)) /\ UNCHANGED failed
  <2>1. DevStreamWrite(r)
    BY <1>8 DEF ServiceAnswer, ServiceWrite
  <2>2. /\ TalkNext(r, n, before, asked)
        /\ stream[r].st = "ready" /\ stream[r].sent = n
        /\ Becomes(r, "waitack", n + 1, stream[r].got)
        /\ out = <<>> \o asked /\ UNCHANGED out
        /\ inp = before /\ inp' = inp \o Transfers(Chunk(r, n + 1))
    BY <1>1, <1>2, <2>1, TalkSays
  <2>3. Said(r, n, before, asked)
    BY <1>8, <2>2 DEF Said, Becomes
  <2> QED BY <1>4, <2>2, <2>3
<1>9. CASE ServiceFails(r) /\ failed' = failed \cup {r}
  <2>1. DevStreamWrite(r)
    BY <1>9 DEF ServiceFails
  <2>2. /\ TalkNext(r, n, before, asked)
        /\ stream[r].st = "ready" /\ stream[r].sent = n
        /\ Becomes(r, "waitack", n + 1, stream[r].got)
        /\ out = <<>> \o asked /\ UNCHANGED out
        /\ inp = before /\ inp' = inp \o Transfers(Chunk(r, n + 1))
    BY <1>1, <1>2, <2>1, TalkSays
  <2>3. Said(r, n, before, asked)
    BY <1>9, <2>2 DEF Said, Becomes
  <2> QED BY <1>4, <2>2, <2>3
<1>10. CASE ServiceEnd(r) /\ UNCHANGED failed
  <2>1. DevStreamEnd(r)
    BY <1>10 DEF ServiceEnd
  <2>2. /\ TalkNext(r, n, before, asked) /\ Open(r) /\ UNCHANGED out
        /\ Becomes(r, "closed", stream[r].sent, stream[r].got)
    BY <1>1, <1>2, <2>1, TalkEnds
  <2>3. Finished(r, n, before, asked)
    BY <1>10, <2>2 DEF Finished, Becomes
  <2> QED BY <1>4, <2>2, <2>3
<1> QED
  BY <1>5, <1>6, <1>7, <1>8, <1>9, <1>10, OneSpeaks DEF DevPacket

-----------------------------------------------------------------------------
(* The steps of adbd in each phase of a call.                              *)
LEMMA AsksThese ==
  ASSUME TypeOK, NEW r \in RemoteIds, NEW k \in Nat
  PROVE  /\ Asks(r, <<>>) /\ Asks(r, <<WriteTo(r, k)>>) /\ Asks(r, <<CloseTo(r)>>)
         /\ <<WriteTo(r, k)>> # <<>> /\ <<CloseTo(r)>> # <<>>
         /\ Head(<<WriteTo(r, k)>>) = WriteTo(r, k) /\ Head(<<CloseTo(r)>>) = CloseTo(r)
<1>1. /\ WriteTo(r, k) \in Packet /\ WriteTo(r, k).cmd = "WRTE"
      /\ WriteTo(r, k).arg0 = local_id /\ WriteTo(r, k).arg1 = r
  BY WriteParts
<1>2. /\ CloseTo(r) \in Packet /\ CloseTo(r).cmd = "CLSE"
      /\ CloseTo(r).arg0 = local_id /\ CloseTo(r).arg1 = r
  BY Msgs, Zenon
<1>3. /\ <<WriteTo(r, k)>> # <<>> /\ <<CloseTo(r)>> # <<>>
      /\ Head(<<WriteTo(r, k)>>) = WriteTo(r, k) /\ Head(<<CloseTo(r)>>) = CloseTo(r)
  BY <1>1, <1>2, OneItem
<1> QED BY <1>1, <1>2, <1>3 DEF Asks

LEMMA TalkOpen ==
  ASSUME NEW r, NEW n, NEW before, NEW asked, Talk(r, n, before, asked)
  PROVE  stream[r].st # "none"
BY DEF Talk, Turn

LEMMA TalkForms ==
  ASSUME NEW r, NEW n, UNCHANGED <<local_id, call>>
  PROVE  /\ TalkNext(r, n, <<>>, <<>>) => Talk(r, n, <<>>, <<>>)'
         /\ TalkNext(r, n, <<Header(Yes(r))>>, <<>>) => Talk(r, n, <<Header(Yes(r))>>, <<>>)'
         /\ TalkNext(r, n, <<>>, <<CloseTo(r)>>) => Talk(r, n, <<>>, <<CloseTo(r)>>)'
         /\ \A k : TalkNext(r, n, <<>>, <<WriteTo(r, k)>>) => Talk(r, n, <<>>, <<WriteTo(r, k)>>)'
         /\ step' = step /\ TalkNext(r, n, <<>>, <<WriteTo(r, step)>>) =>
              Talk(r, n, <<>>, <<WriteTo(r, step)>>)'
<1>1. /\ Yes(r)' = Yes(r) /\ AckTo(r)' = AckTo(r) /\ CloseTo(r)' = CloseTo(r)
      /\ \A k : WriteTo(r, k)' = WriteTo(r, k)
  BY SameNames
<1>2. Header(Yes(r))' = Header(Yes(r))
  BY <1>1 DEF Header
<1>3. step' = step => WriteTo(r, step)' = WriteTo(r, step)
  BY DEF WriteTo
<1>4. TalkNext(r, n, <<>>, <<>>) => Talk(r, n, <<>>, <<>>)'
  BY <1>1 DEF Talk, TalkNext
<1>5. TalkNext(r, n, <<Header(Yes(r))>>, <<>>) => Talk(r, n, <<Header(Yes(r))>>, <<>>)'
  BY <1>1, <1>2 DEF Talk, TalkNext
<1>6. TalkNext(r, n, <<>>, <<CloseTo(r)>>) => Talk(r, n, <<>>, <<CloseTo(r)>>)'
  BY <1>1 DEF Talk, TalkNext
<1>7. \A k : TalkNext(r, n, <<>>, <<WriteTo(r, k)>>) => Talk(r, n, <<>>, <<WriteTo(r, k)>>)'
  BY <1>1 DEF Talk, TalkNext
<1>8. step' = step /\ TalkNext(r, n, <<>>, <<WriteTo(r, step)>>) =>
              Talk(r, n, <<>>, <<WriteTo(r, step)>>)'
  BY <1>1, <1>3 DEF Talk, TalkNext
<1> QED BY <1>4, <1>5, <1>6, <1>7, <1>8

(* The answer to what the host has written, or the end it has asked for.   *)
LEMMA TakenTalk ==
  ASSUME TypeOK, NEW r \in RemoteIds, NEW n \in Nat, NEW asked, Talk(r, n, <<>>, asked),
         Taken(r, n, asked), Open(r), stream[r].sent = n, UNCHANGED <<call, local_id>>
  PROVE  /\ Head(asked).cmd = "WRTE" => TalkNext(r, n, <<Header(Yes(r))>>, <<>>) /\ (Open(r))'
         /\ Head(asked).cmd = "CLSE" => TalkNext(r, n, <<>>, <<>>) /\ ~(Open(r))'
<1>1. inp = <<>>
  <2>1. stream[r].sent <= n /\ stream[r].st # "closed"
    BY DEF Open
  <2>2. Unread(r, n) = <<>>
    BY <2>1, UnreadIs
  <2>3. inp = <<>> \o <<>>
    BY <2>2 DEF Talk
  <2> QED BY <2>3
<1>2. Header(Yes(r)) \in Transfer /\ Header(Goodbye(r)) \in Transfer
  BY Msgs, HeaderType
<1>3. <<Header(Yes(r))>> \in Seq(Transfer) /\ <<Header(Goodbye(r))>> \in Seq(Transfer)
  BY <1>2
<1>4. ASSUME Head(asked).cmd = "WRTE"
      PROVE  TalkNext(r, n, <<Header(Yes(r))>>, <<>>) /\ (Open(r))'
  <2>1. /\ out' = <<>> \o <<>> /\ stream'[r].sent = n /\ stream'[r].st = stream[r].st
        /\ inp' = <<>> \o <<Header(Yes(r))>>
    BY <1>1, <1>4 DEF Taken
  <2>2. Unread(r, n)' = <<>> \o <<>>
    BY <2>1 DEF Unread, Open
  <2>3. inp' = <<Header(Yes(r))>> \o Unread(r, n)'
    BY <1>3, <2>1, <2>2, CatEmpty
  <2>4. Turn(r, n, <<>>)'
    BY <2>1 DEF Taken, Turn
  <2> QED BY <2>1, <2>3, <2>4 DEF TalkNext, Open
<1>5. ASSUME Head(asked).cmd = "CLSE"
      PROVE  TalkNext(r, n, <<>>, <<>>) /\ ~(Open(r))'
  <2>1. /\ out' = <<>> \o <<>> /\ stream'[r].sent = n /\ stream'[r].st = "closed"
        /\ inp' = <<>> \o <<Header(Goodbye(r))>>
    BY <1>1, <1>5 DEF Taken
  <2>2. Goodbye(r)' = Goodbye(r)
    BY SameNames
  <2>3. Header(Goodbye(r))' = Header(Goodbye(r))
    BY <2>2 DEF Header
  <2>4. Unread(r, n)' = <<>> \o <<Header(Goodbye(r))>>
    <3>1. n \in Nat /\ ~(n > n)
      OBVIOUS
    <3> QED BY <2>1, <2>3, <3>1 DEF Unread
  <2>5. inp' = <<>> \o Unread(r, n)'
    BY <1>3, <2>1, <2>4, CatEmpty
  <2>6. Turn(r, n, <<>>)'
    BY <2>1 DEF Turn
  <2> QED BY <2>1, <2>5, <2>6 DEF TalkNext, Open
<1> QED BY <1>4, <1>5

LEMMA ServiceSteps ==
  ASSUME TypeOK, NEW r \in RemoteIds
  PROVE  /\ Service(r) = "query" =>
              /\ ServiceAnswer(r) => Got(r) >= 1
              /\ ~ServiceWrite(r) /\ ~ServiceFails(r) /\ ~ServiceEnd(r)
         /\ Service(r) = "push" =>
              /\ ServiceAnswer(r) => Got(r) >= Records /\ stream[r].sent = 0
              /\ ServiceFails(r) => Got(r) > 0 /\ Got(r) < Records /\ stream[r].sent = 0
              /\ ServiceEnd(r) => Got(r) > Records
              /\ ~ServiceWrite(r)
         /\ Service(r) = "active" => ~ServiceFails(r) /\ ~ServiceEnd(r)
         /\ Service(r) = "query" /\ ServiceAnswer(r) => stream[r].sent = 0
<1>1. Got(r) \in Nat
  BY StreamParts
<1> QED
  BY <1>1, MyAdbAssumption DEF ServiceAnswer, ServiceWrite, ServiceFails, ServiceEnd, HasAll

(* adbd waits for the host.                                                *)
LEMMA AdbdWaits ==
  ASSUME TypeOK, NEW r \in RemoteIds, OfCall(r), out = <<>>, stream[r].st # "ready",
         IsOpen(r) => ~ServiceEnd(r)
  PROVE  ~Speaks
<1>1. ~DevPacket
  BY DEF DevPacket, DevOpen, DevAck, DevHostWrite, DevCloseRequest, Receives
<1>2. ~DevStreamWrite(r)
  BY DEF DevStreamWrite
<1> QED
  BY <1>1, <1>2, OneSpeaks DEF ServiceAnswer, ServiceWrite, ServiceFails

(* A stream that has been opened, and what the host has not read.          *)
LEMMA AdbdBegan ==
  ASSUME TypeOK, NEW r \in RemoteIds, Began(r), OfCall(r)', UNCHANGED hostVars,
         NEW n, NEW before, NEW asked,
         \/ Acked(r, n, before, asked)
         \/ Said(r, n, before, asked)
         \/ Finished(r, n, before, asked)
  PROVE  /\ Began(r)' /\ TalkNext(r, n, before, asked)
         /\ out = <<>> => out' = <<>>
<1>1. UNCHANGED kind /\ UNCHANGED call
  BY DEF hostVars
<1>2. OfCall(r) /\ stream[r].got = <<>> /\ r \notin failed
  BY DEF Began
<1>3. Service(r) = kind[call] /\ Got(r) = 0
  BY <1>2, ServiceIs DEF OfCall, Got
<1>4. kind[call] \in {"shell", "query", "push", "active"} \cup {"none"} \/ call \notin Calls
  BY DEF TypeOK, Kinds
<1>5. CASE Acked(r, n, before, asked)
  BY <1>1, <1>2, <1>5 DEF Acked, Began
<1>6. CASE Said(r, n, before, asked)
  <2>1. (ServiceAnswer(r) \/ ServiceWrite(r)) /\ UNCHANGED failed
    BY <1>3, <1>6 DEF Said, ServiceFails
  <2>2. kind[call] \notin {"query", "push"}
    BY <1>3, <2>1, ServiceSteps, MyAdbAssumption
  <2>3. (Open(r))'
    BY <1>6 DEF Said, Open
  <2> QED BY <1>1, <1>2, <1>6, <2>1, <2>2, <2>3 DEF Said, Began
<1>7. CASE Finished(r, n, before, asked)
  <2>1. kind[call] = "shell"
    BY <1>3, <1>7, MyAdbAssumption DEF Finished, ServiceEnd
  <2> QED BY <1>1, <1>2, <1>7, <2>1 DEF Finished, Began
<1> QED BY <1>5, <1>6, <1>7

LEMMA AdbdOpened ==
  ASSUME TypeOK, NEW r \in RemoteIds, Opened(r), Speaks, UNCHANGED hostVars
  PROVE  Opened(r)'
<1>1. Began(r) /\ OfCall(r) /\ out = <<>>
  BY DEF Opened, Began
<1>2. PICK l \in Seq(Transfer) :
        Talk(r, 0, Append(l, Header(Yes(r))), <<>>) /\ LeftIn(l, local_id)
  BY DEF Opened
<1>3. Append(l, Header(Yes(r))) \in Seq(Transfer)
  BY Msgs, HeaderType, AppendItems
<1>4. Asks(r, <<>>) /\ stream[r].st # "none" /\ 0 \in Nat
  BY <1>2, TalkOpen DEF Asks
<1>5. /\ OfCall(r)'
      /\ \/ Acked(r, 0, Append(l, Header(Yes(r))), <<>>)
         \/ Said(r, 0, Append(l, Header(Yes(r))), <<>>)
         \/ Finished(r, 0, Append(l, Header(Yes(r))), <<>>)
  BY <1>1, <1>2, <1>3, <1>4, DevStep
<1>6. /\ Began(r)' /\ TalkNext(r, 0, Append(l, Header(Yes(r))), <<>>) /\ out' = <<>>
  BY <1>1, <1>5, AdbdBegan
<1>7. UNCHANGED <<call, local_id>>
  BY DEF hostVars
<1>8. Header(Yes(r))' = Header(Yes(r)) /\ AckTo(r)' = AckTo(r)
  BY <1>7 DEF Header, Yes, AckTo
<1>9. Talk(r, 0, Append(l, Header(Yes(r))), <<>>)'
  BY <1>6, <1>8 DEF Talk, TalkNext
<1>10. LeftIn(l, local_id)'
  BY <1>2, <1>7 DEF LeftIn, Over
<1> QED BY <1>6, <1>9, <1>10 DEF Opened

LEMMA AdbdTalks ==
  ASSUME TypeOK, NEW r \in RemoteIds, OfCall(r), NEW n \in Nat, Talk(r, n, <<>>, <<>>),
         Speaks, UNCHANGED hostVars
  PROVE  /\ OfCall(r)' /\ Talk(r, n, <<>>, <<>>)'
         /\ \/ Acked(r, n, <<>>, <<>>)
            \/ Said(r, n, <<>>, <<>>)
            \/ Finished(r, n, <<>>, <<>>)
<1>1. Asks(r, <<>>) /\ stream[r].st # "none" /\ <<>> \in Seq(Transfer)
  BY TalkOpen DEF Asks
<1>2. UNCHANGED <<call, local_id>>
  BY DEF hostVars
<1>3. /\ OfCall(r)'
      /\ \/ Acked(r, n, <<>>, <<>>)
         \/ Said(r, n, <<>>, <<>>)
         \/ Finished(r, n, <<>>, <<>>)
  BY <1>1, DevStep
<1>4. TalkNext(r, n, <<>>, <<>>)
  BY <1>3 DEF Acked, Said, Finished
<1> QED BY <1>2, <1>3, <1>4, TalkForms

LEMMA AdbdYes ==
  ASSUME TypeOK, NEW r \in RemoteIds, OfCall(r), NEW n \in Nat,
         Talk(r, n, <<Header(Yes(r))>>, <<>>), Speaks, UNCHANGED hostVars
  PROVE  /\ OfCall(r)' /\ Talk(r, n, <<Header(Yes(r))>>, <<>>)'
         /\ \/ Acked(r, n, <<Header(Yes(r))>>, <<>>)
            \/ Said(r, n, <<Header(Yes(r))>>, <<>>)
            \/ Finished(r, n, <<Header(Yes(r))>>, <<>>)
<1>1. Asks(r, <<>>) /\ stream[r].st # "none" /\ <<Header(Yes(r))>> \in Seq(Transfer)
  <2>1. Header(Yes(r)) \in Transfer
    BY Msgs, HeaderType
  <2> QED BY <2>1, TalkOpen, OneItem DEF Asks
<1>2. UNCHANGED <<call, local_id>>
  BY DEF hostVars
<1>3. /\ OfCall(r)'
      /\ \/ Acked(r, n, <<Header(Yes(r))>>, <<>>)
         \/ Said(r, n, <<Header(Yes(r))>>, <<>>)
         \/ Finished(r, n, <<Header(Yes(r))>>, <<>>)
  BY <1>1, DevStep
<1>4. TalkNext(r, n, <<Header(Yes(r))>>, <<>>)
  BY <1>3 DEF Acked, Said, Finished
<1> QED BY <1>2, <1>3, <1>4, TalkForms

LEMMA AdbdAsked ==
  ASSUME TypeOK, NEW r \in RemoteIds, OfCall(r), NEW n \in Nat, NEW k \in Nat,
         Talk(r, n, <<>>, <<WriteTo(r, k)>>), Open(r), Speaks, UNCHANGED hostVars
  PROVE  /\ OfCall(r)'
         /\ \/ /\ Talk(r, n, <<>>, <<WriteTo(r, k)>>)'
               /\ \/ Acked(r, n, <<>>, <<WriteTo(r, k)>>)
                  \/ Said(r, n, <<>>, <<WriteTo(r, k)>>)
                  \/ Finished(r, n, <<>>, <<WriteTo(r, k)>>)
            \/ /\ stream[r].sent = n => Talk(r, n, <<Header(Yes(r))>>, <<>>)'
               /\ Taken(r, n, <<WriteTo(r, k)>>)
               /\ (Open(r))' /\ Got(r)' = Got(r) + 1
<1>1. /\ Asks(r, <<WriteTo(r, k)>>) /\ stream[r].st # "none" /\ <<>> \in Seq(Transfer)
      /\ Head(<<WriteTo(r, k)>>) = WriteTo(r, k)
  <2>1. stream[r].st # "none"
    BY TalkOpen
  <2>2. Asks(r, <<WriteTo(r, k)>>) /\ Head(<<WriteTo(r, k)>>) = WriteTo(r, k)
    BY AsksThese
  <2> QED BY <2>1, <2>2
<1>2. UNCHANGED <<call, local_id>>
  BY DEF hostVars
<1>3. /\ OfCall(r)'
      /\ \/ Acked(r, n, <<>>, <<WriteTo(r, k)>>)
         \/ Said(r, n, <<>>, <<WriteTo(r, k)>>)
         \/ Finished(r, n, <<>>, <<WriteTo(r, k)>>)
         \/ Taken(r, n, <<WriteTo(r, k)>>)
  BY <1>1, DevStep
<1>4. CASE \/ Acked(r, n, <<>>, <<WriteTo(r, k)>>)
           \/ Said(r, n, <<>>, <<WriteTo(r, k)>>)
           \/ Finished(r, n, <<>>, <<WriteTo(r, k)>>)
  <2>1. TalkNext(r, n, <<>>, <<WriteTo(r, k)>>)
    BY <1>4 DEF Acked, Said, Finished
  <2> QED BY <1>2, <1>3, <1>4, <2>1, TalkForms
<1>5. CASE Taken(r, n, <<WriteTo(r, k)>>)
  <2>1. WriteTo(r, k).cmd = "WRTE" /\ WriteTo(r, k) \in Packet
    BY WriteParts
  <2>2. stream[r].sent = n => Talk(r, n, <<Header(Yes(r))>>, <<>>)'
    <3>1. ASSUME stream[r].sent = n
          PROVE  TalkNext(r, n, <<Header(Yes(r))>>, <<>>)
      BY <1>1, <1>2, <1>5, <2>1, <3>1, TakenTalk
    <3> QED BY <1>2, <3>1, TalkForms
  <2>3. /\ stream'[r].st = stream[r].st
        /\ stream'[r].got = Append(stream[r].got, WriteTo(r, k).data)
    BY <1>1, <1>5, <2>1 DEF Taken
  <2>4. WriteTo(r, k).data \in Data /\ stream[r].got \in Seq(Data)
    BY <2>1, StreamParts DEF Packet
  <2>5. Got(r)' = Got(r) + 1
    BY <2>3, <2>4, AppendItems DEF Got
  <2>6. (Open(r))'
    BY <2>3 DEF Open
  <2> QED BY <1>3, <1>5, <2>2, <2>5, <2>6
<1> QED BY <1>3, <1>4, <1>5

LEMMA AdbdRead ==
  ASSUME TypeOK, NEW r \in RemoteIds, OfCall(r), ReadPhase(r), call \in Calls,
         Speaks, UNCHANGED hostVars
  PROVE  OfCall(r)' /\ ReadPhase(r)'
<1> DEFINE n == Len(data[call])
<1>1. /\ kind[call] = "shell" /\ data[call] = [i \in 1..n |-> <<r, i>>]
      /\ Talk(r, n, <<>>, <<>>)
  BY DEF ReadPhase
<1>2. n \in Nat
  BY DEF TypeOK
<1>3. UNCHANGED <<call, kind, data>>
  BY DEF hostVars
<1>4. PICK m \in Nat : m = n
  BY <1>2
<1>5. OfCall(r)' /\ Talk(r, m, <<>>, <<>>)'
  BY <1>1, <1>4, AdbdTalks
<1>6. Len(data[call])' = m /\ kind'[call'] = "shell" /\ data'[call'] = [i \in 1..m |-> <<r, i>>]
  BY <1>1, <1>3, <1>4
<1> QED BY <1>5, <1>6 DEF ReadPhase

LEMMA ActiveSays ==
  ASSUME TypeOK, NEW r \in RemoteIds, OfCall(r), kind[call] = "active", UNCHANGED hostVars,
         NEW n \in Nat, NEW before, NEW asked,
         \/ Acked(r, n, before, asked)
         \/ Said(r, n, before, asked)
         \/ Finished(r, n, before, asked)
  PROVE  /\ (Open(r))' <=> Open(r)
         /\ stream'[r].got = stream[r].got /\ Got(r)' = Got(r) /\ UNCHANGED failed
<1>1. Service(r) = "active"
  BY ServiceIs DEF OfCall
<1>2. ~ServiceEnd(r) /\ ~ServiceFails(r)
  BY <1>1, ServiceSteps
<1>3. CASE Acked(r, n, before, asked)
  BY <1>3 DEF Acked, Got
<1>4. CASE Said(r, n, before, asked)
  <2>1. Open(r) /\ (Open(r))'
    BY <1>4 DEF Said, Open
  <2>2. UNCHANGED failed
    BY <1>2, <1>4 DEF Said
  <2> QED BY <1>4, <2>1, <2>2 DEF Said, Got
<1> QED BY <1>2, <1>3, <1>4 DEF Finished

LEMMA AdbdPrompt ==
  ASSUME TypeOK, NEW r \in RemoteIds, PromptPhase(r), Speaks, UNCHANGED hostVars
  PROVE  OfCall(r)' /\ PromptPhase(r)'
<1>1. /\ kind[call] = "active" /\ Began(r) /\ data[call] = <<>> /\ Talk(r, 0, <<>>, <<>>)
      /\ OfCall(r)
  BY DEF PromptPhase, Began
<1>2. UNCHANGED <<call, kind, data>>
  BY DEF hostVars
<1>3. 0 \in Nat
  OBVIOUS
<1>4. /\ OfCall(r)' /\ Talk(r, 0, <<>>, <<>>)'
      /\ \/ Acked(r, 0, <<>>, <<>>)
         \/ Said(r, 0, <<>>, <<>>)
         \/ Finished(r, 0, <<>>, <<>>)
  BY <1>1, <1>3, AdbdTalks
<1>5. Began(r)'
  BY <1>1, <1>4, AdbdBegan
<1> QED BY <1>1, <1>2, <1>4, <1>5 DEF PromptPhase

LEMMA AdbdCommand ==
  ASSUME TypeOK, NEW r \in RemoteIds, FirstCommand(r), Speaks, UNCHANGED hostVars
  PROVE  OfCall(r)' /\ FirstCommand(r)'
<1>1. /\ kind[call] = "active" /\ Began(r) /\ data[call] = <<>> /\ Talk(r, 1, <<>>, <<>>)
      /\ OfCall(r)
  BY DEF FirstCommand, Began
<1>2. UNCHANGED <<call, kind, data>>
  BY DEF hostVars
<1>3. 1 \in Nat
  OBVIOUS
<1>4. /\ OfCall(r)' /\ Talk(r, 1, <<>>, <<>>)'
      /\ \/ Acked(r, 1, <<>>, <<>>)
         \/ Said(r, 1, <<>>, <<>>)
         \/ Finished(r, 1, <<>>, <<>>)
  BY <1>1, <1>3, AdbdTalks
<1>5. Began(r)'
  BY <1>1, <1>4, AdbdBegan
<1> QED BY <1>1, <1>2, <1>4, <1>5 DEF FirstCommand

(* adbd takes the command, with an acknowledgement behind it.              *)
LEMMA AdbdTakesFirst ==
  ASSUME TypeOK, NEW r \in RemoteIds, OfCall(r), kind[call] = "active", NEW n \in Nat,
         stream[r].sent = n, stream[r].st = "waitack",
         out = <<WriteTo(r, 1), AckTo(r)>>, inp = <<>>, Speaks, UNCHANGED hostVars
  PROVE  /\ OfCall(r)' /\ (Open(r))' /\ Got(r)' = Got(r) + 1
         /\ Talk(r, n, <<Header(Yes(r))>>, <<>>)'
<1>1. UNCHANGED <<call, kind, local_id, base_id>>
  BY DEF hostVars
<1>2. Service(r) = "active"
  BY ServiceIs DEF OfCall
<1>3. DevPacket /\ UNCHANGED failed
  <2>1. ~ServiceEnd(r) /\ ~DevStreamWrite(r)
    BY <1>2, ServiceSteps DEF DevStreamWrite
  <2> QED BY <2>1, OneSpeaks DEF ServiceAnswer, ServiceWrite, ServiceFails
<1>4. /\ WriteTo(r, 1) \in Packet /\ WriteTo(r, 1).cmd = "WRTE"
      /\ WriteTo(r, 1).arg0 = local_id /\ WriteTo(r, 1).arg1 = r
      /\ AckTo(r) \in Packet
  <2>1. 1 \in Nat
    OBVIOUS
  <2>2. AckTo(r) \in Packet
    BY <2>1, Msgs
  <2> QED BY <2>1, <2>2, WriteParts
<1>5. /\ Frame = WriteTo(r, 1) /\ Tail(out) = <<AckTo(r)>> /\ out # <<>>
  BY <1>4 DEF Frame
<1>6. Frame.data \in Data
  BY <1>5, OutParts
<1>7. DevHostWrite
  BY <1>3, <1>4, <1>5, AckDoes, CloseDoes, OpenDoes DEF DevPacket
<1>8. IsOpen(r)
  BY DEF IsOpen
<1>9. /\ Becomes(r, "waitack", n, Append(stream[r].got, Frame.data))
      /\ DevWrites(Pkt("OKAY", r, local_id, NoData)) /\ out' = <<AckTo(r)>>
  BY <1>4, <1>5, <1>7, <1>8, WriteDoes
<1>10. inp' = <<Header(Yes(r))>>
  <2>1. inp' = inp \o Transfers(Yes(r))
    BY <1>9 DEF DevWrites, Yes
  <2>2. Yes(r) \in Packet /\ Yes(r).data = NoData
    BY Msgs
  <2>3. Transfers(Yes(r)) = <<Header(Yes(r))>> /\ Transfers(Yes(r)) \in Seq(Transfer)
    BY <2>2, TransfersType
  <2> QED BY <2>1, <2>3, CatEmpty
<1>11. stream'[r].st = "waitack" /\ stream'[r].sent = n /\ Got(r)' = Got(r) + 1
  <2>1. stream[r].got \in Seq(Data)
    BY StreamParts
  <2>2. stream'[r].got = Append(stream[r].got, Frame.data)
    BY <1>9 DEF Becomes
  <2> QED BY <1>6, <1>9, <2>1, <2>2, AppendItems DEF Becomes, Got
<1>12. OfCall(r)'
  BY <1>1, <1>9, OthersSilent DEF Becomes
<1>13. (Open(r))'
  BY <1>11 DEF Open
<1>14. TalkNext(r, n, <<Header(Yes(r))>>, <<>>)
  <2>1. Unread(r, n)' = <<>> \o <<>>
    BY <1>11 DEF Unread
  <2>2. Header(Yes(r)) \in Transfer
    BY Msgs, HeaderType
  <2>3. inp' = <<Header(Yes(r))>> \o Unread(r, n)'
    BY <1>10, <2>1, <2>2, CatEmpty
  <2>4. out' = <<AckTo(r)>> \o <<>>
    BY <1>4, <1>9, CatEmpty
  <2>5. AckTo(r)' = AckTo(r)
    BY <1>1, SameNames
  <2>6. Turn(r, n, <<AckTo(r)>>)'
    BY <1>11, <2>5 DEF Turn
  <2>7. PICK ack \in {<<>>, <<AckTo(r)>>} : ack = <<AckTo(r)>>
    OBVIOUS
  <2>8. Turn(r, n, ack)'
    BY <2>5, <2>6, <2>7 DEF Turn
  <2> QED BY <2>3, <2>4, <2>7, <2>8 DEF TalkNext
<1> QED BY <1>1, <1>11, <1>12, <1>13, <1>14, TalkForms

LEMMA AdbdCommanded ==
  ASSUME TypeOK, NEW r \in RemoteIds, OfCall(r), kind[call] = "active", Open(r),
         NEW n \in Nat, Commanded(r, n), Speaks, UNCHANGED hostVars
  PROVE  OfCall(r)' /\ (Open(r))' /\ Commanded(r, n)'
<1>1. UNCHANGED <<call, kind, local_id, base_id>>
  BY DEF hostVars
<1>2. Got(r) \in Nat /\ 1 \in Nat
  BY StreamParts
<1>3. WriteTo(r, 1)' = WriteTo(r, 1) /\ Header(Yes(r))' = Header(Yes(r)) /\ AckTo(r)' = AckTo(r)
      /\ Transfers(Chunk(r, n + 1))' = Transfers(Chunk(r, n + 1))
  BY <1>1 DEF WriteTo, Yes, Header, AckTo, Chunk, Transfers
<1>4. CASE Got(r) = 0 /\ Talk(r, n, <<>>, <<WriteTo(r, 1)>>)
  <2>1. OfCall(r)'
    BY <1>2, <1>4, AdbdAsked
  <2>2. CASE /\ Talk(r, n, <<>>, <<WriteTo(r, 1)>>)'
             /\ \/ Acked(r, n, <<>>, <<WriteTo(r, 1)>>)
                \/ Said(r, n, <<>>, <<WriteTo(r, 1)>>)
                \/ Finished(r, n, <<>>, <<WriteTo(r, 1)>>)
    <3>1. (Open(r))' /\ Got(r)' = 0
      BY <1>4, <2>2, ActiveSays
    <3> QED BY <2>1, <2>2, <3>1 DEF Commanded
  <2>3. CASE /\ stream[r].sent = n => Talk(r, n, <<Header(Yes(r))>>, <<>>)'
             /\ Taken(r, n, <<WriteTo(r, 1)>>)
             /\ (Open(r))' /\ Got(r)' = Got(r) + 1
    <3>1. Got(r)' = 1
      BY <1>4, <2>3
    <3>2. CASE stream[r].sent = n
      BY <2>1, <2>3, <3>1, <3>2 DEF Commanded
    <3>3. CASE stream[r].sent # n
      <4>1. stream[r].sent = n + 1 /\ stream[r].st = "waitack" /\ out' = <<>>
        BY <2>3, <3>3 DEF Taken, Turn, Open
      <4>2. /\ stream'[r].sent = n + 1 /\ stream'[r].st = "waitack"
            /\ inp' = inp \o <<Header(Yes(r))>>
        <5>1. WriteTo(r, 1).cmd = "WRTE" /\ Head(<<WriteTo(r, 1)>>) = WriteTo(r, 1)
          BY <1>2, WriteParts, AsksThese
        <5> QED BY <2>3, <4>1, <5>1 DEF Taken
      <4>3. inp = Transfers(Chunk(r, n + 1))
        <5>1. n + 1 \in Nat /\ n + 1 > n
          OBVIOUS
        <5>2. Transfers(Chunk(r, n + 1)) \in Seq(Transfer)
          BY <5>1, Msgs, TransfersType
        <5>3. Unread(r, n) = Transfers(Chunk(r, n + 1)) \o <<>>
          BY <4>1, <5>1 DEF Unread
        <5> QED BY <1>4, <5>2, <5>3, CatEmpty DEF Talk
      <4> QED BY <1>3, <2>1, <2>3, <3>1, <4>1, <4>2, <4>3 DEF Commanded
    <3> QED BY <3>2, <3>3
  <2> QED BY <1>2, <1>4, <2>2, <2>3, AdbdAsked
<1>5. CASE /\ Got(r) = 0 /\ stream[r].sent = n /\ stream[r].st = "waitack"
           /\ out = <<WriteTo(r, 1), AckTo(r)>> /\ inp = <<>>
  <2>1. /\ OfCall(r)' /\ (Open(r))' /\ Got(r)' = Got(r) + 1
        /\ Talk(r, n, <<Header(Yes(r))>>, <<>>)'
    BY <1>5, AdbdTakesFirst
  <2>2. Got(r)' = 1
    BY <1>5, <2>1
  <2> QED BY <2>1, <2>2 DEF Commanded
<1>6. CASE Got(r) = 1 /\ Talk(r, n, <<Header(Yes(r))>>, <<>>)
  <2>1. /\ OfCall(r)' /\ Talk(r, n, <<Header(Yes(r))>>, <<>>)'
        /\ \/ Acked(r, n, <<Header(Yes(r))>>, <<>>)
           \/ Said(r, n, <<Header(Yes(r))>>, <<>>)
           \/ Finished(r, n, <<Header(Yes(r))>>, <<>>)
    BY <1>6, AdbdYes
  <2>2. (Open(r))' /\ Got(r)' = 1
    BY <1>6, <2>1, ActiveSays
  <2> QED BY <2>1, <2>2 DEF Commanded
<1>7. CASE /\ Got(r) = 1 /\ stream[r].sent = n + 1 /\ stream[r].st = "waitack"
           /\ out = <<>> /\ inp = Transfers(Chunk(r, n + 1)) \o <<Header(Yes(r))>>
  <2>1. Service(r) = "active"
    BY ServiceIs DEF OfCall
  <2>2. ~ServiceEnd(r)
    BY <2>1, ServiceSteps
  <2> QED BY <1>7, <2>2, AdbdWaits
<1>8. CASE Got(r) = 1 /\ Talk(r, n, <<>>, <<>>)
  <2>1. /\ OfCall(r)' /\ Talk(r, n, <<>>, <<>>)'
        /\ \/ Acked(r, n, <<>>, <<>>)
           \/ Said(r, n, <<>>, <<>>)
           \/ Finished(r, n, <<>>, <<>>)
    BY <1>8, AdbdTalks
  <2>2. (Open(r))' /\ Got(r)' = 1
    BY <1>8, <2>1, ActiveSays
  <2> QED BY <2>1, <2>2 DEF Commanded
<1> QED BY <1>4, <1>5, <1>6, <1>7, <1>8 DEF Commanded

LEMMA AdbdOutput ==
  ASSUME TypeOK, NEW r \in RemoteIds, OfCall(r), FirstOutput(r), Speaks, UNCHANGED hostVars,
         call \in Calls
  PROVE  OfCall(r)' /\ FirstOutput(r)'
<1>1. UNCHANGED <<call, kind, data>>
  BY DEF hostVars
<1>2. PICK n \in Nat : n = Len(data[call]) + 1
  BY DEF TypeOK
<1>3. /\ kind[call] = "active" /\ Open(r)
      /\ data[call] = [i \in 1..n - 1 |-> <<r, i + 1>>]
      /\ \A i \in 2..n : <<r, i>> \notin Prompts
      /\ Commanded(r, n)
  BY <1>2 DEF FirstOutput
<1>4. OfCall(r)' /\ (Open(r))' /\ Commanded(r, n)'
  BY <1>3, AdbdCommanded
<1>5. n = Len(data'[call']) + 1 /\ kind'[call'] = "active"
      /\ data'[call'] = [i \in 1..n - 1 |-> <<r, i + 1>>]
  BY <1>1, <1>2, <1>3
<1> QED BY <1>3, <1>4, <1>5 DEF FirstOutput

LEMMA AdbdQuery ==
  ASSUME TypeOK, NEW r \in RemoteIds, OfCall(r), QueryPhase(r), Speaks, UNCHANGED hostVars
  PROVE  OfCall(r)' /\ QueryPhase(r)'
<1>1. kind[call] = "query" /\ Service(r) = "query" /\ Got(r) \in Nat
  BY ServiceIs, StreamParts DEF QueryPhase, OfCall
<1>2. UNCHANGED <<call, kind, data, step, local_id>>
  BY DEF hostVars
<1>3. 0 \in Nat /\ 1 \in Nat
  OBVIOUS
<1>4. /\ ServiceAnswer(r) => Got(r) >= 1 /\ stream[r].sent = 0
      /\ ~ServiceWrite(r) /\ ~ServiceFails(r) /\ ~ServiceEnd(r)
  BY <1>1, ServiceSteps
<1>5. ASSUME NEW n \in Nat, NEW before, NEW asked,
             \/ Acked(r, n, before, asked)
             \/ Said(r, n, before, asked)
             \/ Finished(r, n, before, asked)
      PROVE  /\ (Open(r))' <=> Open(r)
             /\ Got(r)' = Got(r) 
             /\ Got(r) = 0 \/ n = 1 => stream'[r].sent = stream[r].sent
  BY <1>1, <1>4, <1>5 DEF Acked, Said, Finished, Open, Got
<1>6. ASSUME step = 0, Got(r) = 0, stream[r].sent = 0, Open(r), Talk(r, 0, <<>>, <<>>)
      PROVE  OfCall(r)' /\ QueryPhase(r)'
  <2>1. /\ OfCall(r)' /\ Talk(r, 0, <<>>, <<>>)'
        /\ \/ Acked(r, 0, <<>>, <<>>)
           \/ Said(r, 0, <<>>, <<>>)
           \/ Finished(r, 0, <<>>, <<>>)
    BY <1>3, <1>6, AdbdTalks
  <2>2. (Open(r))' /\ Got(r)' = 0 /\ stream'[r].sent = 0
    BY <1>3, <1>5, <1>6, <2>1
  <2> QED BY <1>1, <1>2, <1>6, <2>1, <2>2 DEF QueryPhase
<1>7. ASSUME step = 1, Got(r) = 0, stream[r].sent = 0, Open(r),
             Talk(r, 0, <<>>, <<WriteTo(r, 1)>>)
      PROVE  OfCall(r)' /\ QueryPhase(r)'
  <2>1. OfCall(r)'
    BY <1>3, <1>7, AdbdAsked
  <2>2. CASE /\ Talk(r, 0, <<>>, <<WriteTo(r, 1)>>)'
             /\ \/ Acked(r, 0, <<>>, <<WriteTo(r, 1)>>)
                \/ Said(r, 0, <<>>, <<WriteTo(r, 1)>>)
                \/ Finished(r, 0, <<>>, <<WriteTo(r, 1)>>)
    <3>1. (Open(r))' /\ Got(r)' = 0 /\ stream'[r].sent = 0
      BY <1>3, <1>5, <1>7, <2>2
    <3> QED BY <1>1, <1>2, <1>7, <2>1, <2>2, <3>1 DEF QueryPhase
  <2>3. CASE Talk(r, 0, <<Header(Yes(r))>>, <<>>)' /\ (Open(r))' /\ Got(r)' = Got(r) + 1
    <3>1. Got(r)' = 1
      BY <1>7, <2>3
    <3> QED BY <1>1, <1>2, <1>7, <2>1, <2>3, <3>1 DEF QueryPhase
  <2> QED BY <1>3, <1>7, <2>2, <2>3, AdbdAsked
<1>8. ASSUME step = 1, Got(r) = 1, Open(r), Talk(r, 0, <<Header(Yes(r))>>, <<>>)
      PROVE  OfCall(r)' /\ QueryPhase(r)'
  <2>1. /\ OfCall(r)' /\ Talk(r, 0, <<Header(Yes(r))>>, <<>>)'
        /\ \/ Acked(r, 0, <<Header(Yes(r))>>, <<>>)
           \/ Said(r, 0, <<Header(Yes(r))>>, <<>>)
           \/ Finished(r, 0, <<Header(Yes(r))>>, <<>>)
    BY <1>3, <1>8, AdbdYes
  <2>2. (Open(r))' /\ Got(r)' = 1
    BY <1>3, <1>5, <1>8, <2>1
  <2> QED BY <1>1, <1>2, <1>8, <2>1, <2>2 DEF QueryPhase
<1>9. ASSUME step = 2, Got(r) = 1, Open(r), Talk(r, 0, <<>>, <<>>)
      PROVE  OfCall(r)' /\ QueryPhase(r)'
  <2>1. /\ OfCall(r)' /\ Talk(r, 0, <<>>, <<>>)'
        /\ \/ Acked(r, 0, <<>>, <<>>)
           \/ Said(r, 0, <<>>, <<>>)
           \/ Finished(r, 0, <<>>, <<>>)
    BY <1>3, <1>9, AdbdTalks
  <2>2. (Open(r))' /\ Got(r)' = 1
    BY <1>3, <1>5, <1>9, <2>1
  <2> QED BY <1>1, <1>2, <1>9, <2>1, <2>2 DEF QueryPhase
<1>10. ASSUME Owes(r) PROVE FALSE
  BY <1>4, <1>10, AdbdWaits DEF Owes
<1>11. ASSUME step = 4 \/ (step = 5 /\ ~Open(r) /\ out = <<>>), stream[r].sent = 1,
              step = 4 => Open(r), Talk(r, 1, <<>>, <<>>)
       PROVE  OfCall(r)' /\ QueryPhase(r)'
  <2>1. /\ OfCall(r)' /\ Talk(r, 1, <<>>, <<>>)'
        /\ \/ Acked(r, 1, <<>>, <<>>)
           \/ Said(r, 1, <<>>, <<>>)
           \/ Finished(r, 1, <<>>, <<>>)
    BY <1>3, <1>11, AdbdTalks
  <2>2. ((Open(r))' <=> Open(r)) /\ stream'[r].sent = 1
    BY <1>3, <1>5, <1>11, <2>1
  <2>3. out = <<>> => out' = <<>>
    BY <2>1 DEF Acked, Said, Finished
  <2> QED BY <1>1, <1>2, <1>11, <2>1, <2>2, <2>3 DEF QueryPhase
<1>12. ASSUME step = 5, stream[r].sent = 1, Open(r), Talk(r, 1, <<>>, <<CloseTo(r)>>)
       PROVE  OfCall(r)' /\ QueryPhase(r)'
  <2>1. /\ Asks(r, <<CloseTo(r)>>) /\ Head(<<CloseTo(r)>>) = CloseTo(r)
    BY <1>3, AsksThese
  <2>2. stream[r].st # "none" /\ <<>> \in Seq(Transfer)
    BY <1>12, TalkOpen
  <2>3. /\ OfCall(r)'
        /\ \/ Acked(r, 1, <<>>, <<CloseTo(r)>>)
           \/ Said(r, 1, <<>>, <<CloseTo(r)>>)
           \/ Finished(r, 1, <<>>, <<CloseTo(r)>>)
           \/ Taken(r, 1, <<CloseTo(r)>>)
    BY <1>3, <1>12, <2>1, <2>2, DevStep
  <2>4. CASE \/ Acked(r, 1, <<>>, <<CloseTo(r)>>)
             \/ Said(r, 1, <<>>, <<CloseTo(r)>>)
             \/ Finished(r, 1, <<>>, <<CloseTo(r)>>)
    <3>1. TalkNext(r, 1, <<>>, <<CloseTo(r)>>)
      BY <2>4 DEF Acked, Said, Finished
    <3>2. Talk(r, 1, <<>>, <<CloseTo(r)>>)'
      BY <1>2, <3>1, TalkForms
    <3>3. (Open(r))' /\ stream'[r].sent = 1
      BY <1>3, <1>5, <1>12, <2>4
    <3> QED BY <1>1, <1>2, <1>12, <2>3, <3>2, <3>3 DEF QueryPhase
  <2>5. CASE Taken(r, 1, <<CloseTo(r)>>)
    <3>1. CloseTo(r).cmd = "CLSE"
      BY <1>3, Msgs
    <3>2. TalkNext(r, 1, <<>>, <<>>) /\ ~(Open(r))'
      BY <1>2, <1>3, <1>12, <2>1, <2>5, <3>1, TakenTalk
    <3>3. Talk(r, 1, <<>>, <<>>)'
      BY <1>2, <3>2, TalkForms
    <3>4. out' = <<>> /\ stream'[r].sent = 1
      BY <1>12, <2>5 DEF Taken
    <3> QED BY <1>1, <1>2, <1>12, <2>3, <3>2, <3>3, <3>4 DEF QueryPhase
  <2> QED BY <2>3, <2>4, <2>5
<1> QED
  BY <1>6, <1>7, <1>8, <1>9, <1>10, <1>11, <1>12 DEF QueryPhase

(* The push service meets a record it cannot store, says so and stops      *)
(* reading: its first and only word is the failure.                        *)
Failing(r, before, asked) ==
  /\ Got(r) > 0 /\ stream'[r].st = "waitack" /\ stream'[r].sent = 1
  /\ out' = <<>> \o asked /\ inp' = before \o Transfers(Chunk(r, 1))
(* What a step of the push service does: it acknowledges a record, answers *)
(* when it has them all, is told too much, or fails.                       *)
PushStep(r, n, before, asked) ==
  /\ Got(r)' = Got(r) /\ Got(r) \in Nat
  /\ \/ UNCHANGED failed /\ ((Open(r))' <=> Open(r)) /\ stream'[r].sent = stream[r].sent
     \/ UNCHANGED failed /\ (Open(r))' /\ stream'[r].sent = 1 /\ Got(r) >= Records /\ n = 0
     \/ UNCHANGED failed /\ Got(r) > Records /\ stream'[r].sent = stream[r].sent
     \/ Got(r) < Records /\ n = 0 /\ Failing(r, before, asked)
  /\ out = <<>> => out' = <<>>

LEMMA PushSays ==
  ASSUME TypeOK, NEW r \in RemoteIds, OfCall(r), kind[call] = "push", UNCHANGED hostVars,
         NEW n \in Nat, NEW before, NEW asked,
         \/ Acked(r, n, before, asked)
         \/ Said(r, n, before, asked)
         \/ Finished(r, n, before, asked)
  PROVE  PushStep(r, n, before, asked)
<1>1. Service(r) = "push" /\ Got(r) \in Nat
  BY ServiceIs, StreamParts DEF OfCall
<1>2. CASE Acked(r, n, before, asked)
  BY <1>1, <1>2 DEF Acked, Got, PushStep
<1>3. CASE Said(r, n, before, asked)
  <2>1. ~ServiceWrite(r)
    BY <1>1, ServiceSteps
  <2>2. stream[r].sent = n /\ stream'[r].sent = n + 1 /\ (Open(r))' /\ Got(r)' = Got(r)
    BY <1>3 DEF Said, Open, Got
  <2>3. CASE ServiceAnswer(r) /\ UNCHANGED failed
    <3>1. Got(r) >= Records /\ n = 0
      BY <1>1, <2>2, <2>3, ServiceSteps
    <3> QED BY <1>1, <1>3, <2>2, <2>3, <3>1 DEF Said, PushStep
  <2>4. CASE ServiceFails(r)
    <3>1. Got(r) > 0 /\ Got(r) < Records /\ n = 0
      BY <1>1, <2>2, <2>4, ServiceSteps
    <3>2. n + 1 = 1
      BY <3>1
    <3>3. Failing(r, before, asked)
      BY <1>3, <3>1, <3>2 DEF Said, Failing
    <3> QED BY <1>1, <1>3, <2>2, <3>1, <3>3 DEF Said, PushStep
  <2> QED BY <1>3, <2>1, <2>3, <2>4 DEF Said
<1>4. CASE Finished(r, n, before, asked)
  <2>1. Got(r) > Records
    BY <1>1, <1>4, ServiceSteps DEF Finished
  <2> QED BY <1>1, <1>4, <2>1 DEF Finished, Got, PushStep
<1> QED BY <1>2, <1>3, <1>4

(* FAIL, in two transfers.                                                 *)
FailOf(r) == <<Header(Chunk(r, 1)), Payload(Chunk(r, 1))>>

LEMMA FailIs ==
  ASSUME TypeOK, NEW r \in RemoteIds
  PROVE  /\ Transfers(Chunk(r, 1)) = FailOf(r) /\ FailOf(r) \in Seq(Transfer)
         /\ Tail(FailOf(r)) = <<Payload(Chunk(r, 1))>>
         /\ Header(Yes(r)) \in Transfer /\ <<Header(Yes(r))>> \in Seq(Transfer)
         /\ Chunk(r, 1) \in Packet /\ Payload(Chunk(r, 1)) \in Transfer
<1>1. 1 \in Nat
  OBVIOUS
<1>2. Chunk(r, 1) \in Packet /\ Chunk(r, 1).data # NoData
  BY <1>1, ChunkParts
<1>3. Header(Chunk(r, 1)) \in Transfer /\ Payload(Chunk(r, 1)) \in Transfer
  BY <1>2, HeaderType
<1>4. Transfers(Chunk(r, 1)) = FailOf(r)
  BY <1>2, TransfersType DEF FailOf
<1>5. FailOf(r) \in Seq(Transfer) /\ Tail(FailOf(r)) = <<Payload(Chunk(r, 1))>>
  BY <1>3, TwoItems DEF FailOf
<1>6. Header(Yes(r)) \in Transfer
  BY <1>1, Msgs, HeaderType
<1> QED BY <1>2, <1>3, <1>4, <1>5, <1>6, OneItem

LEMMA SameFail ==
  ASSUME NEW r, UNCHANGED <<local_id, call>>
  PROVE  FailOf(r)' = FailOf(r) /\ Header(Yes(r))' = Header(Yes(r))
<1>1. Chunk(r, 1)' = Chunk(r, 1) /\ Yes(r)' = Yes(r)
  BY SameNames
<1> QED BY <1>1 DEF FailOf, Header, Payload

LEMMA AdbdSending ==
  ASSUME TypeOK, NEW r \in RemoteIds, OfCall(r), kind[call] = "push", Sending(r),
         Speaks, UNCHANGED hostVars
  PROVE  OfCall(r)' /\ (Sending(r)' \/ Doomed(r)')
<1>1. Got(r) \in Nat /\ Records \in Nat \ {0} /\ step \in Nat /\ 0 \in Nat /\ 1 \in Nat
  BY StreamParts, MyAdbAssumption DEF TypeOK
<1>2. UNCHANGED <<call, kind, data, step, local_id>>
  BY DEF hostVars
<1>3. r \notin failed /\ Open(r)
  BY DEF Sending
<1>4. FailOf(r)' = FailOf(r) /\ Header(Yes(r))' = Header(Yes(r)) /\ WriteTo(r, step)' = WriteTo(r, step)
  BY <1>2, SameFail DEF WriteTo
<1>5. /\ Transfers(Chunk(r, 1)) = FailOf(r) /\ FailOf(r) \in Seq(Transfer)
      /\ <<Header(Yes(r))>> \in Seq(Transfer) /\ <<>> \o FailOf(r) = FailOf(r)
  BY FailIs, CatEmpty
<1>6. ASSUME step = 2 * Got(r), Got(r) < Records, stream[r].sent = 0, Talk(r, 0, <<>>, <<>>)
      PROVE  OfCall(r)' /\ (Sending(r)' \/ Doomed(r)')
  <2>1. /\ OfCall(r)' /\ Talk(r, 0, <<>>, <<>>)'
        /\ \/ Acked(r, 0, <<>>, <<>>)
           \/ Said(r, 0, <<>>, <<>>)
           \/ Finished(r, 0, <<>>, <<>>)
    BY <1>1, <1>6, AdbdTalks
  <2>2. /\ Got(r)' = Got(r)
        /\ \/ UNCHANGED failed /\ (Open(r))' /\ stream'[r].sent = 0
           \/ Got(r) < Records /\ Failing(r, <<>>, <<>>)
    <3>1. PushStep(r, 0, <<>>, <<>>)
      BY <1>1, <1>3, <1>6, <2>1, PushSays
    <3> QED BY <1>1, <1>3, <1>6, <3>1 DEF PushStep
  <2>3. CASE UNCHANGED failed /\ (Open(r))' /\ stream'[r].sent = 0
    BY <1>2, <1>3, <1>6, <2>1, <2>2, <2>3 DEF Sending
  <2>4. CASE Got(r) < Records /\ Failing(r, <<>>, <<>>)
    <3>1. out' = <<>> /\ inp' = FailOf(r)'
      BY <1>4, <1>5, <2>4 DEF Failing
    <3>2. Doomed(r)'
      BY <1>2, <1>6, <2>2, <2>4, <3>1 DEF Doomed, FailOf, Failing
    <3> QED BY <2>1, <3>2
  <2> QED BY <2>2, <2>3, <2>4
<1>7. ASSUME step = 2 * Got(r) + 1, Got(r) < Records, stream[r].sent = 0,
             Talk(r, 0, <<>>, <<WriteTo(r, step)>>)
      PROVE  OfCall(r)' /\ (Sending(r)' \/ Doomed(r)')
  <2>1. PICK k \in Nat : k = step
    BY <1>1
  <2>2. Talk(r, 0, <<>>, <<WriteTo(r, k)>>)
    BY <1>7, <2>1
  <2>3. OfCall(r)'
    BY <1>1, <1>3, <2>2, AdbdAsked
  <2>4. CASE /\ Talk(r, 0, <<>>, <<WriteTo(r, k)>>)'
             /\ \/ Acked(r, 0, <<>>, <<WriteTo(r, k)>>)
                \/ Said(r, 0, <<>>, <<WriteTo(r, k)>>)
                \/ Finished(r, 0, <<>>, <<WriteTo(r, k)>>)
    <3>1. /\ Got(r)' = Got(r)
          /\ \/ UNCHANGED failed /\ (Open(r))' /\ stream'[r].sent = 0
             \/ Got(r) < Records /\ Failing(r, <<>>, <<WriteTo(r, k)>>)
      <4>1. PushStep(r, 0, <<>>, <<WriteTo(r, k)>>)
        BY <1>1, <1>3, <1>7, <2>4, PushSays
      <4> QED BY <1>1, <1>3, <1>7, <4>1 DEF PushStep
    <3>2. CASE UNCHANGED failed /\ (Open(r))' /\ stream'[r].sent = 0
      <4>1. Talk(r, 0, <<>>, <<WriteTo(r, step)>>)'
        <5>1. step' = k
          BY <1>2, <2>1
        <5> QED BY <2>4, <5>1
      <4> QED BY <1>2, <1>3, <1>7, <2>3, <3>1, <3>2, <4>1 DEF Sending
    <3>3. CASE Got(r) < Records /\ Failing(r, <<>>, <<WriteTo(r, k)>>)
      <4>1. out' = <<WriteTo(r, step)'>> /\ inp' = FailOf(r)'
        <5>1. <<>> \o <<WriteTo(r, k)>> = <<WriteTo(r, k)>>
          OBVIOUS
        <5> QED BY <1>4, <1>5, <2>1, <3>3, <5>1 DEF Failing
      <4>2. Doomed(r)'
        BY <1>2, <1>7, <3>1, <3>3, <4>1 DEF Doomed, FailOf, Failing
      <4> QED BY <2>3, <4>2
    <3> QED BY <3>1, <3>2, <3>3
  <2>5. CASE /\ stream[r].sent = 0 => Talk(r, 0, <<Header(Yes(r))>>, <<>>)'
             /\ Taken(r, 0, <<WriteTo(r, k)>>) /\ (Open(r))' /\ Got(r)' = Got(r) + 1
    <3>1. Talk(r, 0, <<Header(Yes(r))>>, <<>>)' /\ UNCHANGED failed /\ stream'[r].sent = 0
      BY <1>7, <2>5 DEF Taken
    <3>2. step' + 1 = 2 * Got(r)' /\ Got(r)' \in 1..Records
      BY <1>1, <1>2, <1>7, <2>5
    <3> QED BY <1>2, <1>3, <2>3, <2>5, <3>1, <3>2 DEF Sending
  <2> QED BY <1>1, <1>3, <2>2, <2>4, <2>5, AdbdAsked
<1>8. ASSUME step + 1 = 2 * Got(r), Got(r) \in 1..Records, stream[r].sent = 1 => Got(r) = Records,
             Talk(r, 0, <<Header(Yes(r))>>, <<>>)
      PROVE  OfCall(r)' /\ (Sending(r)' \/ Doomed(r)')
  <2>1. /\ OfCall(r)' /\ Talk(r, 0, <<Header(Yes(r))>>, <<>>)'
        /\ \/ Acked(r, 0, <<Header(Yes(r))>>, <<>>)
           \/ Said(r, 0, <<Header(Yes(r))>>, <<>>)
           \/ Finished(r, 0, <<Header(Yes(r))>>, <<>>)
    BY <1>1, <1>8, AdbdYes
  <2>2. /\ Got(r)' = Got(r)
        /\ \/ UNCHANGED failed /\ (Open(r))' /\ (stream'[r].sent = 1 => Got(r) = Records)
           \/ Got(r) < Records /\ Failing(r, <<Header(Yes(r))>>, <<>>)
    <3>1. PushStep(r, 0, <<Header(Yes(r))>>, <<>>)
      BY <1>1, <1>3, <1>8, <2>1, PushSays
    <3> QED BY <1>1, <1>3, <1>8, <3>1 DEF PushStep
  <2>3. CASE UNCHANGED failed /\ (Open(r))' /\ (stream'[r].sent = 1 => Got(r) = Records)
    BY <1>2, <1>3, <1>8, <2>1, <2>2, <2>3 DEF Sending
  <2>4. CASE Got(r) < Records /\ Failing(r, <<Header(Yes(r))>>, <<>>)
    <3>1. out' = <<>> /\ inp' = <<Header(Yes(r))'>> \o FailOf(r)'
      BY <1>4, <1>5, <2>4 DEF Failing
    <3>2. Doomed(r)'
      BY <1>2, <1>8, <2>2, <2>4, <3>1 DEF Doomed, FailOf, Failing
    <3> QED BY <2>1, <3>2
  <2> QED BY <2>2, <2>3, <2>4
<1> QED BY <1>6, <1>7, <1>8 DEF Sending

LEMMA AdbdEnded ==
  ASSUME TypeOK, NEW r \in RemoteIds, OfCall(r), kind[call] = "push", Ended(r),
         Speaks, UNCHANGED hostVars
  PROVE  OfCall(r)' /\ Ended(r)'
<1>1. Got(r) \in Nat /\ Records \in Nat \ {0} /\ step \in Nat /\ 0 \in Nat /\ 1 \in Nat
  BY StreamParts, MyAdbAssumption DEF TypeOK
<1>2. UNCHANGED <<call, kind, data, step, local_id>>
  BY DEF hostVars
<1>3. r \notin failed /\ Service(r) = "push"
  BY ServiceIs DEF Ended, OfCall
<1>4. ServiceEnd(r) => Got(r) > Records
  BY <1>3, ServiceSteps
<1>5. ASSUME step = 2 * Records, Got(r) = Records, Open(r), Talk(r, 0, <<>>, <<>>)
      PROVE  OfCall(r)' /\ Ended(r)'
  <2>1. /\ OfCall(r)' /\ Talk(r, 0, <<>>, <<>>)'
        /\ \/ Acked(r, 0, <<>>, <<>>)
           \/ Said(r, 0, <<>>, <<>>)
           \/ Finished(r, 0, <<>>, <<>>)
    BY <1>1, <1>5, AdbdTalks
  <2>2. Got(r)' = Records /\ UNCHANGED failed /\ (Open(r))'
    <3>1. PushStep(r, 0, <<>>, <<>>)
      BY <1>1, <1>5, <2>1, PushSays
    <3> QED BY <1>1, <1>5, <2>1, <3>1 DEF PushStep
  <2> QED BY <1>2, <1>3, <1>5, <2>1, <2>2 DEF Ended
<1>6. ASSUME Got(r) = Records, Owes(r) PROVE FALSE
  BY <1>1, <1>4, <1>6, AdbdWaits DEF Owes
<1>7. ASSUME data[call] = << <<r, 1>> >>, stream[r].sent = 1,
             step = 2 * Records + 2, Got(r) = Records, Open(r), Talk(r, 1, <<>>, <<>>)
      PROVE  OfCall(r)' /\ Ended(r)'
  <2>1. /\ OfCall(r)' /\ Talk(r, 1, <<>>, <<>>)'
        /\ \/ Acked(r, 1, <<>>, <<>>)
           \/ Said(r, 1, <<>>, <<>>)
           \/ Finished(r, 1, <<>>, <<>>)
    BY <1>1, <1>7, AdbdTalks
  <2>2. Got(r)' = Records /\ UNCHANGED failed /\ (Open(r))' /\ stream'[r].sent = 1
    <3>1. PushStep(r, 1, <<>>, <<>>)
      BY <1>1, <1>7, <2>1, PushSays
    <3> QED BY <1>1, <1>7, <2>1, <3>1 DEF PushStep
  <2> QED BY <1>2, <1>3, <1>7, <2>1, <2>2 DEF Ended
<1>8. ASSUME data[call] = << <<r, 1>> >>, stream[r].sent = 1,
             step = 2 * Records + 3, Got(r) = Records, Open(r),
             Talk(r, 1, <<>>, <<WriteTo(r, step)>>)
      PROVE  OfCall(r)' /\ Ended(r)'
  <2>1. PICK k \in Nat : k = step
    BY <1>1
  <2>2. Talk(r, 1, <<>>, <<WriteTo(r, k)>>)
    BY <1>8, <2>1
  <2>3. OfCall(r)'
    BY <1>1, <1>8, <2>2, AdbdAsked
  <2>4. CASE /\ Talk(r, 1, <<>>, <<WriteTo(r, k)>>)'
             /\ \/ Acked(r, 1, <<>>, <<WriteTo(r, k)>>)
                \/ Said(r, 1, <<>>, <<WriteTo(r, k)>>)
                \/ Finished(r, 1, <<>>, <<WriteTo(r, k)>>)
    <3>1. Got(r)' = Records /\ UNCHANGED failed /\ (Open(r))' /\ stream'[r].sent = 1
      <4>1. PushStep(r, 1, <<>>, <<WriteTo(r, k)>>)
        BY <1>1, <1>8, <2>4, PushSays
      <4> QED BY <1>1, <1>8, <2>4, <4>1 DEF PushStep
    <3>2. Talk(r, 1, <<>>, <<WriteTo(r, step)>>)'
      <4>1. step' = k
        BY <1>2, <2>1
      <4> QED BY <2>4, <4>1
    <3> QED BY <1>2, <1>3, <1>8, <2>3, <3>1, <3>2 DEF Ended
  <2>5. CASE /\ stream[r].sent = 1 => Talk(r, 1, <<Header(Yes(r))>>, <<>>)'
             /\ Taken(r, 1, <<WriteTo(r, k)>>) /\ (Open(r))' /\ Got(r)' = Got(r) + 1
    <3>1. /\ Talk(r, 1, <<Header(Yes(r))>>, <<>>)' /\ UNCHANGED failed /\ stream'[r].sent = 1
          /\ out' = <<>>
      BY <1>8, <2>5 DEF Taken
    <3>2. Got(r)' = Records + 1
      BY <1>8, <2>5
    <3> QED BY <1>2, <1>3, <1>8, <2>3, <3>1, <3>2 DEF Ended
  <2> QED BY <1>1, <1>8, <2>2, <2>4, <2>5, AdbdAsked
<1>9. ASSUME data[call] = << <<r, 1>> >>, stream[r].sent = 1, step = 2 * Records + 3,
             Got(r) = Records + 1, out = <<>>, Talk(r, 1, <<>>, <<>>)
      PROVE  OfCall(r)' /\ Ended(r)'
  <2>1. /\ OfCall(r)' /\ Talk(r, 1, <<>>, <<>>)'
        /\ \/ Acked(r, 1, <<>>, <<>>)
           \/ Said(r, 1, <<>>, <<>>)
           \/ Finished(r, 1, <<>>, <<>>)
    BY <1>1, <1>9, AdbdTalks
  <2>2. Got(r)' = Records + 1 /\ UNCHANGED failed /\ stream'[r].sent = 1 /\ out' = <<>>
    <3>1. PushStep(r, 1, <<>>, <<>>)
      BY <1>1, <1>9, <2>1, PushSays
    <3> QED BY <1>1, <1>9, <2>1, <3>1 DEF PushStep
  <2> QED BY <1>2, <1>3, <1>9, <2>1, <2>2 DEF Ended
<1>10. ASSUME data[call] = << <<r, 1>> >>, stream[r].sent = 1, step = 2 * Records + 3,
             Got(r) = Records + 1, out = <<>>, Talk(r, 1, <<Header(Yes(r))>>, <<>>)
       PROVE  OfCall(r)' /\ Ended(r)'
  <2>1. /\ OfCall(r)' /\ Talk(r, 1, <<Header(Yes(r))>>, <<>>)'
        /\ \/ Acked(r, 1, <<Header(Yes(r))>>, <<>>)
           \/ Said(r, 1, <<Header(Yes(r))>>, <<>>)
           \/ Finished(r, 1, <<Header(Yes(r))>>, <<>>)
    BY <1>1, <1>10, AdbdYes
  <2>2. Got(r)' = Records + 1 /\ UNCHANGED failed /\ stream'[r].sent = 1 /\ out' = <<>>
    <3>1. PushStep(r, 1, <<Header(Yes(r))>>, <<>>)
      BY <1>1, <1>10, <2>1, PushSays
    <3> QED BY <1>1, <1>10, <2>1, <3>1 DEF PushStep
  <2> QED BY <1>2, <1>3, <1>10, <2>1, <2>2 DEF Ended
<1>11. ASSUME ~Open(r), out = <<>> PROVE FALSE
  BY <1>11, AdbdWaits DEF Open, IsOpen
<1> QED BY <1>5, <1>6, <1>7, <1>8, <1>9, <1>10, <1>11 DEF Ended

(* adbd takes a record of a push whose service has failed.                 *)
LEMMA AdbdTakesRecord ==
  ASSUME TypeOK, NEW r \in RemoteIds, OfCall(r), kind[call] = "push", Speaks, UNCHANGED hostVars,
         stream[r].st = "waitack", stream[r].sent = 1, Got(r) <= Records,
         out = <<>> \/ out = <<WriteTo(r, step)>>
  PROVE  /\ out = <<WriteTo(r, step)>> /\ out' = <<>>
         /\ inp' = inp \o <<Header(Yes(r))>>
         /\ stream'[r].st = "waitack" /\ stream'[r].sent = 1 /\ Got(r)' = Got(r) + 1
         /\ OfCall(r)'
<1>1. Got(r) \in Nat /\ Records \in Nat \ {0} /\ step \in Nat
  BY StreamParts, MyAdbAssumption DEF TypeOK
<1>2. UNCHANGED <<call, kind, local_id, base_id>>
  BY DEF hostVars
<1>3. Service(r) = "push"
  BY ServiceIs DEF OfCall
<1>4. ~ServiceEnd(r) /\ ~DevStreamWrite(r)
  BY <1>1, <1>3, ServiceSteps DEF DevStreamWrite
<1>5. out # <<>>
  BY <1>4, AdbdWaits
<1>6. out = <<WriteTo(r, step)>>
  BY <1>5
<1>7. DevPacket /\ UNCHANGED failed
  BY <1>4, OneSpeaks DEF ServiceAnswer, ServiceWrite, ServiceFails
<1>8. /\ Frame = WriteTo(r, step) /\ Frame.cmd = "WRTE" /\ Frame.arg1 = r
      /\ Frame.arg0 = local_id /\ Frame.data \in Data /\ Tail(out) = <<>>
  <2>1. /\ WriteTo(r, step) \in Packet /\ WriteTo(r, step).cmd = "WRTE"
        /\ WriteTo(r, step).arg0 = local_id /\ WriteTo(r, step).arg1 = r
    BY <1>1, WriteParts
  <2>2. Head(out) = WriteTo(r, step) /\ Tail(out) = <<>>
    BY <1>6, <2>1, OneItem
  <2>3. Frame.data \in Data
    BY <1>5, OutParts
  <2> QED BY <2>1, <2>2, <2>3 DEF Frame
<1>9. DevHostWrite
  BY <1>7, <1>8, AckDoes, CloseDoes, OpenDoes DEF DevPacket
<1>10. IsOpen(r)
  BY DEF IsOpen
<1>11. /\ Becomes(r, "waitack", 1, Append(stream[r].got, Frame.data))
       /\ DevWrites(Pkt("OKAY", r, local_id, NoData)) /\ out' = <<>>
  BY <1>8, <1>9, <1>10, WriteDoes
<1>12. inp' = inp \o <<Header(Yes(r))>>
  <2>1. inp' = inp \o Transfers(Yes(r))
    BY <1>11 DEF DevWrites, Yes
  <2>2. Yes(r) \in Packet /\ Yes(r).data = NoData
    BY <1>1, Msgs
  <2> QED BY <2>1, <2>2, TransfersType
<1>13. stream'[r].st = "waitack" /\ stream'[r].sent = 1 /\ Got(r)' = Got(r) + 1
  <2>1. stream[r].got \in Seq(Data)
    BY StreamParts
  <2>2. stream'[r].got = Append(stream[r].got, Frame.data)
    BY <1>11 DEF Becomes
  <2> QED BY <1>8, <1>11, <2>1, <2>2, AppendItems DEF Becomes, Got
<1>14. OfCall(r)'
  BY <1>2, <1>11, OthersSilent DEF Becomes
<1> QED BY <1>6, <1>11, <1>12, <1>13, <1>14

LEMMA AdbdDoomed ==
  ASSUME TypeOK, NEW r \in RemoteIds, OfCall(r), kind[call] = "push", Doomed(r),
         Speaks, UNCHANGED hostVars
  PROVE  OfCall(r)' /\ Doomed(r)'
<1>1. Got(r) \in Nat /\ Records \in Nat \ {0} /\ step \in Nat
  BY StreamParts, MyAdbAssumption DEF TypeOK
<1>2. UNCHANGED <<call, local_id, step>>
  BY DEF hostVars
<1>3. /\ stream[r].st = "waitack" /\ stream[r].sent = 1 /\ Got(r) <= Records
      /\ out = <<>> \/ out = <<WriteTo(r, step)>>
  BY <1>1 DEF Doomed
<1>4. /\ out = <<WriteTo(r, step)>> /\ out' = <<>> /\ inp' = inp \o <<Header(Yes(r))>>
      /\ stream'[r].st = "waitack" /\ stream'[r].sent = 1 /\ Got(r)' = Got(r) + 1
      /\ OfCall(r)'
  BY <1>3, AdbdTakesRecord
<1>5. /\ step = 2 * Got(r) + 1 /\ Got(r) < Records
      /\ inp = FailOf(r) \/ inp = Tail(FailOf(r))
  <2>1. out # <<>>
    BY <1>1, <1>4, WriteParts, OneItem
  <2> QED BY <2>1 DEF Doomed, FailOf
<1>6. FailOf(r)' = FailOf(r) /\ Header(Yes(r))' = Header(Yes(r))
  BY <1>2, SameFail
<1>7. step' + 1 = 2 * Got(r)' /\ Got(r)' \in 1..Records
  BY <1>1, <1>2, <1>4, <1>5
<1>8. inp' = FailOf(r)' \o <<Header(Yes(r))'>> \/ inp' = Tail(FailOf(r)') \o <<Header(Yes(r))'>>
  BY <1>4, <1>5, <1>6
<1> QED BY <1>4, <1>7, <1>8 DEF Doomed, FailOf

LEMMA AdbdStarved ==
  ASSUME TypeOK, NEW r \in RemoteIds, OfCall(r), kind[call] = "push", Starved(r),
         Speaks, UNCHANGED hostVars
  PROVE  OfCall(r)' /\ Starved(r)'
<1>1. Got(r) \in Nat /\ Records \in Nat \ {0} /\ step \in Nat
  BY StreamParts, MyAdbAssumption DEF TypeOK
<1>2. UNCHANGED <<call, local_id, step>>
  BY DEF hostVars
<1>3. /\ stream[r].st = "waitack" /\ stream[r].sent = 1 /\ Got(r) <= Records
      /\ out = <<>> \/ out = <<WriteTo(r, step)>>
  BY <1>1 DEF Starved
<1>4. /\ out = <<WriteTo(r, step)>> /\ out' = <<>> /\ inp' = inp \o <<Header(Yes(r))>>
      /\ stream'[r].st = "waitack" /\ stream'[r].sent = 1 /\ Got(r)' = Got(r) + 1
      /\ OfCall(r)'
  BY <1>3, AdbdTakesRecord
<1>5. step = 2 * Got(r) + 1 /\ Got(r) < Records /\ inp = <<>>
  <2>1. out # <<>>
    BY <1>1, <1>4, WriteParts, OneItem
  <2> QED BY <2>1 DEF Starved
<1>6. Header(Yes(r))' = Header(Yes(r)) /\ <<Header(Yes(r))>> \in Seq(Transfer)
  BY <1>2, SameFail, FailIs
<1>7. step' + 1 = 2 * Got(r)' /\ Got(r)' \in 1..Records
  BY <1>1, <1>2, <1>4, <1>5
<1>8. inp' = <<Header(Yes(r))'>>
  BY <1>4, <1>5, <1>6, CatEmpty
<1> QED BY <1>4, <1>7, <1>8 DEF Starved

-----------------------------------------------------------------------------
(* What calls have left behind.                                            *)
SameStreams ==
  \A q \in RemoteIds : /\ stream'[q].st = stream[q].st
                       /\ stream'[q].service = stream[q].service
                       /\ stream'[q].peer = stream[q].peer

LEMMA LeavesReply ==
  ASSUME TypeOK, NEW n \in Nat, out # <<>>, Frame.arg0 < n, NEW c \in {"OKAY", "CLSE"},
         DevWrites(Pkt(c, Frame.arg1, Frame.arg0, NoData))
  PROVE  \E t \in Transfer : Over(t, n) /\ inp' = Append(inp, t)
<1> DEFINE p == Pkt(c, Frame.arg1, Frame.arg0, NoData)
<1>1. /\ p \in Packet /\ p.cmd = c /\ p.arg1 = Frame.arg0 /\ p.data = NoData
  <2>1. Frame.arg0 \in Nat /\ Frame.arg1 \in Nat
    BY OutParts
  <2> QED BY <2>1, NoDataType, PacketType
<1> HIDE DEF p
<1>2. /\ Header(p) \in Transfer /\ Header(p).kind = "header" /\ Header(p).packet = p
      /\ Transfers(p) = <<Header(p)>>
  BY <1>1, HeaderType, TransfersType
<1>3. inp' = inp \o <<Header(p)>> /\ inp \in Seq(Transfer)
  BY <1>2, StreamType DEF DevWrites, p
<1>4. inp' = Append(inp, Header(p))
  BY <1>2, <1>3, AppendParts
<1>5. Over(Header(p), n)
  BY <1>1, <1>2 DEF Over
<1> QED BY <1>2, <1>4, <1>5

LEMMA LeavesStep ==
  ASSUME TypeOK, NEW n \in Nat, DevPacket, Ending(Frame, n)
  PROVE  /\ out # <<>> /\ SameStreams /\ out' = Tail(out)
         /\ UNCHANGED inp \/ \E t \in Transfer : Over(t, n) /\ inp' = Append(inp, t)
<1>1. Frame.arg0 < n /\ Frame.arg1 \in RemoteIds
  BY DEF Ending
<1>2. CASE DevAck
  <2>1. UNCHANGED <<stream, inp>> /\ out # <<>> /\ out' = Tail(out)
    BY <1>2 DEF DevAck, Receives, Ending
  <2> QED BY <2>1 DEF SameStreams
<1>3. CASE DevCloseRequest
  <2>1. /\ out # <<>> /\ out' = Tail(out) /\ Frame.cmd = "CLSE"
        /\ DevWrites(Pkt("CLSE", Frame.arg1, Frame.arg0, NoData)) \/ UNCHANGED inp
        /\ ~IsOpen(Frame.arg1) => UNCHANGED stream
    BY <1>3, CloseDoes
  <2>2. UNCHANGED stream
    BY <2>1 DEF Ending, IsOpen
  <2> QED BY <1>1, <2>1, <2>2, LeavesReply DEF SameStreams
<1>4. CASE DevHostWrite
  <2>1. /\ out # <<>> /\ out' = Tail(out)
        /\ DevWrites(Pkt("OKAY", Frame.arg1, Frame.arg0, NoData)) \/ UNCHANGED inp
    BY <1>4, WriteDoes
  <2>2. SameStreams
    BY <1>1, <1>4, WriteDoes DEF SameStreams, Becomes
  <2> QED BY <1>1, <2>1, <2>2, LeavesReply
<1>5. ~DevOpen
  BY OpenDoes DEF Ending
<1> QED BY <1>2, <1>3, <1>4, <1>5 DEF DevPacket

LEMMA LeftTail ==
  ASSUME NEW l \in Seq(Packet), l # <<>>, NEW n, LeftOut(l, n)
  PROVE  Ending(Head(l), n) /\ LeftOut(Tail(l), n)
BY TailItems DEF LeftOut

LEMMA LeftMore ==
  ASSUME NEW l \in Seq(Transfer), NEW t \in Transfer, NEW n, LeftIn(l, n), Over(t, n)
  PROVE  LeftIn(Append(l, t), n)
BY AppendItems DEF LeftIn

LEMMA LeftBehind ==
  ASSUME NEW l \in Seq(Packet), NEW s \in Seq(Transfer), NEW n \in Nat, NEW m \in Nat, n <= m,
         LeftOut(l, n), LeftIn(s, n), \A i \in 1..Len(l) : l[i].arg0 \in Nat,
         \A i \in 1..Len(s) : s[i].packet.arg1 \in Nat
  PROVE  LeftOut(l, m) /\ LeftIn(s, m)
BY DEF LeftOut, LeftIn, Ending, Over

LEMMA SameLeft ==
  ASSUME NEW l, NEW n, SameStreams, LeftOut(l, n)
  PROVE  LeftOut(l, n)'
BY DEF LeftOut, Ending, SameStreams

LEMMA SameSilent ==
  ASSUME SameStreams \/ UNCHANGED stream, UNCHANGED <<call, kind, base_id>>, AllSilent
  PROVE  AllSilent'
BY DEF AllSilent, Silent, IsActive, SameStreams

LEMMA NoPacket ==
  ASSUME out = <<>>
  PROVE  ~DevPacket
BY DEF DevPacket, DevOpen, DevAck, DevHostWrite, DevCloseRequest, Receives

LEMMA SpeaksIdle ==
  ASSUME TypeOK, IdlePhase, Speaks, UNCHANGED hostVars
  PROVE  IdlePhase'
<1>1. AllSilent /\ LeftOut(out, base_id + 1) /\ LeftIn(inp, base_id + 1)
  BY DEF IdlePhase
<1>2. PICK n \in Nat : n = base_id + 1
  BY DEF TypeOK
<1>3. DevPacket /\ out # <<>> /\ out \in Seq(Packet) /\ inp \in Seq(Transfer)
  BY <1>1, OnlyPackets, NoPacket, StreamType
<1>4. Ending(Frame, n) /\ LeftOut(Tail(out), n)
  BY <1>1, <1>2, <1>3, LeftTail DEF Frame
<1>5. /\ SameStreams /\ out' = Tail(out)
      /\ UNCHANGED inp \/ \E t \in Transfer : Over(t, n) /\ inp' = Append(inp, t)
  BY <1>3, <1>4, LeavesStep
<1>6. UNCHANGED <<call, kind, base_id>> /\ n = base_id' + 1
  BY <1>2 DEF hostVars
<1>7. AllSilent'
  BY <1>1, <1>5, <1>6, SameSilent
<1>8. PICK l : l = Tail(out)
  OBVIOUS
<1>9. LeftOut(l, n)'
  BY <1>4, <1>5, <1>8, SameLeft
<1>10. LeftIn(inp', n)
  BY <1>1, <1>2, <1>3, <1>5, LeftMore
<1>11. LeftOut(out, base_id + 1)'
  BY <1>5, <1>6, <1>8, <1>9 DEF LeftOut
<1>12. LeftIn(inp, base_id + 1)'
  BY <1>6, <1>10 DEF LeftIn, Over
<1> QED BY <1>7, <1>11, <1>12 DEF IdlePhase

(* An interactive shell may end between two calls.                         *)
LEMMA AdbdIdle ==
  ASSUME TypeOK, IdlePhase, Adbd, UNCHANGED hostVars
  PROVE  IdlePhase'
<1>1. AllSilent /\ LeftOut(out, base_id + 1) /\ LeftIn(inp, base_id + 1)
  BY DEF IdlePhase
<1>2. UNCHANGED <<call, kind, base_id>> /\ base_id \in Nat
  BY DEF hostVars, TypeOK
<1>3. ASSUME NEW r \in RemoteIds, ShellExits(r)
      PROVE  IdlePhase'
  <2>1. /\ IsOpen(r) /\ UNCHANGED out
        /\ Becomes(r, "closed", stream[r].sent, stream[r].got)
        /\ DevWrites(Pkt("CLSE", r, stream[r].peer, NoData))
    BY <1>3, EndDoes DEF ShellExits
  <2>2. stream[r].peer \in Nat /\ stream[r].peer <= base_id
    BY <1>1, <2>1, StreamParts DEF AllSilent, Silent, IsOpen
  <2>3. AllSilent'
    BY <1>1, <1>2, <2>1 DEF AllSilent, Silent, IsActive, Becomes
  <2>4. LeftOut(out, base_id + 1)'
    BY <1>1, <1>2, <2>1 DEF LeftOut, Ending, Becomes
  <2> DEFINE p == Pkt("CLSE", r, stream[r].peer, NoData)
  <2>5. p \in Packet /\ p.cmd = "CLSE" /\ p.arg1 = stream[r].peer /\ p.data = NoData
    <3>1. r \in Nat
      BY StreamType
    <3> QED BY <2>2, <3>1, NoDataType, PacketType
  <2> HIDE DEF p
  <2>6. /\ Header(p) \in Transfer /\ Header(p).kind = "header" /\ Header(p).packet = p
        /\ Transfers(p) = <<Header(p)>>
    BY <2>5, HeaderType, TransfersType
  <2>7. inp' = inp \o <<Header(p)>> /\ inp \in Seq(Transfer)
    BY <2>1, <2>6, StreamType DEF DevWrites, p
  <2>8. inp' = Append(inp, Header(p))
    BY <2>6, <2>7, AppendParts
  <2>9. Over(Header(p), base_id + 1)
    BY <1>2, <2>2, <2>5, <2>6 DEF Over
  <2>10. LeftIn(inp', base_id + 1)
    BY <1>1, <2>6, <2>7, <2>8, <2>9, LeftMore
  <2>11. LeftIn(inp, base_id + 1)'
    BY <1>2, <2>10 DEF LeftIn, Over
  <2> QED BY <2>3, <2>4, <2>11 DEF IdlePhase
<1>4. Speaks \/ \E r \in RemoteIds : ShellExits(r)
  BY DEF Adbd, Speaks, envVars
<1> QED BY <1>3, <1>4, SpeaksIdle

(* adbd opens the stream of the call, or refuses it.                       *)
LEMMA OpensOrRefuses ==
  ASSUME TypeOK, FailedOpened, AllSilent, out = <<Pkt("OPEN", local_id, 0, <<call, 0>>)>>,
         LeftIn(inp, local_id), DevPacket, UNCHANGED hostVars, UNCHANGED failed
  PROVE  Refusing' \/ \E r \in RemoteIds : Opened(r)'
<1>1. /\ local_id \in Nat /\ call \in Nat /\ NoData \in Data /\ 0 \in Nat /\ inp \in Seq(Transfer)
      /\ RemoteIds \subseteq Nat
  BY StreamType, NoDataType DEF TypeOK
<1>2. PICK d \in Data : d = <<call, 0>>
  BY <1>1, PairType
<1> DEFINE p == Pkt("OPEN", local_id, 0, d)
<1>3. p \in Packet /\ p.cmd = "OPEN" /\ p.arg0 = local_id /\ p.data = d
  BY <1>1 DEF Pkt, Packet
<1> HIDE DEF p
<1>4. out = <<p>>
  BY <1>2 DEF p
<1>5. Frame = p /\ Tail(out) = <<>>
  BY <1>3, <1>4, OneItem DEF Frame
<1>6. DevOpen
  BY <1>3, <1>5, AckDoes, WriteDoes, CloseDoes DEF DevPacket
<1>7. UNCHANGED <<call, kind, local_id, base_id>>
  BY DEF hostVars
<1>8. out' = <<>> /\ stream' \in [RemoteIds -> Stream]
  BY <1>5, <1>6, OpenDoes
<1>9. ASSUME UNCHANGED stream, DevWrites(Pkt("CLSE", 0, Frame.arg0, NoData))
      PROVE  Refusing'
  <2> DEFINE q == Pkt("CLSE", 0, local_id, NoData)
  <2>1. q \in Packet /\ q.data = NoData
    <3>1. \A d0 \in Data : Pkt("CLSE", 0, local_id, d0) \in Packet
                          /\ Pkt("CLSE", 0, local_id, d0).data = d0
      BY <1>1, PacketType
    <3> QED BY <1>1, <3>1
  <2>2. DevWrites(q)
    BY <1>3, <1>5, <1>9
  <2>3. q' = q
    BY <1>7 DEF Pkt
  <2> HIDE DEF q
  <2>4. Header(q) \in Transfer /\ Transfers(q) = <<Header(q)>>
    BY <2>1, HeaderType, TransfersType
  <2>5. inp' = Append(inp, Header(q))
    BY <1>1, <2>2, <2>4, AppendParts DEF DevWrites
  <2>6. Header(q)' = Header(q)
    BY <2>3 DEF Header
  <2>7. AllSilent'
    BY <1>7, <1>9, SameSilent
  <2>8. PICK l \in Seq(Transfer) : l = inp
    BY <1>1
  <2>9. inp' = Append(l, Header(q)') /\ LeftIn(l, local_id)'
    BY <1>7, <2>5, <2>6, <2>8 DEF LeftIn, Over
  <2> QED BY <1>8, <2>7, <2>9 DEF Refusing, q
<1>10. ASSUME NEW r \in RemoteIds,
              stream[r].st = "none",
              \A x \in RemoteIds : x # r => stream'[x] = stream[x],
              stream'[r].st = "ready", stream'[r].sent = 0, stream'[r].got = <<>>,
              stream'[r].peer = Frame.arg0, stream'[r].service = Frame.data,
              DevWrites(Pkt("OKAY", r, Frame.arg0, NoData))
       PROVE  Opened(r)'
  <2>1. Yes(r) \in Packet /\ Yes(r).data = NoData
    BY <1>1, Msgs
  <2>2. DevWrites(Yes(r))
    BY <1>3, <1>5, <1>10 DEF Yes
  <2>3. Header(Yes(r)) \in Transfer /\ Transfers(Yes(r)) = <<Header(Yes(r))>>
    BY <2>1, HeaderType, TransfersType
  <2>4. inp' = Append(inp, Header(Yes(r)))
    BY <1>1, <2>2, <2>3, AppendParts DEF DevWrites
  <2>5. Header(Yes(r))' = Header(Yes(r))
    BY <1>7 DEF Yes, Header
  <2>6. PICK l \in Seq(Transfer) : l = inp
    BY <1>1
  <2>7. Unread(r, 0)' = <<>>
    <3>1. Unread(r, 0)' = <<>> \o <<>>
      BY <1>10 DEF Unread
    <3> QED BY <3>1
  <2>8. inp' = Append(l, Header(Yes(r))') \o Unread(r, 0)'
    <3>1. Append(l, Header(Yes(r))) \in Seq(Transfer)
      BY <2>3, AppendItems
    <3> QED BY <2>4, <2>5, <2>6, <2>7, <3>1, CatEmpty
  <2>9. Turn(r, 0, <<>>)'
    BY <1>10 DEF Turn
  <2>10. Talk(r, 0, Append(l, Header(Yes(r))), <<>>)'
    <3>1. out' = <<>> \o <<>>
      BY <1>8
    <3> QED BY <2>8, <2>9, <3>1 DEF Talk
  <2>11. LeftIn(l, local_id)'
    BY <1>7, <2>6 DEF LeftIn, Over
  <2>12. OfCall(r)'
    BY <1>2, <1>3, <1>5, <1>7, <1>10 DEF OfCall, AllSilent, Silent, IsActive
  <2>13. r \notin failed'
    BY <1>10 DEF FailedOpened
  <2>14. Began(r)'
    BY <1>10, <2>12, <2>13 DEF Began, Open
  <2> QED BY <1>8, <2>10, <2>11, <2>14 DEF Opened
<1>11. \/ \E r \in RemoteIds :
            /\ stream[r].st = "none"
            /\ \A x \in RemoteIds : x # r => stream'[x] = stream[x]
            /\ stream'[r].st = "ready" /\ stream'[r].sent = 0 /\ stream'[r].got = <<>>
            /\ stream'[r].peer = Frame.arg0 /\ stream'[r].service = Frame.data
            /\ DevWrites(Pkt("OKAY", r, Frame.arg0, NoData))
       \/ UNCHANGED stream /\ DevWrites(Pkt("CLSE", 0, Frame.arg0, NoData))
  BY <1>6, OpenDoes
<1> QED BY <1>9, <1>10, <1>11

LEMMA AdbdAsking ==
  ASSUME TypeOK, FailedOpened, Asking, Speaks, UNCHANGED hostVars
  PROVE  Asking' \/ Refusing' \/ \E r \in RemoteIds : Opened(r)'
<1>1. PICK l \in Seq(Packet) :
        out = Append(l, Pkt("OPEN", local_id, 0, <<call, 0>>)) /\ LeftOut(l, local_id)
  BY DEF Asking
<1>2. AllSilent /\ LeftIn(inp, local_id)
  BY DEF Asking
<1>3. DevPacket /\ UNCHANGED failed
  BY <1>2, OnlyPackets
<1>4. Pkt("OPEN", local_id, 0, <<call, 0>>) \in Packet
  <2>1. local_id \in Nat /\ call \in Nat /\ 0 \in Nat
    BY DEF TypeOK
  <2>2. PICK d \in Data : d = <<call, 0>>
    BY <2>1, PairType
  <2>3. Pkt("OPEN", local_id, 0, d) \in Packet
    BY <2>1, PacketType
  <2> QED BY <2>2, <2>3
<1>5. CASE l = <<>>
  <2>1. out = <<Pkt("OPEN", local_id, 0, <<call, 0>>)>>
    BY <1>1, <1>4, <1>5, OneItem
  <2> QED BY <1>2, <1>3, <2>1, OpensOrRefuses
<1>6. CASE l # <<>>
  <2>1. PICK n \in Nat : n = local_id
    BY DEF TypeOK
  <2>2. UNCHANGED <<call, kind, local_id, base_id>>
    BY DEF hostVars
  <2>3. /\ Head(out) = Head(l) /\ Tail(out) = Append(Tail(l), Pkt("OPEN", local_id, 0, <<call, 0>>))
        /\ Tail(l) \in Seq(Packet)
    BY <1>1, <1>4, <1>6, AppendParts
  <2>4. Ending(Frame, n) /\ LeftOut(Tail(l), n)
    BY <1>1, <1>6, <2>1, <2>3, LeftTail DEF Frame
  <2>5. /\ SameStreams /\ out' = Tail(out)
        /\ UNCHANGED inp \/ \E t \in Transfer : Over(t, n) /\ inp' = Append(inp, t)
    BY <1>3, <2>4, LeavesStep
  <2>6. AllSilent'
    BY <1>2, <2>2, <2>5, SameSilent
  <2>7. LeftIn(inp', n)
    BY <1>2, <2>1, <2>5, StreamType, LeftMore
  <2>8. LeftIn(inp, local_id)'
    BY <2>1, <2>2, <2>7 DEF LeftIn, Over
  <2>9. PICK m \in Seq(Packet) : m = Tail(l)
    BY <2>3
  <2>10. LeftOut(m, n)'
    BY <2>4, <2>5, <2>9, SameLeft
  <2>11. out' = Append(m, Pkt("OPEN", local_id, 0, <<call, 0>>)') /\ LeftOut(m, local_id)'
    BY <2>1, <2>2, <2>3, <2>5, <2>9, <2>10 DEF LeftOut, Pkt
  <2>12. Asking'
    BY <2>6, <2>8, <2>11 DEF Asking
  <2> QED BY <2>12
<1> QED BY <1>5, <1>6

LEMMA AdbdAnswer ==
  ASSUME TypeOK, FailedOpened, AnswerPhase, Speaks, UNCHANGED hostVars
  PROVE  AnswerPhase'
<1>1. local_id = base_id /\ local_id' = base_id'
  BY DEF AnswerPhase, hostVars
<1>2. CASE Asking
  BY <1>1, <1>2, AdbdAsking DEF AnswerPhase
<1>3. CASE Refusing
  BY <1>3, OnlyPackets, NoPacket DEF Refusing
<1>4. ASSUME NEW r \in RemoteIds, Opened(r)
      PROVE  AnswerPhase'
  BY <1>1, <1>4, AdbdOpened DEF AnswerPhase
<1> QED BY <1>2, <1>3, <1>4 DEF AnswerPhase

(* Nothing but OKAY and CLSE comes of what is written to silent streams.   *)
Harmless(p) ==
  /\ p.cmd \in {"OKAY", "CLSE", "WRTE"} /\ p.arg1 \in RemoteIds
  /\ p.cmd = "OKAY" => stream[p.arg1].st = "closed"
Plain(t) == t.kind = "header" /\ t.packet.cmd \in {"OKAY", "CLSE"} /\ t.packet.data = NoData

LEMMA RepeatingIs ==
  Repeating <=>
    /\ AllSilent /\ remote_id \in RemoteIds
    /\ \A i \in 1..Len(out) : Harmless(out[i])
    /\ \A i \in 1..Len(inp) : Plain(inp[i])
BY DEF Repeating, Harmless, Plain

LEMMA PlainReply ==
  ASSUME TypeOK, NEW c \in {"OKAY", "CLSE"}, NEW a \in Nat, NEW b \in Nat,
         DevWrites(Pkt(c, a, b, NoData)), \A i \in 1..Len(inp) : Plain(inp[i])
  PROVE  \A i \in 1..Len(inp') : Plain(inp'[i])
<1> DEFINE p == Pkt(c, a, b, NoData)
<1>1. p \in Packet /\ p.cmd = c /\ p.data = NoData
  BY NoDataType, PacketType
<1> HIDE DEF p
<1>2. /\ Header(p) \in Transfer /\ Header(p).kind = "header" /\ Header(p).packet = p
      /\ Transfers(p) = <<Header(p)>>
  BY <1>1, HeaderType, TransfersType
<1>3. inp \in Seq(Transfer) /\ inp' = inp \o <<Header(p)>>
  BY <1>2, StreamType DEF DevWrites, p
<1>4. inp' = Append(inp, Header(p))
  BY <1>2, <1>3, AppendParts
<1>5. Plain(Header(p))
  BY <1>1, <1>2 DEF Plain
<1> QED BY <1>2, <1>3, <1>4, <1>5, AppendItems

LEMMA AdbdRepeating ==
  ASSUME TypeOK, Repeating, Speaks, UNCHANGED hostVars
  PROVE  Repeating'
<1>1. /\ AllSilent /\ remote_id \in RemoteIds
      /\ \A i \in 1..Len(out) : Harmless(out[i])
      /\ \A i \in 1..Len(inp) : Plain(inp[i])
  BY RepeatingIs
<1>2. DevPacket /\ UNCHANGED failed
  BY <1>1, OnlyPackets
<1>3. out # <<>> /\ out \in Seq(Packet)
  BY <1>2, NoPacket, StreamType
<1>4. Harmless(Frame) /\ Tail(out) \in Seq(Packet)
      /\ \A i \in 1..Len(Tail(out)) : Harmless(Tail(out)[i]) /\ Tail(out)[i].arg1 \in RemoteIds
  BY <1>1, <1>3, TailItems DEF Frame, Harmless
<1>5. /\ Frame.arg0 \in Nat /\ Frame.arg1 \in Nat /\ Frame.arg1 \in RemoteIds
  BY <1>3, <1>4, OutParts DEF Harmless
<1>6. ~DevOpen
  BY <1>4, OpenDoes DEF Harmless
<1> DEFINE Quietly ==
             /\ out' = Tail(out)
             /\ \A q \in RemoteIds :
                  /\ stream'[q].st = stream[q].st \/ stream'[q].st = "closed"
                  /\ stream'[q].service = stream[q].service
                  /\ stream'[q].peer = stream[q].peer
             /\ \A i \in 1..Len(inp') : Plain(inp'[i])
<1>7. ASSUME DevAck PROVE Quietly
  <2>1. Frame.cmd = "OKAY" /\ out' = Tail(out) /\ UNCHANGED inp
    BY <1>7, AckDoes
  <2>2. UNCHANGED stream
    BY <1>4, <1>7, <2>1 DEF DevAck, Harmless
  <2> QED BY <1>1, <2>1, <2>2
<1>8. ASSUME DevHostWrite PROVE Quietly
  <2>1. out' = Tail(out)
    BY <1>8, WriteDoes
  <2>2. \A q \in RemoteIds :
          /\ stream'[q].st = stream[q].st /\ stream'[q].service = stream[q].service
          /\ stream'[q].peer = stream[q].peer
    BY <1>5, <1>8, WriteDoes DEF Becomes
  <2>3. \A i \in 1..Len(inp') : Plain(inp'[i])
    <3>1. DevWrites(Pkt("OKAY", Frame.arg1, Frame.arg0, NoData)) \/ UNCHANGED inp
      BY <1>8, WriteDoes
    <3> QED BY <1>1, <1>5, <3>1, PlainReply
  <2> QED BY <2>1, <2>2, <2>3
<1>9. ASSUME DevCloseRequest PROVE Quietly
  <2>1. out' = Tail(out)
    BY <1>9, CloseDoes
  <2>2. \A q \in RemoteIds :
          /\ stream'[q].st = stream[q].st \/ stream'[q].st = "closed"
          /\ stream'[q].service = stream[q].service /\ stream'[q].peer = stream[q].peer
    BY <1>5, <1>9, CloseDoes DEF Becomes
  <2>3. \A i \in 1..Len(inp') : Plain(inp'[i])
    <3>1. DevWrites(Pkt("CLSE", Frame.arg1, Frame.arg0, NoData)) \/ UNCHANGED inp
      BY <1>9, CloseDoes
    <3> QED BY <1>1, <1>5, <3>1, PlainReply
  <2> QED BY <2>1, <2>2, <2>3
<1>10. Quietly
  <2> HIDE DEF Quietly
  <2> QED BY <1>2, <1>6, <1>7, <1>8, <1>9 DEF DevPacket
<1>11. UNCHANGED <<call, kind, remote_id, base_id>>
  BY DEF hostVars
<1>12. AllSilent'
  BY <1>1, <1>10, <1>11 DEF AllSilent, Silent, IsActive
<1>13. \A i \in 1..Len(out') :
         /\ out'[i].cmd \in {"OKAY", "CLSE", "WRTE"} /\ out'[i].arg1 \in RemoteIds
         /\ out'[i].cmd = "OKAY" => stream'[out'[i].arg1].st = "closed"
  BY <1>4, <1>10 DEF Harmless
<1>14. \A i \in 1..Len(inp') :
         /\ inp'[i].kind = "header" /\ inp'[i].packet.cmd \in {"OKAY", "CLSE"}
         /\ inp'[i].packet.data = NoData
  BY <1>10 DEF Plain
<1> QED BY <1>1, <1>11, <1>12, <1>13, <1>14 DEF Repeating

LEMMA AdbdSpeaks ==
  ASSUME TypeOK, Adbd, InOrder', UNCHANGED hostVars, CallFacts, pc \notin {"idle", "stranded"}
  PROVE  Speaks
<1>1. call' = call /\ call \in 1..call
  BY DEF hostVars, CallFacts, Calls
<1>2. call \notin cut'
  BY <1>1 DEF InOrder, Orderly
<1> QED BY <1>2 DEF Adbd, Speaks, envVars

LEMMA AdbdPhases ==
  ASSUME TypeOK, CallFacts, FailedOpened, Phases, Adbd, InOrder', UNCHANGED hostVars
  PROVE  Phases'
<1>6. pc \notin {"idle", "stranded"} => Speaks
  BY AdbdSpeaks
<1>1. UNCHANGED <<pc, active, remote_id, call, kind>>
  BY DEF hostVars
<1>2. ASSUME NEW r \in RemoteIds, remote_id = r, CallPhase(r)
      PROVE  CallPhase(r)'
  <2>1. OfCall(r) /\ Speaks
    BY <1>2, <1>6 DEF CallPhase, InScript
  <2>2. CASE pc = "read" /\ ReadPhase(r)
    <3>1. call \in Calls
      BY <2>2 DEF CallFacts
    <3> QED BY <1>1, <2>1, <2>2, <3>1, AdbdRead DEF CallPhase
  <2>3. CASE pc = "prompt" /\ PromptPhase(r)
    BY <1>1, <2>1, <2>3, AdbdPrompt DEF CallPhase
  <2>4. CASE pc = "command" /\ FirstCommand(r)
    BY <1>1, <2>1, <2>4, AdbdCommand DEF CallPhase
  <2>5. CASE pc = "output" /\ FirstOutput(r)
    <3>1. call \in Calls
      BY <2>5 DEF CallFacts
    <3> QED BY <1>1, <2>1, <2>5, <3>1, AdbdOutput DEF CallPhase
  <2>6. CASE InScript /\ QueryPhase(r)
    BY <1>1, <2>1, <2>6, AdbdQuery DEF CallPhase, InScript
  <2>7. CASE InScript /\ PushPhase(r)
    <3>1. /\ kind[call] = "push"
          /\ data[call] = <<>> \/ step > 2 * Records
          /\ Sending(r) \/ Ended(r) \/ Doomed(r) \/ Starved(r)
      BY <2>7 DEF PushPhase
    <3>2. OfCall(r)' /\ (Sending(r)' \/ Ended(r)' \/ Doomed(r)' \/ Starved(r)')
      BY <2>1, <3>1, AdbdSending, AdbdEnded, AdbdDoomed, AdbdStarved
    <3>3. UNCHANGED <<data, step>>
      BY DEF hostVars
    <3>4. PushPhase(r)'
      BY <1>1, <3>1, <3>2, <3>3 DEF PushPhase
    <3> QED BY <1>1, <2>7, <3>2, <3>4 DEF CallPhase, InScript
  <2> QED BY <1>2, <2>2, <2>3, <2>4, <2>5, <2>6, <2>7 DEF CallPhase
<1>3. IdlePhase => IdlePhase'
  BY AdbdIdle
<1>4. pc = "answer" /\ AnswerPhase => AnswerPhase'
  BY <1>6, AdbdAnswer
<1>5. pc \in {"command", "output"} /\ Repeating => Repeating'
  BY <1>6, AdbdRepeating
<1> QED BY <1>1, <1>2, <1>3, <1>4, <1>5 DEF Phases

-----------------------------------------------------------------------------
(* What the steps of the program do to the calls.                          *)
LEMMA CallDoes ==
  ASSUME TypeOK, CallFacts, Call
  PROVE  /\ pc = "idle" /\ call' = call + 1 /\ call' \in Calls /\ call \in Nat
         /\ UNCHANGED <<inp, stream, active, step, status, data>>
         /\ status[call'] = "none" /\ data[call'] = <<>> /\ kind'[call'] \in Kinds
         /\ \A c \in Calls : c # call' => kind'[c] = kind[c]
         /\ \/ /\ kind'[call'] = "active" /\ active # NoIds /\ pc' = "command"
               /\ local_id' = active.local /\ remote_id' = active.remote
               /\ UNCHANGED <<base_id, out>>
            \/ /\ pc' = "answer" /\ base_id' = base_id + 1 /\ local_id' = base_id + 1
               /\ out' = Append(out, Pkt("OPEN", base_id + 1, 0, <<call + 1, 0>>))
               /\ UNCHANGED remote_id
<1>1. /\ call \in Nat /\ MaxCalls \in Nat /\ kind \in [Calls -> Kinds \cup {"none"}]
  BY MyAdbAssumption DEF TypeOK
<1>2. /\ pc = "idle" /\ call < MaxCalls /\ call' = call + 1
      /\ UNCHANGED <<inp, stream, active, step, status, data>>
  BY DEF Call
<1>3. call' \in Calls /\ call' > call
  BY <1>1, <1>2 DEF Calls
<1>4. status[call'] = "none" /\ data[call'] = <<>>
  BY <1>3 DEF CallFacts
<1>5. PICK k \in Kinds :
        /\ kind' = [kind EXCEPT ![call + 1] = k]
        /\ IF k = "active" /\ active # NoIds
             THEN /\ pc' = "command" /\ local_id' = active.local /\ remote_id' = active.remote
                  /\ UNCHANGED <<base_id, out>>
             ELSE /\ pc' = "answer" /\ base_id' = base_id + 1 /\ local_id' = base_id + 1
                  /\ Send(Pkt("OPEN", base_id + 1, 0, <<call + 1, 0>>))
                  /\ UNCHANGED remote_id
  BY DEF Call
<1>6. kind'[call'] = k /\ \A c \in Calls : c # call' => kind'[c] = kind[c]
  BY <1>1, <1>2, <1>3, <1>5
<1>7. CASE k = "active" /\ active # NoIds
  BY <1>1, <1>2, <1>3, <1>4, <1>5, <1>6, <1>7
<1>8. CASE ~(k = "active" /\ active # NoIds)
  BY <1>1, <1>2, <1>3, <1>4, <1>5, <1>6, <1>8 DEF Send
<1> QED BY <1>7, <1>8

(* How a step of Device leaves the call.                                   *)
Going == UNCHANGED status /\ pc' \notin {"idle", "stranded"}
CallOver(how) == status' = [status EXCEPT ![call] = how] /\ pc' \in {"idle", "stranded"}

LEMMA DeviceDoes ==
  ASSUME TypeOK, CallFacts, Device
  PROVE  /\ pc \notin {"idle", "stranded"} /\ call \in Calls /\ status[call] = "none"
         /\ UNCHANGED <<stream, call, kind, base_id, local_id>>
         /\ pc' # "answer" \/ UNCHANGED data
         /\ pc' = "answer" => pc = "answer"
         /\ active' = active \/ active' = [local |-> local_id, remote |-> remote_id]
         /\ \A c \in Calls \ {call} : data'[c] = data[c]
         /\ Going \/ \E how \in {"returned", "refused", "raised"} : CallOver(how)
<1>1. ASSUME NEW d, data' = [data EXCEPT ![call] = d] \/ UNCHANGED data
      PROVE  \A c \in Calls \ {call} : data'[c] = data[c]
  BY <1>1, DataElsewhere
<1>2. ASSUME NEW how, Raises(how) \/ Ends(how)
      PROVE  CallOver(how)
  BY <1>2 DEF Raises, Ends, CallOver
<1>3. ASSUME pc \notin {"idle", "stranded"}
      PROVE  call \in Calls /\ status[call] = "none"
  BY <1>3 DEF CallFacts
<1>4. CASE OpenAnswer
  <2>1. Going \/ Raises("refused")
    BY <1>4 DEF OpenAnswer, Going
  <2> QED BY <1>1, <1>2, <1>3, <1>4, <2>1 DEF OpenAnswer
<1>5. CASE ReadOutput
  <2>1. Going \/ Ends("returned")
    BY <1>5 DEF ReadOutput, Going
  <2>2. data' = [data EXCEPT ![call] = Append(data[call], Incoming.data)] \/ UNCHANGED data
    BY <1>5 DEF ReadOutput
  <2>3. pc' # "answer"
    BY <1>5 DEF ReadOutput, Ends
  <2> QED BY <1>1, <1>2, <1>3, <1>5, <2>1, <2>2, <2>3 DEF ReadOutput
<1>6. CASE ReadScript
  <2>1. Going \/ Ends("returned")
    BY <1>6 DEF ReadScript, NextStep, InScript, Going
  <2>2. data' = [data EXCEPT ![call] = Append(data[call], Incoming.data)] \/ UNCHANGED data
    BY <1>6 DEF ReadScript
  <2>3. pc' # "answer"
    BY <1>6 DEF ReadScript, NextStep, InScript, Ends
  <2> QED BY <1>1, <1>2, <1>3, <1>6, <2>1, <2>2, <2>3 DEF ReadScript, InScript
<1>7. CASE SendScript
  <2>1. Going \/ Ends("returned")
    BY <1>7 DEF SendScript, NextStep, InScript, Going
  <2>2. pc' # "answer"
    BY <1>7 DEF SendScript, NextStep, InScript, Ends
  <2> QED BY <1>1, <1>2, <1>3, <1>7, <2>1, <2>2 DEF SendScript, InScript
<1>8. CASE ReadPrompt
  BY <1>1, <1>3, <1>8 DEF ReadPrompt, Going
<1>9. CASE SendCommand
  BY <1>1, <1>3, <1>9 DEF SendCommand, Going
<1>10. CASE ReadCommandOutput
  <2>1. Going \/ Ends("returned")
    BY <1>10 DEF ReadCommandOutput, Going
  <2>2. data' = [data EXCEPT ![call] = Append(data[call], Incoming.data)] \/ UNCHANGED data
    BY <1>10 DEF ReadCommandOutput
  <2>3. pc' # "answer"
    BY <1>10 DEF ReadCommandOutput, Ends
  <2> QED BY <1>1, <1>2, <1>3, <1>10, <2>1, <2>2, <2>3 DEF ReadCommandOutput
<1>11. CASE SkipPacket
  <2>1. pc \notin {"idle", "stranded"}
    BY <1>11 DEF SkipPacket, Expected, InScript
  <2> QED BY <1>1, <1>3, <1>11, <2>1 DEF SkipPacket, hostVars, Going
<1>12. CASE Misread
  <2>1. pc \notin {"idle", "stranded"}
    BY <1>12 DEF Misread, Expected, InScript
  <2>2. /\ Going \/ Raises("raised")
        /\ pc' = "answer" => pc = "answer"
    BY <1>12, <2>1 DEF Misread, Raises, Going
  <2> QED BY <1>1, <1>2, <1>3, <1>12, <2>1, <2>2 DEF Misread
<1> QED
  BY <1>4, <1>5, <1>6, <1>7, <1>8, <1>9, <1>10, <1>11, <1>12 DEF Device

LEMMA CallFactsStep ==
  ASSUME TypeOK, CallFacts, (Call \/ Device)
  PROVE  CallFacts'
<1>1. call \in Nat /\ base_id \in Nat /\ local_id \in Nat /\ active.local \in Nat
      /\ (\A c \in Calls : c \in Nat) /\ status \in [Calls -> {"none", "returned", "refused", "raised"}]
  BY DEF TypeOK, Calls
<1>2. /\ \A c \in Calls : c > call => status[c] = "none" /\ data[c] = <<>>
      /\ pc \notin {"idle", "stranded"} =>
           call \in Calls /\ status[call] = "none" /\ kind[call] \in Kinds
      /\ pc = "answer" => data[call] = <<>>
      /\ local_id <= base_id /\ active.local <= base_id
  BY DEF CallFacts
<1>3. CASE Call
  <2>1. /\ call' = call + 1 /\ call' \in Calls
        /\ UNCHANGED <<active, status, data>>
        /\ status[call'] = "none" /\ data[call'] = <<>> /\ kind'[call'] \in Kinds
        /\ \/ local_id' = active.local /\ base_id' = base_id
           \/ base_id' = base_id + 1 /\ local_id' = base_id + 1
    BY <1>3, CallDoes
  <2>2. \A c \in Calls : c > call' => c > call
    BY <1>1, <2>1
  <2>3. local_id' <= base_id' /\ active'.local <= base_id'
    BY <1>1, <1>2, <2>1
  <2> QED BY <1>2, <2>1, <2>2, <2>3 DEF CallFacts
<1>4. CASE Device
  <2>1. /\ pc \notin {"idle", "stranded"} /\ call \in Calls /\ status[call] = "none"
        /\ UNCHANGED <<stream, call, kind, base_id, local_id>>
        /\ pc' # "answer" \/ UNCHANGED data
        /\ pc' = "answer" => pc = "answer"
        /\ active' = active \/ active' = [local |-> local_id, remote |-> remote_id]
        /\ \A c \in Calls \ {call} : data'[c] = data[c]
        /\ Going \/ \E how \in {"returned", "refused", "raised"} : CallOver(how)
    BY <1>4, DeviceDoes
  <2>2. active'.local <= base_id'
    BY <1>2, <2>1
  <2>3. \A c \in Calls : c > call => c \in Calls \ {call}
    BY <1>1
  <2>4. \A c \in Calls \ {call} : status'[c] = status[c]
    BY <1>1, <2>1 DEF Going, CallOver
  <2>5. pc' \notin {"idle", "stranded"} => UNCHANGED status
    BY <2>1 DEF Going, CallOver
  <2> QED BY <1>2, <2>1, <2>2, <2>3, <2>4, <2>5 DEF CallFacts
<1> QED BY <1>3, <1>4

(* The program returns to its caller only when nothing has raised.         *)
LEMMA InOrderBefore ==
  ASSUME TypeOK, CallFacts,
         \/ (Call \/ Device) /\ UNCHANGED cut
         \/ UNCHANGED <<call, status>> /\ cut \subseteq cut',
         InOrder'
  PROVE  InOrder
<1>1. call \in Nat /\ call \in 0..MaxCalls /\ status \in [Calls -> {"none", "returned", "refused", "raised"}]
  BY DEF TypeOK
<1>2. CASE Call /\ UNCHANGED cut
  <2>1. call' = call + 1 /\ UNCHANGED status
    BY <1>2, CallDoes
  <2> QED BY <1>1, <1>2, <2>1 DEF InOrder, Orderly
<1>3. CASE Device /\ UNCHANGED cut
  <2>1. /\ call' = call /\ call \in Calls /\ status[call] = "none"
        /\ Going \/ \E how \in {"returned", "refused", "raised"} : CallOver(how)
    BY <1>3, DeviceDoes
  <2>2. CASE Going
    BY <1>3, <2>1, <2>2 DEF InOrder, Orderly, Going
  <2>3. ASSUME NEW how, CallOver(how)
        PROVE  InOrder
    <3>1. status' = [status EXCEPT ![call] = how]
      BY <2>3 DEF CallOver
    <3>2. \A b \in 1..call : b # call => b \in Calls /\ status'[b] = status[b]
      BY <1>1, <3>1, MyAdbAssumption DEF Calls
    <3> QED BY <1>3, <2>1, <3>2 DEF InOrder, Orderly
  <2> QED BY <2>1, <2>2, <2>3
<1>4. CASE UNCHANGED <<call, status>> /\ cut \subseteq cut'
  BY <1>4 DEF InOrder, Orderly
<1> QED BY <1>2, <1>3, <1>4


-----------------------------------------------------------------------------
(* The steps of the program in each phase of a call.                       *)
Lawful ==
  /\ InOrder' => Phases'
  /\ status'[call] = "returned" => \A c \in Calls : c = call => ResultOf(c)'
ActiveOK == active = NoIds \/ active.remote \in RemoteIds

LEMMA GoesOn ==
  ASSUME TypeOK, CallFacts, pc \notin {"idle", "stranded"}, UNCHANGED status, Phases'
  PROVE  Lawful
BY DEF Lawful, CallFacts

LEMMA StatusAt ==
  ASSUME TypeOK, call \in Calls, NEW how, status' = [status EXCEPT ![call] = how]
  PROVE  status'[call] = how
BY DEF TypeOK

LEMMA Steps ==
  ASSUME TypeOK, Device
  PROVE  /\ pc = "answer" => OpenAnswer \/ (Skips({"OKAY", "CLSE"}) /\ SkipPacket) \/ Misread
         /\ pc = "read" => ReadOutput \/ (Skips({"WRTE", "CLSE"}) /\ SkipPacket) \/ Misread
         /\ pc = "prompt" => ReadPrompt \/ (Skips({"WRTE"}) /\ SkipPacket) \/ Misread
         /\ pc = "command" => SendCommand
         /\ pc = "output" =>
              ReadCommandOutput \/ (Skips({"WRTE", "OKAY"}) /\ SkipPacket) \/ Misread
         /\ InScript => \/ ReadScript \/ SendScript
                        \/ /\ {Now} \cap {"OKAY", "WRTE", "CLSE"} # {}
                           /\ \/ Skips({Now} \cap {"OKAY", "WRTE", "CLSE"}) /\ SkipPacket
                              \/ Misread
         /\ Misread => /\ Misreads /\ pc \notin {"idle", "stranded"}
                       /\ Raises("raised") \/ UNCHANGED <<pc, status>>
BY DEF Device, OpenAnswer, ReadOutput, ReadScript, SendScript, ReadPrompt, SendCommand,
       ReadCommandOutput, SkipPacket, Misread, Expected, InScript

LEMMA SkipDoes ==
  ASSUME SkipPacket
  PROVE  /\ UNCHANGED <<out, stream, pc, call, kind, base_id, local_id>>
         /\ UNCHANGED <<remote_id, active, step, status, data>>
BY DEF SkipPacket, hostVars

(* The first packet is a header without payload.                           *)
LEMMA PlainFirst ==
  ASSUME TypeOK, inp # <<>>, Head(inp).kind = "header", Head(inp).packet.data = NoData
  PROVE  /\ ~Misreads /\ Incoming = Head(inp).packet
         /\ \A cmds : Reads(cmds) => inp' = Tail(inp) /\ Incoming.cmd \in cmds
         /\ \A cmds : Skips(cmds) => inp' = Tail(inp) /\ Incoming.cmd \notin cmds
         /\ Tail(inp) \in Seq(Transfer) /\ Head(inp) \in Transfer
<1>1. inp \in Seq(Transfer) /\ Tail(inp) \in Seq(Transfer) /\ Head(inp) \in Transfer
  BY StreamType, TailItems
<1>2. Incoming = Head(inp).packet /\ Incoming \in Packet /\ Incoming.data = NoData
  BY <1>1 DEF Incoming, Transfer
<1>3. Len(Transfers(Incoming)) = 1
  <2>1. Transfers(Incoming) = <<Header(Incoming)>>
    BY <1>2, TransfersType
  <2> QED BY <2>1
<1>4. SubSeq(inp, 2, Len(inp)) = Tail(inp)
  BY <1>1
<1>5. \A cmds : Reads(cmds) => inp' = Tail(inp) /\ Incoming.cmd \in cmds
  BY <1>3, <1>4 DEF Reads
<1>6. \A cmds : Skips(cmds) => inp' = Tail(inp) /\ Incoming.cmd \notin cmds
  BY DEF Skips
<1>7. ~Misreads
  BY DEF Misreads
<1> QED BY <1>1, <1>2, <1>5, <1>6, <1>7

LEMMA LeftInTail ==
  ASSUME NEW l \in Seq(Transfer), l # <<>>, NEW n, LeftIn(l, n)
  PROVE  Over(Head(l), n) /\ LeftIn(Tail(l), n)
BY TailItems DEF LeftIn

(* The program asks for a stream.                                          *)
LEMMA HostAsking ==
  ASSUME TypeOK, CallFacts, pc = "answer", local_id = base_id, Asking, ActiveOK, Device
  PROVE  Lawful
<1>1. AllSilent /\ LeftIn(inp, local_id) /\ inp \in Seq(Transfer) /\ local_id \in Nat
  BY StreamType DEF Asking, TypeOK
<1>2. inp # <<>>
  BY Steps, NothingRead DEF OpenAnswer
<1>3. Over(Head(inp), local_id) /\ LeftIn(Tail(inp), local_id)
  BY <1>1, <1>2, LeftInTail
<1>4. /\ ~Misreads /\ Incoming = Head(inp).packet
      /\ Reads({"OKAY", "CLSE"}) => inp' = Tail(inp)
      /\ Skips({"OKAY", "CLSE"}) => Incoming.cmd \notin {"OKAY", "CLSE"}
  BY <1>2, <1>3, PlainFirst DEF Over
<1>5. Incoming.cmd \in {"OKAY", "CLSE"} /\ Incoming.arg1 < local_id
  BY <1>3, <1>4 DEF Over
<1>6. OpenAnswer /\ inp' = Tail(inp)
  BY <1>4, <1>5, Steps DEF OpenAnswer
<1>7. Incoming.arg1 # local_id
  <2>1. Incoming.arg1 \in Nat
    BY <1>6, HostReadType DEF OpenAnswer
  <2> QED BY <1>1, <1>5, <2>1
<1>8. /\ UNCHANGED <<out, stream, call, kind, base_id, local_id, active, pc, remote_id, step>>
      /\ UNCHANGED <<status, data>>
  BY <1>6, <1>7 DEF OpenAnswer
<1>9. AllSilent'
  BY <1>1, <1>8, SameSilent
<1>10. PICK l \in Seq(Packet) :
         out = Append(l, Pkt("OPEN", local_id, 0, <<call, 0>>)) /\ LeftOut(l, local_id)
  BY DEF Asking
<1>11. LeftOut(l, local_id)' /\ LeftIn(inp, local_id)'
  BY <1>3, <1>6, <1>8, <1>10 DEF LeftOut, Ending, LeftIn, Over
<1>12. out' = Append(l, Pkt("OPEN", local_id, 0, <<call, 0>>)')
  BY <1>8, <1>10 DEF Pkt
<1>13. Asking'
  BY <1>9, <1>10, <1>11, <1>12 DEF Asking
<1>14. Phases'
  BY <1>8, <1>13 DEF Phases, AnswerPhase, ActiveOK
<1> QED BY <1>8, <1>14, GoesOn

LEMMA EndedIdle ==
  ASSUME TypeOK, AllSilent, UNCHANGED <<stream, call, kind, base_id, active>>, ActiveOK,
         pc' \in {"idle", "stranded"}, LeftOut(out', base_id + 1), LeftIn(inp', base_id + 1)
  PROVE  Phases'
<1>1. AllSilent'
  BY SameSilent
<1>2. LeftOut(out, base_id + 1)' /\ LeftIn(inp, base_id + 1)'
  BY DEF LeftIn, LeftOut, Over, Ending
<1> QED BY <1>1, <1>2 DEF Phases, IdlePhase, ActiveOK

LEMMA NothingLeft ==
  ASSUME NEW n
  PROVE  LeftOut(<<>>, n) /\ LeftIn(<<>>, n)
BY DEF LeftOut, LeftIn

LEMMA HostRefused ==
  ASSUME TypeOK, CallFacts, pc = "answer", local_id = base_id, Refusing, ActiveOK, Device
  PROVE  Lawful
<1>1. AllSilent /\ out = <<>> /\ inp \in Seq(Transfer) /\ local_id \in Nat
  BY StreamType DEF Refusing, TypeOK
<1> DEFINE p == Pkt("CLSE", 0, local_id, NoData)
<1>2. p \in Packet /\ p.cmd = "CLSE" /\ p.data = NoData /\ p.arg1 = local_id
  <2>1. \A d \in Data : /\ Pkt("CLSE", 0, local_id, d) \in Packet
                        /\ Pkt("CLSE", 0, local_id, d).cmd = "CLSE"
                        /\ Pkt("CLSE", 0, local_id, d).data = d
                        /\ Pkt("CLSE", 0, local_id, d).arg1 = local_id
    BY <1>1 DEF Pkt, Packet
  <2> QED BY <2>1, NoDataType
<1>3. PICK l \in Seq(Transfer) : inp = Append(l, Header(p)) /\ LeftIn(l, local_id)
  BY DEF Refusing
<1>4. p' = p /\ Header(p)' = Header(p)
  <2>1. UNCHANGED local_id
    BY DeviceDoes
  <2> QED BY <2>1 DEF Pkt, Header
<1> HIDE DEF p
<1>5. Header(p) \in Transfer /\ Header(p).kind = "header" /\ Header(p).packet = p
  BY <1>2, HeaderType
<1>6. inp # <<>> /\ Head(inp).kind = "header" /\ Head(inp).packet.data = NoData
      /\ Head(inp).packet.cmd \in {"OKAY", "CLSE"}
  <2>1. CASE l = <<>>
    BY <1>2, <1>3, <1>5, <2>1, AppendParts
  <2>2. CASE l # <<>>
    <3>1. inp # <<>> /\ Head(inp) = Head(l)
      BY <1>3, <1>5, <2>2, AppendParts
    <3>2. Over(Head(l), local_id)
      BY <1>3, <2>2, LeftInTail
    <3> QED BY <3>1, <3>2 DEF Over
  <2> QED BY <2>1, <2>2
<1>7. /\ ~Misreads /\ Incoming = Head(inp).packet
      /\ Reads({"OKAY", "CLSE"}) => inp' = Tail(inp)
      /\ Skips({"OKAY", "CLSE"}) => Incoming.cmd \notin {"OKAY", "CLSE"}
  BY <1>6, PlainFirst
<1>8. OpenAnswer /\ inp' = Tail(inp)
  BY <1>6, <1>7, Steps DEF OpenAnswer
<1>9. UNCHANGED <<out, stream, call, kind, base_id, local_id, active, data>>
  BY <1>8 DEF OpenAnswer
<1>10. CASE l = <<>>
  <2>1. Head(inp) = Header(p) /\ Tail(inp) = <<>>
    BY <1>3, <1>5, <1>10, AppendParts
  <2>2. Incoming.arg1 = local_id /\ Incoming.cmd = "CLSE" /\ inp' = <<>>
    BY <1>2, <1>5, <1>7, <1>8, <2>1
  <2>3. Raises("refused")
    BY <1>8, <2>2 DEF OpenAnswer
  <2>4. status' = [status EXCEPT ![call] = "refused"] /\ pc' \in {"idle", "stranded"}
    BY <2>3 DEF Raises
  <2>5. status'[call] = "refused"
    <3>1. call \in Calls
      BY DEF CallFacts
    <3> QED BY <2>4, <3>1, StatusAt
  <2>6. out' = <<>>
    BY <1>1, <1>9
  <2>7. Phases'
    BY <1>1, <1>9, <2>2, <2>4, <2>6, EndedIdle, NothingLeft
  <2> QED BY <2>5, <2>7 DEF Lawful
<1>11. CASE l # <<>>
  <2>1. Head(inp) = Head(l) /\ Tail(inp) = Append(Tail(l), Header(p)) /\ Tail(l) \in Seq(Transfer)
        /\ Head(l) \in Transfer
    BY <1>3, <1>5, <1>11, AppendParts
  <2>2. Over(Head(l), local_id) /\ LeftIn(Tail(l), local_id)
    BY <1>3, <1>11, LeftInTail
  <2>3. Incoming.arg1 # local_id
    <3>1. Incoming.arg1 \in Nat
      BY <1>8, HostReadType DEF OpenAnswer
    <3>2. Incoming.arg1 < local_id
      BY <1>7, <2>1, <2>2 DEF Over
    <3> QED BY <1>1, <3>1, <3>2
  <2>4. UNCHANGED <<pc, remote_id, step, status>>
    BY <1>8, <2>3 DEF OpenAnswer
  <2>5. AllSilent'
    BY <1>1, <1>9, SameSilent
  <2>6. PICK m \in Seq(Transfer) : m = Tail(l)
    BY <2>1
  <2>7. inp' = Append(m, Header(p)') /\ LeftIn(m, local_id)'
    BY <1>4, <1>8, <1>9, <2>1, <2>2, <2>6 DEF LeftIn, Over
  <2>8. Refusing'
    BY <1>1, <1>4, <1>9, <2>5, <2>7 DEF Refusing, p
  <2>9. Phases'
    BY <1>9, <2>4, <2>8 DEF Phases, AnswerPhase, ActiveOK
  <2> QED BY <2>4, <2>9, GoesOn
<1> QED BY <1>10, <1>11

LEMMA SameTalk ==
  ASSUME NEW r, NEW n, NEW before, NEW asked,
         UNCHANGED <<stream, local_id, call, out>>,
         Talk(r, n, before, asked)
  PROVE  /\ Unread(r, n)' = Unread(r, n)
         /\ \A b : inp' = b \o Unread(r, n) => TalkNext(r, n, b, asked)
<1>1. Unread(r, n)' = Unread(r, n)
  BY SameUnread
<1>2. PICK ack \in {<<>>, <<AckTo(r)>>} : out = ack \o asked /\ Turn(r, n, ack)
  BY DEF Talk
<1>3. Turn(r, n, ack)'
  <2>1. AckTo(r)' = AckTo(r)
    BY SameNames
  <2> QED BY <1>2, <2>1 DEF Turn
<1> QED BY <1>1, <1>2, <1>3 DEF TalkNext

LEMMA SameBegan ==
  ASSUME NEW r, Began(r), UNCHANGED <<stream, local_id, call, kind, failed, base_id>>
  PROVE  Began(r)' /\ OfCall(r)'
BY DEF Began, OfCall, Open, Silent, IsActive

LEMMA HostOpened ==
  ASSUME TypeOK, CallFacts, pc = "answer", local_id = base_id, ActiveOK, Device,
         UNCHANGED envVars, NEW r \in RemoteIds, Opened(r)
  PROVE  Lawful
<1>1. Began(r) /\ out = <<>> /\ OfCall(r) /\ local_id \in Nat
  BY DEF Opened, Began, TypeOK
<1>2. PICK l \in Seq(Transfer) :
        Talk(r, 0, Append(l, Header(Yes(r))), <<>>) /\ LeftIn(l, local_id)
  BY DEF Opened
<1>3. /\ Header(Yes(r)) \in Transfer /\ Yes(r).cmd = "OKAY" /\ Yes(r).arg0 = r
      /\ Yes(r).arg1 = local_id /\ Yes(r).data = NoData
      /\ Header(Yes(r)).kind = "header" /\ Header(Yes(r)).packet = Yes(r)
  <2>1. /\ Yes(r) \in Packet /\ Yes(r).cmd = "OKAY" /\ Yes(r).arg0 = r
        /\ Yes(r).arg1 = local_id /\ Yes(r).data = NoData
    BY Msgs
  <2> QED BY <2>1, HeaderType
<1>4. Unread(r, 0) \in Seq(Transfer)
  BY UnreadIs
<1>5. inp = Append(l, Header(Yes(r))) \o Unread(r, 0)
  BY <1>2 DEF Talk
<1>6. \/ l = <<>> /\ Head(inp) = Header(Yes(r)) /\ Tail(inp) = Unread(r, 0) /\ inp # <<>>
      \/ /\ l # <<>> /\ Head(inp) = Head(l) /\ inp # <<>> /\ Tail(l) \in Seq(Transfer)
         /\ Tail(inp) = Append(Tail(l), Header(Yes(r))) \o Unread(r, 0)
  <2>1. /\ Append(l, Header(Yes(r))) \in Seq(Transfer) /\ Append(l, Header(Yes(r))) # <<>>
        /\ l = <<>> => /\ Head(Append(l, Header(Yes(r)))) = Header(Yes(r))
                       /\ Tail(Append(l, Header(Yes(r)))) = <<>>
        /\ l # <<>> => /\ Tail(l) \in Seq(Transfer)
                       /\ Head(Append(l, Header(Yes(r)))) = Head(l)
                       /\ Tail(Append(l, Header(Yes(r)))) = Append(Tail(l), Header(Yes(r)))
    BY <1>3, AppendParts
  <2>2. /\ inp # <<>> /\ Head(inp) = Head(Append(l, Header(Yes(r))))
        /\ Tail(inp) = Tail(Append(l, Header(Yes(r)))) \o Unread(r, 0)
    <3>1. PICK a \in Seq(Transfer) : a = Append(l, Header(Yes(r)))
      BY <2>1
    <3>2. a # <<>> /\ inp = a \o Unread(r, 0)
      BY <1>5, <2>1, <3>1
    <3>3. inp # <<>> /\ Head(inp) = Head(a) /\ Tail(inp) = Tail(a) \o Unread(r, 0)
      BY <1>4, <3>2, CatParts
    <3> QED BY <3>1, <3>3
  <2>3. <<>> \o Unread(r, 0) = Unread(r, 0)
    BY <1>4, CatEmpty
  <2> QED BY <2>1, <2>2, <2>3
<1>7. l # <<>> => Over(Head(l), local_id) /\ LeftIn(Tail(l), local_id)
  BY <1>2, LeftInTail
<1>8. /\ Head(inp).kind = "header" /\ Head(inp).packet.data = NoData
      /\ Head(inp).packet.cmd \in {"OKAY", "CLSE"}
  BY <1>3, <1>6, <1>7 DEF Over
<1>9. /\ ~Misreads /\ Incoming = Head(inp).packet
      /\ Reads({"OKAY", "CLSE"}) => inp' = Tail(inp)
      /\ Skips({"OKAY", "CLSE"}) => Incoming.cmd \notin {"OKAY", "CLSE"}
  BY <1>6, <1>8, PlainFirst
<1>10. OpenAnswer /\ inp' = Tail(inp)
  BY <1>8, <1>9, Steps DEF OpenAnswer
<1>11. UNCHANGED <<out, stream, call, kind, base_id, local_id, active, data>>
  BY <1>10 DEF OpenAnswer
<1>12. Began(r)' /\ OfCall(r)'
  BY <1>1, <1>11, SameBegan DEF envVars
<1>13. CASE l # <<>>
  <2>1. Incoming.arg1 # local_id
    <3>1. Incoming.arg1 \in Nat
      BY <1>10, HostReadType DEF OpenAnswer
    <3>2. Incoming.arg1 < local_id
      BY <1>6, <1>7, <1>9, <1>13 DEF Over
    <3> QED BY <1>1, <3>1, <3>2
  <2>2. UNCHANGED <<pc, remote_id, step, status>>
    BY <1>10, <2>1 DEF OpenAnswer
  <2>3. PICK m \in Seq(Transfer) : m = Tail(l)
    BY <1>6, <1>13
  <2>4. TalkNext(r, 0, Append(m, Header(Yes(r))), <<>>)
    <3>1. inp' = Append(m, Header(Yes(r))) \o Unread(r, 0)
      BY <1>6, <1>10, <1>13, <2>3
    <3> QED BY <1>2, <1>11, <3>1, SameTalk
  <2>5. Header(Yes(r))' = Header(Yes(r)) /\ AckTo(r)' = AckTo(r)
    BY <1>11 DEF Header, Yes, AckTo
  <2>6. Talk(r, 0, Append(m, Header(Yes(r))), <<>>)'
    BY <2>4, <2>5 DEF Talk, TalkNext
  <2>7. LeftIn(m, local_id)'
    BY <1>7, <1>11, <1>13, <2>3 DEF LeftIn, Over
  <2>8. Opened(r)'
    BY <1>1, <1>11, <1>12, <2>6, <2>7 DEF Opened
  <2>9. Phases'
    BY <1>11, <2>2, <2>8 DEF Phases, AnswerPhase, ActiveOK
  <2> QED BY <2>2, <2>9, GoesOn
<1>14. CASE l = <<>>
  <2>1. Incoming = Yes(r) /\ inp' = Unread(r, 0)
    BY <1>3, <1>6, <1>9, <1>10, <1>14
  <2>2. /\ remote_id' = r /\ step' = 0 /\ UNCHANGED status
        /\ pc' = CASE kind[call] = "shell" -> "read"
                   [] kind[call] = "active" -> "prompt"
                   [] OTHER -> "script"
    BY <1>3, <1>10, <2>1 DEF OpenAnswer
  <2>3. TalkNext(r, 0, <<>>, <<>>)
    <3>1. inp' = <<>> \o Unread(r, 0)
      BY <1>4, <2>1, CatEmpty
    <3> QED BY <1>2, <1>11, <3>1, SameTalk
  <2>4. Talk(r, 0, <<>>, <<>>)'
    BY <1>11, <2>3, TalkForms
  <2>5. data[call] = <<>> /\ data'[call'] = <<>> /\ kind'[call'] = kind[call] /\ kind[call] \in Kinds
    BY <1>11 DEF CallFacts
  <2>6. CallPhase(r)'
    <3>1. CASE kind[call] = "shell"
      <4>1. Len(data[call])' = 0 /\ data'[call'] = [i \in 1..0 |-> <<r, i>>]
        BY <2>5
      <4>2. ReadPhase(r)'
        BY <2>4, <2>5, <3>1, <4>1 DEF ReadPhase
      <4> QED BY <1>12, <2>2, <3>1, <4>2 DEF CallPhase
    <3>2. CASE kind[call] = "active"
      <4>1. PromptPhase(r)'
        BY <1>12, <2>4, <2>5, <3>2 DEF PromptPhase
      <4> QED BY <1>12, <2>2, <3>2, <4>1 DEF CallPhase
    <3>3. Got(r)' = 0 /\ r \notin failed'
      BY <1>12 DEF Began, Got
    <3>4. CASE kind[call] = "query"
      <4>1. stream'[r].sent = 0 /\ (Open(r))'
        BY <1>12, <2>5, <3>4 DEF Began
      <4>2. QueryPhase(r)'
        BY <2>2, <2>4, <2>5, <3>3, <3>4, <4>1 DEF QueryPhase
      <4> QED BY <1>12, <2>2, <3>4, <4>2 DEF CallPhase, InScript
    <3>5. CASE kind[call] = "push"
      <4>1. stream'[r].sent = 0 /\ (Open(r))'
        BY <1>12, <2>5, <3>5 DEF Began
      <4>2. step' = 2 * Got(r)' /\ Got(r)' < Records
        BY <2>2, <3>3, MyAdbAssumption
      <4>3. Sending(r)'
        BY <2>4, <3>3, <4>1, <4>2 DEF Sending
      <4>4. PushPhase(r)'
        BY <2>5, <3>5, <4>3 DEF PushPhase
      <4> QED BY <1>12, <2>2, <3>5, <4>4 DEF CallPhase, InScript
    <3> QED BY <2>5, <3>1, <3>2, <3>4, <3>5 DEF Kinds
  <2>7. pc' \notin {"idle", "stranded"} /\ Phases'
    BY <1>11, <2>2, <2>6 DEF Phases, ActiveOK
  <2> QED BY <2>2, <2>7, GoesOn
<1> QED BY <1>13, <1>14

LEMMA HostAnswer ==
  ASSUME TypeOK, CallFacts, pc = "answer", AnswerPhase, ActiveOK, Device, UNCHANGED envVars
  PROVE  Lawful
BY HostAsking, HostRefused, HostOpened DEF AnswerPhase

-----------------------------------------------------------------------------
(* One packet, then another.                                               *)
LEMMA AppendOne ==
  ASSUME NEW a, NEW b
  PROVE  Append(<<>>, b) = <<b>> /\ Append(<<a>>, b) = <<a, b>>
<1>1. a \in {a, b} /\ b \in {a, b} /\ <<>> \in Seq({a, b})
  BY EmptySeq
<1> QED BY <1>1, OneItem, TwoItems

(* The program has the stream r: what every phase of the call needs.       *)
LEMMA CallGoesOn ==
  ASSUME TypeOK, CallFacts, pc \notin {"idle", "stranded"}, UNCHANGED <<remote_id, status>>,
         NEW r \in RemoteIds, remote_id = r, CallPhase(r)', ActiveOK'
  PROVE  Lawful
<1>1. Phases'
  BY DEF Phases, ActiveOK
<1> QED BY <1>1, GoesOn

LEMMA SameOfCall ==
  ASSUME NEW r, OfCall(r), UNCHANGED <<stream, call, kind, local_id, base_id>>
  PROVE  OfCall(r)'
BY DEF OfCall, Silent, IsActive

LEMMA DataAt ==
  ASSUME TypeOK, call \in Calls, NEW d, data' = [data EXCEPT ![call] = d]
  PROVE  data'[call] = d
BY DEF TypeOK

LEMMA Returns ==
  ASSUME TypeOK, NEW r \in RemoteIds, OfCall(r), Silent(r), stream[r].st # "none", ActiveOK,
         UNCHANGED <<stream, call, kind, base_id, active, failed>>,
         pc' \in {"idle", "stranded"},
         LeftOut(out', base_id + 1), LeftIn(inp', base_id + 1),
         kind[call] = "shell" => /\ stream[r].st = "closed"
                                 /\ data'[call] = [i \in 1..stream[r].sent |-> <<r, i>>],
         kind[call] = "push" => /\ Got(r) >= Records /\ r \notin failed
                                /\ data'[call] = << <<r, 1>> >>,
         kind[call] = "active" =>
           \E n \in 2..stream[r].sent :
             /\ data'[call] = [i \in 1..n - 1 |-> <<r, i + 1>>]
             /\ \A i \in 2..n : <<r, i>> \in Prompts <=> i = n
  PROVE  Lawful
<1>1. AllSilent
  BY DEF OfCall, AllSilent
<1>2. Phases'
  BY <1>1, EndedIdle
<1>3. ASSUME NEW c \in Calls, c = call PROVE ResultOf(c)'
  <2>1. stream'[r].service = <<c, 0>> /\ stream'[r].st # "none" /\ Got(r)' = Got(r)
    BY <1>3 DEF OfCall, Got
  <2> QED BY <1>3, <2>1 DEF ResultOf
<1> QED BY <1>2, <1>3 DEF Lawful

LEMMA Misreading ==
  ASSUME TypeOK, CallFacts, Misread, Raises("raised")
  PROVE  Lawful
<1>1. call \in Calls /\ status' = [status EXCEPT ![call] = "raised"] /\ UNCHANGED call
  BY DEF CallFacts, Misread, Raises, Expected, InScript
<1>2. status'[call] = "raised"
  BY <1>1, StatusAt
<1>3. call \in 1..call'
  BY <1>1 DEF Calls
<1> QED BY <1>2, <1>3 DEF Lawful, InOrder, Orderly

(* What the program writes and takes, as a conversation.                   *)
LEMMA TalkIs ==
  ASSUME NEW r, NEW n, NEW before, NEW asked, NEW ack \in {<<>>, <<AckTo(r)>>},
         UNCHANGED <<stream, local_id, call>>,
         inp' = before \o Unread(r, n), out' = ack \o asked, Turn(r, n, ack)
  PROVE  TalkNext(r, n, before, asked)
<1>1. Unread(r, n)' = Unread(r, n)
  BY SameUnread
<1>2. Turn(r, n, ack)'
  <2>1. AckTo(r)' = AckTo(r)
    BY SameNames
  <2> QED BY <2>1 DEF Turn
<1> QED BY <1>1, <1>2 DEF TalkNext

LEMMA Acknowledges ==
  ASSUME TypeOK, NEW r \in RemoteIds, NEW n \in Nat, UNCHANGED <<stream, local_id, call>>,
         stream[r].sent = n, stream[r].st \in {"waitack", "closed"},
         out = <<>>, Send(AckTo(r)), inp' = Unread(r, n)
  PROVE  Talk(r, n, <<>>, <<>>)'
<1>1. AckTo(r) \in Packet
  BY Msgs
<1>2. out' = <<AckTo(r)>> \o <<>>
  <2>1. out' = <<AckTo(r)>> /\ <<AckTo(r)>> \in Seq(Packet)
    BY <1>1, OneItem DEF Send
  <2> QED BY <2>1, CatEmpty
<1>3. inp' = <<>> \o Unread(r, n)
  BY UnreadIs, CatEmpty
<1>4. Turn(r, n, <<AckTo(r)>>)
  BY DEF Turn
<1>5. TalkNext(r, n, <<>>, <<>>)
  BY <1>2, <1>3, <1>4, TalkIs
<1> QED BY <1>5, TalkForms

LEMMA AsksNow ==
  ASSUME TypeOK, NEW r \in RemoteIds, NEW n \in Nat, NEW before, Talk(r, n, before, <<>>),
         NEW p \in Packet, Send(p), UNCHANGED <<inp, stream, local_id, call>>
  PROVE  TalkNext(r, n, before, <<p>>)
<1>1. PICK ack \in {<<>>, <<AckTo(r)>>} : out = ack \o <<>> /\ Turn(r, n, ack)
  BY DEF Talk
<1>2. AckTo(r) \in Packet
  BY Msgs
<1>3. out = ack /\ ack \in Seq(Packet)
  BY <1>1, <1>2, OneItem, CatEmpty
<1>4. out' = ack \o <<p>>
  BY <1>3, AppendParts DEF Send
<1>5. inp' = before \o Unread(r, n)
  BY DEF Talk
<1> QED BY <1>1, <1>4, <1>5, TalkIs

LEMMA YesFirst ==
  ASSUME TypeOK, NEW r \in RemoteIds, NEW n \in Nat, NEW asked,
         Talk(r, n, <<Header(Yes(r))>>, asked)
  PROVE  /\ inp = Transfers(Yes(r)) \o Unread(r, n)
         /\ Yes(r) \in Packet /\ Yes(r).cmd = "OKAY" /\ Yes(r).data = NoData
         /\ Unread(r, n) \in Seq(Transfer)
<1>1. Yes(r) \in Packet /\ Yes(r).cmd = "OKAY" /\ Yes(r).data = NoData
  BY Msgs
<1>2. Transfers(Yes(r)) = <<Header(Yes(r))>>
  BY <1>1, TransfersType
<1> QED BY <1>1, <1>2, UnreadIs DEF Talk

LEMMA YesTaken ==
  ASSUME TypeOK, NEW r \in RemoteIds, NEW n \in Nat,
         Talk(r, n, <<Header(Yes(r))>>, <<>>), inp' = Unread(r, n),
         UNCHANGED <<out, stream, local_id, call>>
  PROVE  Talk(r, n, <<>>, <<>>)'
<1>1. inp' = <<>> \o Unread(r, n)
  BY UnreadIs, CatEmpty
<1>2. TalkNext(r, n, <<>>, <<>>)
  BY <1>1, SameTalk
<1> QED BY <1>2, TalkForms

-----------------------------------------------------------------------------
(* The program reads the output of a shell.                                *)
LEMMA HostRead ==
  ASSUME TypeOK, CallFacts, ActiveOK, Device, UNCHANGED envVars,
         NEW r \in RemoteIds, OfCall(r), remote_id = r, pc = "read", ReadPhase(r)
  PROVE  Lawful
<1>1. call \in Calls /\ UNCHANGED <<stream, call, kind, base_id, local_id>>
  BY DeviceDoes
<1>2. PICK n \in Nat : n = Len(data[call])
  <2>1. data[call] \in Seq(Data)
    BY <1>1 DEF TypeOK
  <2> QED BY <2>1
<1>3. kind[call] = "shell" /\ data[call] = [i \in 1..n |-> <<r, i>>] /\ Talk(r, n, <<>>, <<>>)
  BY <1>2 DEF ReadPhase
<1>4. OfCall(r)'
  BY <1>1, SameOfCall
<1>5. CASE inp = <<>>
  BY <1>5, Steps, NothingRead DEF ReadOutput
<1>6. ASSUME NEW p \in Packet, p.cmd \in {"WRTE", "CLSE"}, NEW s \in Seq(Transfer),
             p.arg0 = r, p.arg1 = local_id, inp = Transfers(p) \o s
      PROVE  /\ inp' = s /\ UNCHANGED <<active, remote_id>>
             /\ p.cmd = "WRTE" => /\ Send(AckTo(r)) /\ UNCHANGED <<pc, status>>
                                  /\ data' = [data EXCEPT ![call] = Append(@, p.data)]
             /\ p.cmd = "CLSE" => Send(CloseTo(r)) /\ Ends("returned") /\ UNCHANGED data
  <2>1. /\ Incoming = p /\ ~Misreads /\ ~Skips({"WRTE", "CLSE"})
        /\ Reads({"WRTE", "CLSE"}) => inp' = s
    BY <1>6, FirstPacket
  <2>2. ReadOutput
    BY <2>1, Steps
  <2>3. IsOwn
    BY <1>6, <2>1 DEF IsOwn
  <2>4. Ack = AckTo(r) /\ CloseMsg = CloseTo(r)
    BY DEF Ack, AckTo, CloseMsg, CloseTo
  <2> QED BY <1>6, <2>1, <2>2, <2>3, <2>4 DEF ReadOutput
<1>7. CASE /\ stream[r].sent = n + 1 /\ stream[r].st \in {"waitack", "closed"}
           /\ out = <<>> \o <<>>
           /\ inp = Transfers(Chunk(r, n + 1)) \o Unread(r, n + 1)
  <2>1. n + 1 \in Nat
    BY <1>2
  <2>2. /\ Chunk(r, n + 1) \in Packet /\ Chunk(r, n + 1).cmd = "WRTE"
        /\ Chunk(r, n + 1).arg0 = r /\ Chunk(r, n + 1).arg1 = local_id
        /\ Chunk(r, n + 1).data = <<r, n + 1>> /\ Chunk(r, n + 1).data \in Data
    BY <2>1, ChunkParts
  <2>3. Unread(r, n + 1) \in Seq(Transfer)
    BY <2>1, UnreadIs
  <2>4. /\ inp' = Unread(r, n + 1) /\ UNCHANGED <<active, remote_id, pc, status>>
        /\ Send(AckTo(r)) /\ data' = [data EXCEPT ![call] = Append(@, <<r, n + 1>>)]
    BY <1>6, <1>7, <2>2, <2>3
  <2>5. out = <<>>
    BY <1>7, OneItem, CatEmpty
  <2>6. Talk(r, n + 1, <<>>, <<>>)'
    BY <1>1, <1>7, <2>1, <2>4, <2>5, Acknowledges
  <2>7. data'[call'] = [i \in 1..n + 1 |-> <<r, i>>]
    <3>1. data'[call] = Append(data[call], <<r, n + 1>>)
      BY <1>1, <2>4 DEF TypeOK
    <3>2. Append([i \in 1..n |-> <<r, i>>], <<r, n + 1>>) = [i \in 1..n + 1 |-> <<r, i>>]
      BY <1>2
    <3> QED BY <1>1, <1>3, <3>1, <3>2
  <2>8. Len(data[call])' = n + 1
    BY <2>1, <2>7
  <2>9. ReadPhase(r)'
    BY <1>1, <1>3, <2>6, <2>7, <2>8 DEF ReadPhase
  <2>10. CallPhase(r)' /\ ActiveOK'
    BY <1>4, <2>4, <2>9 DEF CallPhase, ActiveOK
  <2> QED BY <2>4, <2>10, CallGoesOn
<1>8. CASE /\ stream[r].sent = n /\ stream[r].st = "closed"
           /\ out = <<>> \o <<>> \/ out = <<AckTo(r)>> \o <<>>
           /\ inp = Transfers(Goodbye(r)) \o <<>>
  <2>1. /\ Goodbye(r) \in Packet /\ Goodbye(r).cmd = "CLSE" /\ Goodbye(r).arg0 = r
        /\ Goodbye(r).arg1 = local_id
    BY Msgs
  <2>2. /\ inp' = <<>> /\ UNCHANGED <<active, data>>
        /\ Send(CloseTo(r)) /\ Ends("returned")
    <3>1. PICK s \in Seq(Transfer) : s = <<>>
      BY EmptySeq
    <3>2. inp = Transfers(Goodbye(r)) \o s
      BY <1>8, <3>1
    <3>3. Goodbye(r).cmd \in {"WRTE", "CLSE"}
      BY <2>1
    <3> QED BY <1>6, <2>1, <3>1, <3>2, <3>3
  <2>3. /\ AckTo(r) \in Packet /\ AckTo(r).cmd = "OKAY" /\ AckTo(r).arg0 = local_id
        /\ AckTo(r).arg1 = r /\ AckTo(r).data = NoData
        /\ CloseTo(r) \in Packet /\ CloseTo(r).cmd = "CLSE" /\ CloseTo(r).arg0 = local_id
        /\ CloseTo(r).arg1 = r /\ CloseTo(r).data = NoData
    BY Msgs
  <2>4. local_id < base_id + 1
    BY DEF CallFacts, TypeOK
  <2>5. Ending(AckTo(r), base_id + 1) /\ Ending(CloseTo(r), base_id + 1)
    BY <1>8, <2>3, <2>4 DEF Ending
  <2>6. out = <<>> \/ out = <<AckTo(r)>>
    BY <1>8, <2>3, OneItem, CatEmpty
  <2>7. out' = <<CloseTo(r)>> \/ out' = <<AckTo(r), CloseTo(r)>>
    <3>1. /\ Append(<<>>, CloseTo(r)) = <<CloseTo(r)>>
          /\ Append(<<AckTo(r)>>, CloseTo(r)) = <<AckTo(r), CloseTo(r)>>
      BY AppendOne
    <3>2. out' = Append(out, CloseTo(r))
      BY <2>2 DEF Send
    <3> QED BY <2>6, <3>1, <3>2
  <2>8. LeftOut(out', base_id + 1)
    BY <2>5, <2>7 DEF LeftOut
  <2>9. LeftIn(inp', base_id + 1)
    BY <2>2, NothingLeft
  <2>10. Silent(r)
    BY <1>8 DEF Silent
  <2>11. data'[call] = [i \in 1..stream[r].sent |-> <<r, i>>]
    BY <1>3, <1>8, <2>2
  <2>12. pc' \in {"idle", "stranded"} /\ stream[r].st # "none"
    BY <1>8, <2>2 DEF Ends
  <2> QED BY <1>1, <1>3, <1>8, <2>2, <2>8, <2>9, <2>10, <2>11, <2>12, Returns DEF envVars
<1> QED BY <1>2, <1>3, <1>5, <1>7, <1>8, TalkFirst

-----------------------------------------------------------------------------
(* An active shell: the first prompt, a command, and its output.           *)
LEMMA HostPrompt ==
  ASSUME TypeOK, CallFacts, ActiveOK, Device, UNCHANGED envVars,
         NEW r \in RemoteIds, OfCall(r), remote_id = r, pc = "prompt", PromptPhase(r)
  PROVE  Lawful
<1>1. call \in Calls /\ UNCHANGED <<stream, call, kind, base_id, local_id>>
  BY DeviceDoes
<1>2. kind[call] = "active" /\ Began(r) /\ data[call] = <<>> /\ Talk(r, 0, <<>>, <<>>) /\ Open(r)
  BY DEF PromptPhase, Began
<1>3. OfCall(r)' /\ Began(r)'
  BY <1>1, <1>2, SameBegan DEF envVars
<1>4. CASE inp = <<>>
  BY <1>4, Steps, NothingRead DEF ReadPrompt
<1>5. CASE /\ stream[r].sent = 0 + 1 /\ stream[r].st \in {"waitack", "closed"}
           /\ out = <<>> \o <<>>
           /\ inp = Transfers(Chunk(r, 0 + 1)) \o Unread(r, 0 + 1)
  <2>1. Chunk(r, 1) \in Packet /\ Chunk(r, 1).cmd = "WRTE" /\ Unread(r, 1) \in Seq(Transfer)
    <3>1. 1 \in Nat
      OBVIOUS
    <3> QED BY <3>1, ChunkParts, UnreadIs
  <2>2. inp = Transfers(Chunk(r, 1)) \o Unread(r, 1) /\ stream[r].sent = 1 /\ out = <<>>
    BY <1>5, EmptySeq, CatEmpty
  <2>3. /\ ~Misreads /\ ~Skips({"WRTE"})
        /\ Reads({"WRTE"}) => inp' = Unread(r, 1)
    BY <2>1, <2>2, FirstPacket
  <2>4. ReadPrompt /\ inp' = Unread(r, 1)
    BY <2>3, Steps DEF ReadPrompt
  <2>5. Ack = AckTo(r)
    BY DEF Ack, AckTo
  <2>6. /\ Send(AckTo(r)) /\ pc' = "command" /\ UNCHANGED <<remote_id, status, data>>
        /\ active' = [local |-> local_id, remote |-> r]
    BY <2>4, <2>5 DEF ReadPrompt
  <2>7. Talk(r, 1, <<>>, <<>>)'
    BY <1>1, <1>5, <2>2, <2>4, <2>6, Acknowledges
  <2>8. FirstCommand(r)'
    BY <1>1, <1>2, <1>3, <2>2, <2>6, <2>7 DEF FirstCommand
  <2>9. CallPhase(r)' /\ ActiveOK'
    BY <1>3, <2>6, <2>8 DEF CallPhase, ActiveOK
  <2> QED BY <2>6, <2>9, CallGoesOn
<1>6. CASE stream[r].st = "closed"
  BY <1>2, <1>6 DEF Open
<1> QED BY <1>2, <1>4, <1>5, <1>6, TalkFirst

LEMMA HostCommand ==
  ASSUME TypeOK, CallFacts, ActiveOK, Device, UNCHANGED envVars,
         NEW r \in RemoteIds, OfCall(r), remote_id = r, pc = "command", FirstCommand(r)
  PROVE  Lawful
<1>1. call \in Calls /\ UNCHANGED <<stream, call, kind, base_id, local_id>>
  BY DeviceDoes
<1>2. /\ kind[call] = "active" /\ Began(r) /\ data[call] = <<>> /\ Talk(r, 1, <<>>, <<>>)
      /\ Open(r)
  BY DEF FirstCommand, Began
<1>3. OfCall(r)' /\ Began(r)'
  BY <1>1, <1>2, SameBegan DEF envVars
<1>4. SendCommand
  BY Steps
<1>5. WriteMsg(1) = WriteTo(r, 1) /\ WriteTo(r, 1) \in Packet
  <2>1. WriteTo(r, 1) \in Packet
    BY WriteParts
  <2> QED BY <2>1 DEF WriteMsg, WriteTo
<1>6. Send(WriteTo(r, 1)) /\ pc' = "output" /\ UNCHANGED <<inp, remote_id, active, status, data>>
  BY <1>4, <1>5 DEF SendCommand
<1>7. TalkNext(r, 1, <<>>, <<WriteTo(r, 1)>>)
  BY <1>1, <1>2, <1>5, <1>6, AsksNow
<1>8. Talk(r, 1, <<>>, <<WriteTo(r, 1)>>)'
  BY <1>1, <1>7, TalkForms
<1>9. Got(r)' = 0 /\ (Open(r))'
  BY <1>1, <1>2 DEF Began, Got, Open
<1>10. FirstOutput(r)'
  <2>1. Commanded(r, 1)'
    BY <1>8, <1>9 DEF Commanded
  <2>2. Len(data'[call']) + 1 = 1 /\ kind'[call'] = "active"
    BY <1>1, <1>2, <1>6
  <2>3. data'[call'] = [i \in 1..1 - 1 |-> <<r, i + 1>>]
    BY <1>1, <1>2, <1>6
  <2> QED BY <1>9, <2>1, <2>2, <2>3 DEF FirstOutput
<1>11. CallPhase(r)' /\ ActiveOK'
  BY <1>3, <1>6, <1>10 DEF CallPhase, ActiveOK
<1> QED BY <1>6, <1>11, CallGoesOn

(* A chunk of the result: the last one, or one more.                       *)
LEMMA HostChunk ==
  ASSUME TypeOK, CallFacts, ActiveOK, Device, UNCHANGED envVars,
         NEW r \in RemoteIds, OfCall(r), remote_id = r, pc = "output",
         kind[call] = "active", Open(r),
         NEW n \in Nat, n = Len(data[call]) + 1,
         data[call] = [i \in 1..n - 1 |-> <<r, i + 1>>],
         \A i \in 2..n : <<r, i>> \notin Prompts,
         stream[r].sent = n + 1, stream[r].st = "waitack",
         NEW s \in Seq(Transfer), inp = Transfers(Chunk(r, n + 1)) \o s,
         LeftOut(out, base_id + 1), LeftIn(s, base_id + 1),
         Send(AckTo(r)) /\ inp' = s => Commanded(r, n + 1)'
  PROVE  Lawful
<1>1. call \in Calls /\ UNCHANGED <<stream, call, kind, base_id, local_id>>
  BY DeviceDoes
<1>2. /\ Chunk(r, n + 1) \in Packet /\ Chunk(r, n + 1).cmd = "WRTE"
      /\ Chunk(r, n + 1).data = <<r, n + 1>>
  <2>1. n + 1 \in Nat
    OBVIOUS
  <2> QED BY <2>1, ChunkParts
<1>3. /\ Incoming = Chunk(r, n + 1) /\ ~Misreads /\ ~Skips({"WRTE", "OKAY"})
      /\ Reads({"WRTE", "OKAY"}) => inp' = s
  BY <1>2, FirstPacket
<1>4. ReadCommandOutput
  BY <1>3, Steps
<1>5. /\ inp' = s /\ UNCHANGED <<active, remote_id>>
      /\ data' = [data EXCEPT ![call] = Append(@, <<r, n + 1>>)]
      /\ IF <<r, n + 1>> \in Prompts THEN Ends("returned") /\ UNCHANGED out
                                     ELSE Send(AckTo(r)) /\ UNCHANGED <<pc, status>>
  <2>1. Ack = AckTo(r)
    BY DEF Ack, AckTo
  <2> QED BY <1>2, <1>3, <1>4, <2>1 DEF ReadCommandOutput
<1>6. n >= 1 /\ Len(data[call]) \in Nat
  BY <1>1 DEF TypeOK
<1>7. data'[call] = [i \in 1..n |-> <<r, i + 1>>]
  <2>1. data'[call] = Append(data[call], <<r, n + 1>>)
    BY <1>1, <1>5 DEF TypeOK
  <2> QED BY <1>6, <2>1
<1>8. CASE <<r, n + 1>> \in Prompts
  <2>1. LeftOut(out', base_id + 1) /\ LeftIn(inp', base_id + 1)
    BY <1>5, <1>8
  <2>2. Silent(r)
    <3>1. call \in 1..call /\ stream[r].service = <<call, 0>> /\ stream[r].peer <= base_id
      BY <1>1 DEF Calls, OfCall, CallFacts
    <3> QED BY <3>1 DEF Silent, IsActive
  <2>3. pc' \in {"idle", "stranded"} /\ stream[r].st # "none" /\ Ends("returned")
    BY <1>5, <1>8 DEF Ends
  <2>4. \E k \in 2..stream[r].sent :
          /\ data'[call] = [i \in 1..k - 1 |-> <<r, i + 1>>]
          /\ \A i \in 2..k : <<r, i>> \in Prompts <=> i = k
    <3>1. n + 1 \in 2..stream[r].sent /\ (n + 1) - 1 = n
      BY <1>6
    <3>2. \A i \in 2..n + 1 : <<r, i>> \in Prompts <=> i = n + 1
      <4> TAKE i \in 2..n + 1
      <4>1. CASE i = n + 1
        BY <1>8, <4>1
      <4>2. CASE i # n + 1
        BY <4>2
      <4> QED BY <4>1, <4>2
    <3> QED BY <1>7, <3>1, <3>2
  <2> QED BY <1>1, <1>5, <2>1, <2>2, <2>3, <2>4, Returns DEF envVars
<1>9. CASE <<r, n + 1>> \notin Prompts
  <2>1. Send(AckTo(r)) /\ UNCHANGED <<pc, status>>
    BY <1>5, <1>9
  <2>2. Commanded(r, n + 1)'
    BY <1>5, <2>1
  <2>3. Len(data'[call']) + 1 = n + 1 /\ data'[call'] = [i \in 1..(n + 1) - 1 |-> <<r, i + 1>>]
    BY <1>1, <1>7
  <2>4. \A i \in 2..n + 1 : <<r, i>> \notin Prompts
    <3> TAKE i \in 2..n + 1
    <3>1. CASE i = n + 1
      BY <1>9, <3>1
    <3>2. CASE i # n + 1
      BY <3>2
    <3> QED BY <3>1, <3>2
  <2>5. kind'[call'] = "active" /\ (Open(r))' /\ OfCall(r)'
    BY <1>1, SameOfCall DEF Open
  <2>6. FirstOutput(r)'
    BY <2>2, <2>3, <2>4, <2>5 DEF FirstOutput
  <2>7. CallPhase(r)' /\ ActiveOK'
    BY <1>5, <2>1, <2>5, <2>6 DEF CallPhase, ActiveOK
  <2> QED BY <1>5, <2>1, <2>7, CallGoesOn
<1> QED BY <1>8, <1>9

LEMMA HostOutput ==
  ASSUME TypeOK, CallFacts, ActiveOK, Device, UNCHANGED envVars,
         NEW r \in RemoteIds, OfCall(r), remote_id = r, pc = "output", FirstOutput(r)
  PROVE  Lawful
<1>1. call \in Calls /\ UNCHANGED <<stream, call, kind, base_id, local_id>>
  BY DeviceDoes
<1>2. PICK n \in Nat : n = Len(data[call]) + 1
  BY <1>1 DEF TypeOK
<1>3. /\ kind[call] = "active" /\ Open(r)
      /\ data[call] = [i \in 1..n - 1 |-> <<r, i + 1>>]
      /\ \A i \in 2..n : <<r, i>> \notin Prompts
      /\ Commanded(r, n)
  BY <1>2 DEF FirstOutput
<1>4. inp # <<>>
  BY Steps, NothingRead DEF ReadCommandOutput
<1>5. n + 1 \in Nat /\ 1 \in Nat /\ Got(r)' = Got(r)
      /\ stream'[r].sent = stream[r].sent /\ stream'[r].st = stream[r].st
  BY <1>1 DEF Got
<1>6. /\ WriteTo(r, 1)' = WriteTo(r, 1) /\ AckTo(r)' = AckTo(r) /\ Header(Yes(r))' = Header(Yes(r))
      /\ AckTo(r) \in Packet /\ WriteTo(r, 1) \in Packet
      /\ Yes(r) \in Packet /\ Header(Yes(r)) \in Transfer
  <2>1. Yes(r)' = Yes(r)
    BY <1>1 DEF Yes
  <2>2. Header(Yes(r))' = Header(Yes(r))
    BY <2>1 DEF Header
  <2>3. WriteTo(r, 1)' = WriteTo(r, 1) /\ AckTo(r)' = AckTo(r)
    BY <1>1, SameNames
  <2>4. AckTo(r) \in Packet /\ Yes(r) \in Packet
    BY <1>5, Msgs
  <2>5. WriteTo(r, 1) \in Packet
    BY <1>5, WriteParts
  <2> QED BY <2>2, <2>3, <2>4, <2>5, HeaderType
<1>7. \A i \in Nat : stream[r].sent <= i => Unread(r, i) = <<>>
  BY <1>3, UnreadIs DEF Open
<1>8. ASSUME NEW asked, Talk(r, n, <<>>, asked)
      PROVE  /\ stream[r].sent = n + 1 /\ stream[r].st = "waitack" /\ out = <<>> \o asked
             /\ inp = Transfers(Chunk(r, n + 1)) \o <<>>
  <2>1. /\ stream[r].sent = n + 1 /\ stream[r].st = "waitack" /\ out = <<>> \o asked
        /\ inp = Transfers(Chunk(r, n + 1)) \o Unread(r, n + 1)
    BY <1>3, <1>4, <1>8, TalkFirst DEF Open
  <2>2. stream[r].sent <= n + 1
    BY <1>5, <2>1
  <2>3. Unread(r, n + 1) = <<>>
    BY <1>5, <1>7, <2>2
  <2> QED BY <2>1, <2>3
<1>9. LeftOut(<<>>, base_id + 1) /\ LeftIn(<<>>, base_id + 1) /\ <<>> \in Seq(Transfer)
  BY NothingLeft
<1>10. CASE Got(r) = 0 /\ Talk(r, n, <<>>, <<WriteTo(r, 1)>>)
  <2>1. /\ stream[r].sent = n + 1 /\ stream[r].st = "waitack" /\ out = <<WriteTo(r, 1)>>
        /\ inp = Transfers(Chunk(r, n + 1)) \o <<>>
    BY <1>6, <1>8, <1>10, CatEmpty
  <2>2. LeftOut(out, base_id + 1)
    <3>1. /\ WriteTo(r, 1).cmd = "WRTE" /\ WriteTo(r, 1).arg0 = local_id
          /\ WriteTo(r, 1).arg1 = r
      BY <1>5, WriteParts
    <3>2. local_id < base_id + 1
      BY DEF CallFacts, TypeOK
    <3>3. Ending(WriteTo(r, 1), base_id + 1)
      BY <3>1, <3>2 DEF Ending
    <3> QED BY <2>1, <3>3 DEF LeftOut
  <2>3. ASSUME Send(AckTo(r)), inp' = <<>>
        PROVE  Commanded(r, n + 1)'
    <3>1. out' = <<WriteTo(r, 1), AckTo(r)>>
      BY <2>1, <2>3, AppendOne DEF Send
    <3> QED BY <1>5, <1>6, <1>10, <2>1, <2>3, <3>1 DEF Commanded
  <2> QED BY <1>2, <1>3, <1>9, <2>1, <2>2, <2>3, HostChunk
<1>11. CASE /\ Got(r) = 1 /\ stream[r].sent = n + 1 /\ stream[r].st = "waitack"
            /\ out = <<>> /\ inp = Transfers(Chunk(r, n + 1)) \o <<Header(Yes(r))>>
  <2>1. LeftIn(<<Header(Yes(r))>>, base_id + 1) /\ <<Header(Yes(r))>> \in Seq(Transfer)
    <3>1. /\ Yes(r).cmd = "OKAY" /\ Yes(r).data = NoData /\ Yes(r).arg1 = local_id
          /\ Header(Yes(r)).kind = "header" /\ Header(Yes(r)).packet = Yes(r)
      BY <1>6, Msgs, HeaderType
    <3>2. local_id < base_id + 1
      BY DEF CallFacts, TypeOK
    <3>3. Over(Header(Yes(r)), base_id + 1)
      BY <3>1, <3>2 DEF Over
    <3> QED BY <1>6, <3>3 DEF LeftIn
  <2>2. ASSUME Send(AckTo(r)), inp' = <<Header(Yes(r))>>
        PROVE  Commanded(r, n + 1)'
    <3>1. out' = <<AckTo(r)>> \o <<>>
      <4>1. <<AckTo(r)>> \in Seq(Packet)
        BY <1>6, OneItem
      <4>2. out' = <<AckTo(r)>>
        BY <1>11, <2>2, AppendOne DEF Send
      <4> QED BY <4>1, <4>2, CatEmpty
    <3>2. Unread(r, n + 1)' = <<>> \o <<>>
      BY <1>5, <1>11 DEF Unread
    <3>3. inp' = <<Header(Yes(r))>> \o Unread(r, n + 1)'
      BY <1>6, <2>2, <3>2, CatEmpty
    <3>4. Turn(r, n + 1, <<AckTo(r)>>)'
      BY <1>5, <1>6, <1>11 DEF Turn
    <3>5. TalkNext(r, n + 1, <<Header(Yes(r))>>, <<>>)
      <4>1. PICK ack \in {<<>>, <<AckTo(r)>>} : ack = <<AckTo(r)>>
        OBVIOUS
      <4>2. Turn(r, n + 1, ack)'
        BY <1>6, <3>4, <4>1 DEF Turn
      <4> QED BY <3>1, <3>3, <4>1, <4>2 DEF TalkNext
    <3>6. Talk(r, n + 1, <<Header(Yes(r))>>, <<>>)'
      BY <1>1, <3>5, TalkForms
    <3> QED BY <1>5, <1>11, <3>6 DEF Commanded
  <2> QED BY <1>2, <1>3, <1>9, <1>11, <2>1, <2>2, HostChunk
<1>12. CASE Got(r) = 1 /\ Talk(r, n, <<>>, <<>>)
  <2>1. /\ stream[r].sent = n + 1 /\ stream[r].st = "waitack" /\ out = <<>>
        /\ inp = Transfers(Chunk(r, n + 1)) \o <<>>
    BY <1>8, <1>12
  <2>2. ASSUME Send(AckTo(r)), inp' = <<>>
        PROVE  Commanded(r, n + 1)'
    <3>1. inp' = Unread(r, n + 1)
      BY <1>5, <1>7, <2>1, <2>2
    <3>2. Talk(r, n + 1, <<>>, <<>>)'
      BY <1>1, <1>5, <2>1, <2>2, <3>1, Acknowledges
    <3> QED BY <1>5, <1>12, <3>2 DEF Commanded
  <2> QED BY <1>2, <1>3, <1>9, <2>1, <2>2, HostChunk
<1>13. CASE Got(r) = 1 /\ Talk(r, n, <<Header(Yes(r))>>, <<>>)
  <2>1. /\ inp = Transfers(Yes(r)) \o Unread(r, n)
        /\ Yes(r) \in Packet /\ Yes(r).cmd = "OKAY" /\ Unread(r, n) \in Seq(Transfer)
    BY <1>13, YesFirst
  <2>2. /\ Incoming = Yes(r) /\ ~Misreads /\ ~Skips({"WRTE", "OKAY"})
        /\ Reads({"WRTE", "OKAY"}) => inp' = Unread(r, n)
    <3>1. PICK s \in Seq(Transfer) : s = Unread(r, n)
      BY <2>1
    <3>2. /\ Incoming = Yes(r) /\ ~Misreads
          /\ \A cmds : Reads(cmds) => Yes(r).cmd \in cmds /\ inp' = s
          /\ \A cmds : Skips(cmds) => Yes(r).cmd \notin cmds
      BY <2>1, <3>1, FirstPacket
    <3> QED BY <2>1, <3>1, <3>2
  <2>3. ReadCommandOutput
    BY <2>2, Steps
  <2>4. inp' = Unread(r, n) /\ UNCHANGED <<active, remote_id, out, pc, status, data>>
    BY <2>1, <2>2, <2>3 DEF ReadCommandOutput
  <2>5. Talk(r, n, <<>>, <<>>)'
    BY <1>1, <1>13, <2>4, YesTaken
  <2>6. Commanded(r, n)'
    BY <1>5, <1>13, <2>5 DEF Commanded
  <2>7. OfCall(r)' /\ (Open(r))'
    BY <1>1, <1>3, SameOfCall DEF Open
  <2>8. FirstOutput(r)'
    <3>1. Len(data'[call']) + 1 = n /\ data'[call'] = data[call] /\ kind'[call'] = "active"
      BY <1>1, <1>2, <1>3, <2>4
    <3> QED BY <1>3, <2>6, <2>7, <3>1 DEF FirstOutput
  <2>9. CallPhase(r)' /\ ActiveOK'
    BY <2>4, <2>7, <2>8 DEF CallPhase, ActiveOK
  <2> QED BY <2>4, <2>9, CallGoesOn
<1>14. ~(inp = <<>>)
  BY <1>4
<1> QED BY <1>3, <1>10, <1>11, <1>12, <1>13, <1>14 DEF Commanded

(* A further command, and what is said to it: OKAY.                        *)
LEMMA HostRepeating ==
  ASSUME TypeOK, CallFacts, ActiveOK, Device, pc \in {"command", "output"}, Repeating
  PROVE  Lawful
<1>1. call \in Calls /\ UNCHANGED <<stream, call, kind, base_id, local_id>>
  BY DeviceDoes
<1>2. /\ AllSilent /\ remote_id \in RemoteIds
      /\ \A i \in 1..Len(out) : Harmless(out[i])
      /\ \A i \in 1..Len(inp) : Plain(inp[i])
      /\ inp \in Seq(Transfer) /\ out \in Seq(Packet)
  BY RepeatingIs, StreamType
<1>3. ASSUME UNCHANGED <<remote_id, active, status>>, pc' \in {"command", "output"},
             \A i \in 1..Len(out') : Harmless(out'[i]),
             \A i \in 1..Len(inp') : Plain(inp'[i])
      PROVE  Lawful
  <2>1. AllSilent'
    BY <1>1, <1>2, SameSilent
  <2>2. \A i \in 1..Len(out') : Harmless(out[i])'
    BY <1>1, <1>3 DEF Harmless
  <2>3. \A i \in 1..Len(inp') : Plain(inp[i])'
    BY <1>3 DEF Plain
  <2>4. Repeating'
    BY <1>2, <1>3, <2>1, <2>2, <2>3 DEF Repeating, Harmless, Plain
  <2>5. Phases'
    BY <1>3, <2>4 DEF Phases, ActiveOK
  <2> QED BY <1>3, <2>5, GoesOn
<1>4. CASE pc = "command"
  <2>1. SendCommand
    BY <1>4, Steps
  <2>2. WriteMsg(1) \in Packet /\ WriteMsg(1).cmd = "WRTE" /\ WriteMsg(1).arg1 = remote_id
    BY HostPackets DEF WriteMsg, Pkt
  <2>3. /\ out' = Append(out, WriteMsg(1)) /\ pc' = "output"
        /\ UNCHANGED <<inp, remote_id, active, status>>
    BY <2>1 DEF SendCommand, Send
  <2>4. Harmless(WriteMsg(1))
    BY <1>2, <2>2 DEF Harmless
  <2>5. \A i \in 1..Len(out') : Harmless(out'[i])
    BY <1>2, <2>2, <2>3, <2>4, AppendItems
  <2> QED BY <1>2, <1>3, <2>3, <2>5
<1>5. CASE pc = "output"
  <2>1. inp # <<>>
    BY <1>5, Steps, NothingRead DEF ReadCommandOutput
  <2>2. Plain(Head(inp)) /\ \A i \in 1..Len(Tail(inp)) : Plain(Tail(inp)[i])
    BY <1>2, <2>1, TailItems
  <2>3. /\ ~Misreads /\ Incoming = Head(inp).packet
        /\ Reads({"WRTE", "OKAY"}) => inp' = Tail(inp)
        /\ Skips({"WRTE", "OKAY"}) => inp' = Tail(inp)
    BY <2>1, <2>2, PlainFirst DEF Plain
  <2>4. inp' = Tail(inp) /\ UNCHANGED <<out, pc, remote_id, active, status>>
    <3>1. CASE ReadCommandOutput
      <4>1. Reads({"WRTE", "OKAY"}) /\ Incoming.cmd \in {"WRTE", "OKAY"}
        BY <3>1 DEF ReadCommandOutput, Reads
      <4>2. Incoming.cmd = "OKAY"
        BY <2>2, <2>3, <4>1 DEF Plain
      <4> QED BY <2>3, <3>1, <4>1, <4>2 DEF ReadCommandOutput
    <3>2. CASE Skips({"WRTE", "OKAY"}) /\ SkipPacket
      BY <2>3, <3>2, SkipDoes
    <3> QED BY <1>5, <2>3, <3>1, <3>2, Steps
  <2>5. \A i \in 1..Len(inp') : Plain(inp'[i])
    BY <2>2, <2>4
  <2>6. \A i \in 1..Len(out') : Harmless(out'[i])
    BY <1>2, <2>4
  <2> QED BY <1>3, <1>5, <2>4, <2>5, <2>6
<1> QED BY <1>4, <1>5

-----------------------------------------------------------------------------
(* The scripts of query_file_attributes and push.                          *)
LEMMA QueryScript ==
  ASSUME kind[call] = "query"
  PROVE  /\ Len(Script) = 6
         /\ Script[1] = "write" /\ Script[2] = "OKAY" /\ Script[3] = "WRTE"
         /\ Script[4] = "ack" /\ Script[5] = "close" /\ Script[6] = "CLSE"
BY DEF Script

LEMMA PushScript ==
  ASSUME kind[call] = "push"
  PROVE  /\ Len(Script) = 2 * Records + 5
         /\ \A g \in 0..Records - 1 : Script[2 * g + 1] = "write" /\ Script[2 * g + 2] = "OKAY"
         /\ Script[2 * Records + 1] = "WRTE" /\ Script[2 * Records + 2] = "ack"
         /\ Script[2 * Records + 3] = "write" /\ Script[2 * Records + 4] = "CLSE"
         /\ Script[2 * Records + 5] = "close"
<1> DEFINE a == [i \in 1..2 * Records |-> IF i % 2 = 1 THEN "write" ELSE "OKAY"]
           b == << "WRTE", "ack", "write", "CLSE", "close" >>
           W == {"write", "OKAY", "WRTE", "ack", "CLSE", "close"}
<1>1. Records \in Nat \ {0}
  BY MyAdbAssumption
<1>2. Script = a \o b
  BY DEF Script
<1>3. /\ a \in Seq(W) /\ Len(a) = 2 * Records
      /\ b \in Seq(W) /\ Len(b) = 5
  <2>1. 2 * Records \in Nat
    BY <1>1
  <2>2. a \in [1..2 * Records -> W]
    OBVIOUS
  <2>3. a \in Seq(W) /\ Len(a) = 2 * Records
    BY <2>1, <2>2
  <2>4. b \in Seq(W) /\ Len(b) = 5
    OBVIOUS
  <2> QED BY <2>3, <2>4
<1>4. /\ Len(a \o b) = 2 * Records + 5
      /\ \A i \in 1..2 * Records : (a \o b)[i] = a[i]
      /\ \A i \in 1..5 : (a \o b)[2 * Records + i] = b[i]
  BY <1>1, <1>3
<1>5. \A g \in 0..Records - 1 : a[2 * g + 1] = "write" /\ a[2 * g + 2] = "OKAY"
  <2> TAKE g \in 0..Records - 1
  <2>1. 2 * g + 1 \in 1..2 * Records /\ 2 * g + 2 \in 1..2 * Records
    BY <1>1
  <2>2. (2 * g + 1) % 2 = 1 /\ (2 * g + 2) % 2 = 0
    BY <1>1
  <2> QED BY <2>1, <2>2
<1>6. b[1] = "WRTE" /\ b[2] = "ack" /\ b[3] = "write" /\ b[4] = "CLSE" /\ b[5] = "close"
  OBVIOUS
<1> HIDE DEF a, b
<1>7. \A g \in 0..Records - 1 : 2 * g + 1 \in 1..2 * Records /\ 2 * g + 2 \in 1..2 * Records
  BY <1>1
<1>8. \A i \in 1..5 : Script[2 * Records + i] = b[i]
  BY <1>2, <1>4
<1>9. \A g \in 0..Records - 1 : Script[2 * g + 1] = "write" /\ Script[2 * g + 2] = "OKAY"
  BY <1>2, <1>4, <1>5, <1>7
<1>10. /\ Script[2 * Records + 1] = b[1] /\ Script[2 * Records + 2] = b[2]
       /\ Script[2 * Records + 3] = b[3] /\ Script[2 * Records + 4] = b[4]
       /\ Script[2 * Records + 5] = b[5]
  BY <1>8
<1> QED BY <1>2, <1>4, <1>6, <1>9, <1>10

(* One step of a script: what is sent, and what is awaited.                *)
ScriptKeeps == UNCHANGED <<stream, call, kind, base_id, local_id, remote_id, active>>

LEMMA ScriptSends ==
  ASSUME TypeOK, InScript, Device, Now \in {"write", "ack", "close"}
  PROVE  /\ NextStep /\ ScriptKeeps /\ UNCHANGED <<inp, data>>
         /\ Now = "write" => Send(WriteMsg(step + 1))
         /\ Now = "ack" => Send(Ack)
         /\ Now = "close" => Send(CloseMsg)
<1>1. SendScript
  BY Steps DEF ReadScript
<1> QED BY <1>1 DEF SendScript, ScriptKeeps

LEMMA ScriptWaits ==
  ASSUME TypeOK, InScript, Device, Now \in {"OKAY", "WRTE", "CLSE"}
  PROVE  inp # <<>>
BY Steps, NothingRead DEF ReadScript, SendScript

LEMMA ScriptReads ==
  ASSUME TypeOK, InScript, Device, Now \in {"OKAY", "WRTE", "CLSE"},
         NEW p \in Packet, NEW s \in Seq(Transfer), inp = Transfers(p) \o s
  PROVE  /\ p.cmd = Now =>
              /\ NextStep /\ ScriptKeeps /\ inp' = s /\ UNCHANGED out
              /\ data' = IF Now = "WRTE" THEN [data EXCEPT ![call] = Append(@, p.data)] ELSE data
         /\ p.cmd # Now =>
              /\ ScriptKeeps /\ UNCHANGED <<out, pc, step, status, data>>
              /\ p.data = NoData => inp' = s
              /\ p.data # NoData => inp' = <<Payload(p)>> \o s
<1>1. /\ Incoming = p /\ ~Misreads
      /\ \A cmds : Reads(cmds) => p.cmd \in cmds /\ inp' = s
      /\ \A cmds : Skips(cmds) => /\ p.cmd \notin cmds
                                  /\ p.data = NoData => inp' = s
                                  /\ p.data # NoData => inp' = <<Payload(p)>> \o s
  BY FirstPacket
<1>2. ReadScript \/ (Skips({Now} \cap {"OKAY", "WRTE", "CLSE"}) /\ SkipPacket)
  BY <1>1, Steps DEF SendScript
<1>3. CASE ReadScript
  BY <1>1, <1>3 DEF ReadScript, ScriptKeeps
<1>4. CASE Skips({Now} \cap {"OKAY", "WRTE", "CLSE"}) /\ SkipPacket
  BY <1>1, <1>4, SkipDoes DEF ScriptKeeps
<1> QED BY <1>2, <1>3, <1>4

LEMMA NextStepIs ==
  ASSUME TypeOK, NextStep, InScript
  PROVE  /\ step' = step + 1
         /\ step + 1 # Len(Script) => pc' = "script" /\ UNCHANGED status
         /\ step + 1 = Len(Script) => pc' = "idle" /\ status' = [status EXCEPT ![call] = "returned"]
BY DEF NextStep, Ends, InScript

LEMMA ScriptGoesOn ==
  ASSUME TypeOK, CallFacts, ActiveOK, InScript, pc' = "script", UNCHANGED status, ScriptKeeps,
         NEW r \in RemoteIds, OfCall(r), remote_id = r,
         QueryPhase(r)' \/ PushPhase(r)'
  PROVE  Lawful
<1>1. OfCall(r)'
  BY SameOfCall DEF ScriptKeeps
<1>2. CallPhase(r)' /\ ActiveOK'
  BY <1>1 DEF CallPhase, ActiveOK, ScriptKeeps, InScript
<1> QED BY <1>2, CallGoesOn DEF ScriptKeeps, InScript

-----------------------------------------------------------------------------
(* The answer of the sync service: it is read, it is acknowledged, and the *)
(* stream is closed.                                                       *)
LEMMA TalkWaits ==
  ASSUME TypeOK, NEW r \in RemoteIds, NEW n \in Nat, NEW asked, Talk(r, n, <<>>, asked)
  PROVE  /\ stream[r].sent = n /\ Open(r) => inp = <<>>
         /\ inp # <<>> /\ Open(r) =>
              /\ stream[r].sent = n + 1 /\ stream[r].st = "waitack" /\ out = <<>> \o asked
              /\ inp = Transfers(Chunk(r, n + 1)) \o Unread(r, n + 1)
         /\ inp # <<>> /\ stream[r].sent = n =>
              stream[r].st = "closed" /\ inp = Transfers(Goodbye(r)) \o <<>>
<1>1. stream[r].sent \in Nat
  BY StreamParts
<1>2. CASE inp = <<>> /\ stream[r].sent = n /\ Open(r)
  BY <1>2
<1>3. CASE /\ stream[r].sent = n + 1 /\ stream[r].st \in {"waitack", "closed"}
           /\ out = <<>> \o asked
           /\ inp = Transfers(Chunk(r, n + 1)) \o Unread(r, n + 1)
  BY <1>3 DEF Open
<1>4. CASE stream[r].sent = n /\ stream[r].st = "closed" /\ inp = Transfers(Goodbye(r)) \o <<>>
  BY <1>4 DEF Open
<1> QED BY <1>2, <1>3, <1>4, TalkFirst

LEMMA AnswerRead ==
  ASSUME TypeOK, InScript, Device, Now = "WRTE", NEW r \in RemoteIds, Open(r),
         Talk(r, 0, <<>>, <<>>), UNCHANGED <<stream, local_id, call>>
  PROVE  /\ NextStep /\ ScriptKeeps /\ Owes(r)' /\ stream[r].sent = 1
         /\ data' = [data EXCEPT ![call] = Append(@, <<r, 1>>)]
<1>1. inp # <<>>
  BY ScriptWaits
<1>2. 1 \in Nat /\ 0 + 1 = 1 /\ <<>> \o <<>> = <<>>
  BY EmptySeq, CatEmpty
<1>3. /\ stream[r].sent = 1 /\ stream[r].st = "waitack" /\ out = <<>>
      /\ inp = Transfers(Chunk(r, 1)) \o Unread(r, 1)
  <2>1. /\ stream[r].sent = 0 + 1 /\ stream[r].st = "waitack" /\ out = <<>> \o <<>>
        /\ inp = Transfers(Chunk(r, 0 + 1)) \o Unread(r, 0 + 1)
    BY <1>1, TalkWaits
  <2> QED BY <1>2, <2>1
<1>4. /\ Chunk(r, 1) \in Packet /\ Chunk(r, 1).cmd = "WRTE" /\ Chunk(r, 1).data = <<r, 1>>
      /\ Unread(r, 1) \in Seq(Transfer)
  BY <1>2, ChunkParts, UnreadIs
<1>5. stream[r].sent <= 1 /\ stream[r].st # "closed" => Unread(r, 1) = <<>>
  BY <1>2, UnreadIs
<1>6. /\ NextStep /\ ScriptKeeps /\ inp' = Unread(r, 1) /\ UNCHANGED out
      /\ data' = [data EXCEPT ![call] = Append(@, <<r, 1>>)]
  BY <1>3, <1>4, ScriptReads
<1>7. Owes(r)'
  BY <1>3, <1>5, <1>6 DEF Owes
<1> QED BY <1>3, <1>6, <1>7

LEMMA AnswerAcked ==
  ASSUME TypeOK, InScript, Device, Now = "ack", NEW r \in RemoteIds, remote_id = r,
         Owes(r), UNCHANGED <<stream, local_id, call>>
  PROVE  /\ NextStep /\ ScriptKeeps /\ UNCHANGED data
         /\ Talk(r, 1, <<>>, <<>>)' /\ stream'[r].sent = 1 /\ (Open(r))'
<1>1. NextStep /\ ScriptKeeps /\ UNCHANGED <<inp, data>> /\ Send(Ack)
  BY ScriptSends
<1>2. Ack = AckTo(r)
  BY DEF Ack, AckTo
<1>3. out = <<>> /\ inp = <<>> /\ stream[r].st = "waitack" /\ stream[r].sent = 1
  BY DEF Owes
<1>4. 1 \in Nat
  OBVIOUS
<1>5. stream[r].sent <= 1 /\ stream[r].st # "closed" => Unread(r, 1) = <<>>
  BY <1>4, UnreadIs
<1>6. inp' = Unread(r, 1)
  BY <1>1, <1>3, <1>5
<1>7. Talk(r, 1, <<>>, <<>>)'
  BY <1>1, <1>2, <1>3, <1>4, <1>6, Acknowledges
<1> QED BY <1>1, <1>3, <1>7 DEF Open

LEMMA ClosedRead ==
  ASSUME TypeOK, InScript, Device, Now = "CLSE", NEW r \in RemoteIds,
         stream[r].sent = 1, Talk(r, 1, <<>>, <<>>)
  PROVE  /\ NextStep /\ ScriptKeeps /\ inp' = <<>> /\ UNCHANGED <<out, data>>
         /\ stream[r].st = "closed"
<1>1. inp # <<>>
  BY ScriptWaits
<1>2. stream[r].st = "closed" /\ inp = Transfers(Goodbye(r)) \o <<>>
  <2>1. 1 \in Nat
    OBVIOUS
  <2> QED BY <1>1, <2>1, TalkWaits
<1>3. PICK s \in Seq(Transfer) : s = <<>>
  BY EmptySeq
<1>4. Goodbye(r) \in Packet /\ Goodbye(r).cmd = "CLSE"
  BY Msgs
<1>5. inp = Transfers(Goodbye(r)) \o s
  BY <1>2, <1>3
<1>6. NextStep /\ ScriptKeeps /\ inp' = s /\ UNCHANGED <<out, data>>
  BY <1>4, <1>5, ScriptReads
<1> QED BY <1>2, <1>3, <1>6

-----------------------------------------------------------------------------
(* query_file_attributes.                                                  *)
LEMMA HostQuery ==
  ASSUME TypeOK, CallFacts, ActiveOK, Device, UNCHANGED envVars,
         NEW r \in RemoteIds, OfCall(r), remote_id = r, InScript, QueryPhase(r)
  PROVE  Lawful
<1>1. call \in Calls /\ UNCHANGED <<stream, call, kind, base_id, local_id>>
  BY DeviceDoes
<1>2. /\ kind[call] = "query" /\ kind'[call'] = "query" /\ Got(r)' = Got(r)
      /\ (Open(r))' <=> Open(r)
  BY <1>1 DEF QueryPhase, Got, Open
<1>3. ASSUME NextStep, step \in 0..4
      PROVE  step' = step + 1 /\ pc' = "script" /\ UNCHANGED status
  BY <1>2, <1>3, NextStepIs, QueryScript
<1>4. CASE step = 0 /\ Got(r) = 0 /\ stream[r].sent = 0 /\ Open(r) /\ Talk(r, 0, <<>>, <<>>)
  <2>1. Now = "write"
    BY <1>2, <1>4, QueryScript DEF Now
  <2>2. NextStep /\ ScriptKeeps /\ UNCHANGED inp /\ Send(WriteMsg(step + 1))
    BY <2>1, ScriptSends
  <2>3. WriteMsg(step + 1) = WriteTo(r, 1) /\ WriteTo(r, 1) \in Packet
    <3>1. WriteTo(r, 1) \in Packet
      BY WriteParts
    <3> QED BY <1>4, <3>1 DEF WriteMsg, WriteTo
  <2>4. TalkNext(r, 0, <<>>, <<WriteTo(r, 1)>>)
    BY <1>1, <1>4, <2>2, <2>3, AsksNow
  <2>5. Talk(r, 0, <<>>, <<WriteTo(r, 1)>>)'
    BY <1>1, <2>4, TalkForms
  <2>6. step' = 1 /\ pc' = "script" /\ UNCHANGED status
    BY <1>3, <1>4, <2>2
  <2>7. QueryPhase(r)'
    BY <1>1, <1>2, <1>4, <2>5, <2>6 DEF QueryPhase
  <2> QED BY <2>2, <2>6, <2>7, ScriptGoesOn
<1>5. CASE /\ step = 1 /\ Got(r) = 0 /\ stream[r].sent = 0 /\ Open(r)
           /\ Talk(r, 0, <<>>, <<WriteTo(r, 1)>>)
  <2>1. Now = "OKAY"
    BY <1>2, <1>5, QueryScript DEF Now
  <2>2. inp # <<>>
    BY <2>1, ScriptWaits
  <2>3. 0 \in Nat
    OBVIOUS
  <2> QED BY <1>5, <2>2, <2>3, TalkWaits
<1>6. CASE step = 1 /\ Got(r) = 1 /\ Open(r) /\ Talk(r, 0, <<Header(Yes(r))>>, <<>>)
  <2>1. Now = "OKAY"
    BY <1>2, <1>6, QueryScript DEF Now
  <2>2. /\ inp = Transfers(Yes(r)) \o Unread(r, 0)
        /\ Yes(r) \in Packet /\ Yes(r).cmd = "OKAY" /\ Unread(r, 0) \in Seq(Transfer)
    BY <1>6, YesFirst
  <2>3. NextStep /\ ScriptKeeps /\ inp' = Unread(r, 0) /\ UNCHANGED out
    BY <2>1, <2>2, ScriptReads
  <2>4. Talk(r, 0, <<>>, <<>>)'
    BY <1>1, <1>6, <2>3, YesTaken
  <2>5. step' = 2 /\ pc' = "script" /\ UNCHANGED status
    BY <1>3, <1>6, <2>3
  <2>6. QueryPhase(r)'
    BY <1>2, <1>6, <2>4, <2>5 DEF QueryPhase
  <2> QED BY <2>3, <2>5, <2>6, ScriptGoesOn
<1>7. CASE step = 2 /\ Got(r) = 1 /\ Open(r) /\ Talk(r, 0, <<>>, <<>>)
  <2>1. Now = "WRTE"
    BY <1>2, <1>7, QueryScript DEF Now
  <2>2. NextStep /\ ScriptKeeps /\ Owes(r)'
    BY <1>1, <1>7, <2>1, AnswerRead
  <2>3. step' = 3 /\ pc' = "script" /\ UNCHANGED status
    BY <1>3, <1>7, <2>2
  <2>4. QueryPhase(r)'
    BY <1>2, <2>2, <2>3 DEF QueryPhase
  <2> QED BY <2>2, <2>3, <2>4, ScriptGoesOn
<1>8. CASE step = 3 /\ Owes(r)
  <2>1. Now = "ack"
    BY <1>2, <1>8, QueryScript DEF Now
  <2>2. NextStep /\ ScriptKeeps /\ Talk(r, 1, <<>>, <<>>)' /\ stream'[r].sent = 1 /\ (Open(r))'
    BY <1>1, <1>8, <2>1, AnswerAcked
  <2>3. step' = 4 /\ pc' = "script" /\ UNCHANGED status
    BY <1>3, <1>8, <2>2
  <2>4. QueryPhase(r)'
    BY <1>2, <2>2, <2>3 DEF QueryPhase
  <2> QED BY <2>2, <2>3, <2>4, ScriptGoesOn
<1>9. CASE step = 4 /\ stream[r].sent = 1 /\ Open(r) /\ Talk(r, 1, <<>>, <<>>)
  <2>1. Now = "close"
    BY <1>2, <1>9, QueryScript DEF Now
  <2>2. NextStep /\ ScriptKeeps /\ UNCHANGED inp /\ Send(CloseMsg)
    BY <2>1, ScriptSends
  <2>3. CloseMsg = CloseTo(r) /\ CloseTo(r) \in Packet
    <3>1. CloseTo(r) \in Packet
      BY Msgs
    <3> QED BY <3>1 DEF CloseMsg, CloseTo
  <2>4. TalkNext(r, 1, <<>>, <<CloseTo(r)>>)
    BY <1>1, <1>9, <2>2, <2>3, AsksNow
  <2>5. Talk(r, 1, <<>>, <<CloseTo(r)>>)'
    BY <1>1, <2>4, TalkForms
  <2>6. step' = 5 /\ pc' = "script" /\ UNCHANGED status
    BY <1>3, <1>9, <2>2
  <2>7. QueryPhase(r)'
    BY <1>1, <1>2, <1>9, <2>5, <2>6 DEF QueryPhase
  <2> QED BY <2>2, <2>6, <2>7, ScriptGoesOn
<1>10. CASE step = 5
  <2>1. Now = "CLSE"
    BY <1>2, <1>10, QueryScript DEF Now
  <2>2. inp # <<>>
    BY <2>1, ScriptWaits
  <2>3. CASE stream[r].sent = 1 /\ Open(r) /\ Talk(r, 1, <<>>, <<CloseTo(r)>>)
    <3>1. 1 \in Nat
      OBVIOUS
    <3> QED BY <2>2, <2>3, <3>1, TalkWaits
  <2>4. CASE stream[r].sent = 1 /\ ~Open(r) /\ out = <<>> /\ Talk(r, 1, <<>>, <<>>)
    <3>1. NextStep /\ ScriptKeeps /\ inp' = <<>> /\ UNCHANGED out
      BY <2>1, <2>4, ClosedRead
    <3>2. pc' \in {"idle", "stranded"}
      BY <1>2, <1>10, <3>1, NextStepIs, QueryScript
    <3>3. LeftOut(out', base_id + 1) /\ LeftIn(inp', base_id + 1)
      BY <2>4, <3>1, NothingLeft
    <3>4. Silent(r) /\ stream[r].st # "none"
      BY <2>4 DEF Silent, Open
    <3> QED BY <1>1, <1>2, <3>1, <3>2, <3>3, <3>4, Returns DEF ScriptKeeps, envVars
  <2> QED BY <1>10, <2>3, <2>4 DEF QueryPhase
<1> QED BY <1>4, <1>5, <1>6, <1>7, <1>8, <1>9, <1>10 DEF QueryPhase

-----------------------------------------------------------------------------
(* push.                                                                   *)
LEMMA PushNow ==
  ASSUME TypeOK, kind[call] = "push"
  PROVE  /\ \A g \in 0..Records - 1 : /\ step = 2 * g => Now = "write"
                                      /\ step = 2 * g + 1 => Now = "OKAY"
         /\ \A g \in 1..Records : step + 1 = 2 * g => Now = "OKAY"
         /\ step = 2 * Records => Now = "WRTE"
         /\ step = 2 * Records + 1 => Now = "ack"
         /\ step = 2 * Records + 2 => Now = "write"
         /\ step = 2 * Records + 3 => Now = "CLSE"
         /\ step = 2 * Records + 4 => Now = "close"
<1>1. Records \in Nat \ {0} /\ step \in Nat
  BY MyAdbAssumption DEF TypeOK
<1>2. ASSUME NEW g \in 0..Records - 1
      PROVE  /\ step = 2 * g => Now = "write"
             /\ step = 2 * g + 1 => Now = "OKAY"
  <2>1. Script[2 * g + 1] = "write" /\ Script[2 * g + 2] = "OKAY"
    BY PushScript
  <2>2. (2 * g + 1) + 1 = 2 * g + 2
    BY <1>1
  <2> QED BY <2>1, <2>2 DEF Now
<1>3. ASSUME NEW g \in 1..Records, step + 1 = 2 * g
      PROVE  Now = "OKAY"
  <2>1. g - 1 \in 0..Records - 1 /\ step = 2 * (g - 1) + 1
    BY <1>1, <1>3
  <2> QED BY <1>2, <2>1
<1>4. /\ (2 * Records + 1) + 1 = 2 * Records + 2 /\ (2 * Records + 2) + 1 = 2 * Records + 3
      /\ (2 * Records + 3) + 1 = 2 * Records + 4 /\ (2 * Records + 4) + 1 = 2 * Records + 5
  BY <1>1
<1>5. /\ step = 2 * Records => Now = "WRTE"
      /\ step = 2 * Records + 1 => Now = "ack"
      /\ step = 2 * Records + 2 => Now = "write"
      /\ step = 2 * Records + 3 => Now = "CLSE"
      /\ step = 2 * Records + 4 => Now = "close"
  <2>1. /\ Script[2 * Records + 1] = "WRTE" /\ Script[2 * Records + 2] = "ack"
        /\ Script[2 * Records + 3] = "write" /\ Script[2 * Records + 4] = "CLSE"
        /\ Script[2 * Records + 5] = "close"
    BY PushScript
  <2> QED BY <1>4, <2>1 DEF Now
<1> QED BY <1>2, <1>3, <1>5

LEMMA PushNext ==
  ASSUME TypeOK, InScript, kind[call] = "push", NextStep
  PROVE  /\ step' = step + 1
         /\ step < 2 * Records + 4 => pc' = "script" /\ UNCHANGED status
         /\ step = 2 * Records + 4 => pc' = "idle"
<1>1. Records \in Nat \ {0} /\ step \in Nat /\ Len(Script) = 2 * Records + 5
  BY MyAdbAssumption, PushScript DEF TypeOK
<1>2. step < 2 * Records + 4 => step + 1 # Len(Script)
  BY <1>1
<1>3. step = 2 * Records + 4 => step + 1 = Len(Script)
  BY <1>1
<1> QED BY <1>2, <1>3, NextStepIs

LEMMA PushGoesOn ==
  ASSUME TypeOK, CallFacts, ActiveOK, InScript, kind[call] = "push", ScriptKeeps,
         pc' = "script", UNCHANGED status, NEW r \in RemoteIds, OfCall(r), remote_id = r,
         data'[call] = <<>> \/ step' > 2 * Records,
         Sending(r)' \/ Ended(r)' \/ Doomed(r)' \/ Starved(r)'
  PROVE  Lawful
<1>1. PushPhase(r)'
  BY DEF PushPhase, ScriptKeeps
<1> QED BY <1>1, ScriptGoesOn

(* A record is written, and QUIT.                                          *)
LEMMA PushWrites ==
  ASSUME TypeOK, InScript, Device, Now = "write", NEW r \in RemoteIds, remote_id = r,
         UNCHANGED <<stream, local_id, call>>
  PROVE  /\ NextStep /\ ScriptKeeps /\ UNCHANGED <<inp, data>>
         /\ Send(WriteTo(r, step + 1)) /\ WriteTo(r, step + 1) \in Packet
         /\ \A n \in Nat : Talk(r, n, <<>>, <<>>) => Talk(r, n, <<>>, <<WriteTo(r, step)>>)'
<1>1. NextStep /\ ScriptKeeps /\ UNCHANGED <<inp, data>> /\ Send(WriteMsg(step + 1))
  BY ScriptSends
<1>2. PICK k \in Nat : k = step + 1
  BY DEF TypeOK
<1>3. WriteTo(r, k) \in Packet /\ WriteMsg(k) = WriteTo(r, k)
  <2>1. WriteTo(r, k) \in Packet
    BY WriteParts
  <2> QED BY <2>1 DEF WriteMsg, WriteTo
<1>4. step' = k
  BY <1>1, <1>2 DEF NextStep
<1>5. ASSUME NEW n \in Nat, Talk(r, n, <<>>, <<>>)
      PROVE  Talk(r, n, <<>>, <<WriteTo(r, step)>>)'
  <2>1. TalkNext(r, n, <<>>, <<WriteTo(r, k)>>)
    BY <1>1, <1>2, <1>3, <1>5, AsksNow
  <2>2. Talk(r, n, <<>>, <<WriteTo(r, k)>>)'
    BY <2>1, TalkForms
  <2>3. WriteTo(r, step)' = WriteTo(r, k)'
    BY <1>4 DEF WriteTo
  <2> QED BY <2>2, <2>3 DEF Talk
<1> QED BY <1>1, <1>2, <1>3, <1>5

LEMMA HostSending ==
  ASSUME TypeOK, CallFacts, ActiveOK, Device, UNCHANGED envVars,
         NEW r \in RemoteIds, OfCall(r), remote_id = r, InScript, kind[call] = "push",
         data[call] = <<>> \/ step > 2 * Records, Sending(r)
  PROVE  Lawful
<1>1. call \in Calls /\ UNCHANGED <<stream, call, kind, base_id, local_id>>
  BY DeviceDoes
<1>2. Records \in Nat \ {0} /\ step \in Nat /\ Got(r) \in Nat /\ step <= 2 * Records
      /\ data[call] = <<>> /\ stream[r].sent \in Nat
  <2>1. Records \in Nat \ {0} /\ step \in Nat /\ Got(r) \in Nat /\ stream[r].sent \in Nat
    BY MyAdbAssumption, StreamParts DEF TypeOK
  <2>2. step < 2 * Records
    BY <2>1 DEF Sending
  <2> QED BY <2>1, <2>2
<1>3. /\ Got(r)' = Got(r) /\ r \notin failed' /\ (Open(r))' /\ Open(r)
      /\ stream'[r].sent = stream[r].sent
  BY <1>1 DEF Sending, Got, Open, envVars
<1>4. CASE step = 2 * Got(r) /\ Got(r) < Records /\ stream[r].sent = 0 /\ Talk(r, 0, <<>>, <<>>)
  <2>1. Now = "write"
    <3>1. Got(r) \in 0..Records - 1
      BY <1>2, <1>4
    <3> QED BY <1>4, <3>1, PushNow
  <2>2. /\ NextStep /\ ScriptKeeps /\ UNCHANGED data
        /\ Talk(r, 0, <<>>, <<>>) => Talk(r, 0, <<>>, <<WriteTo(r, step)>>)'
    BY <1>1, <2>1, PushWrites
  <2>3. step' = step + 1 /\ pc' = "script" /\ UNCHANGED status
    BY <1>2, <2>2, PushNext
  <2>4. Sending(r)'
    BY <1>3, <1>4, <2>2, <2>3 DEF Sending
  <2> QED BY <1>2, <2>2, <2>3, <2>4, PushGoesOn
<1>5. CASE /\ step = 2 * Got(r) + 1 /\ Got(r) < Records /\ stream[r].sent = 0
           /\ Talk(r, 0, <<>>, <<WriteTo(r, step)>>)
  <2>1. Now = "OKAY"
    <3>1. Got(r) \in 0..Records - 1
      BY <1>2, <1>5
    <3> QED BY <1>5, <3>1, PushNow
  <2>2. inp # <<>>
    BY <2>1, ScriptWaits
  <2>3. 0 \in Nat
    OBVIOUS
  <2> QED BY <1>3, <1>5, <2>2, <2>3, TalkWaits
<1>6. CASE /\ step + 1 = 2 * Got(r) /\ Got(r) \in 1..Records
           /\ stream[r].sent = 1 => Got(r) = Records
           /\ Talk(r, 0, <<Header(Yes(r))>>, <<>>)
  <2>1. Now = "OKAY"
    BY <1>6, PushNow
  <2>2. /\ inp = Transfers(Yes(r)) \o Unread(r, 0)
        /\ Yes(r) \in Packet /\ Yes(r).cmd = "OKAY" /\ Unread(r, 0) \in Seq(Transfer)
    BY <1>6, YesFirst
  <2>3. NextStep /\ ScriptKeeps /\ inp' = Unread(r, 0) /\ UNCHANGED <<out, data>>
    BY <2>1, <2>2, ScriptReads
  <2>4. Talk(r, 0, <<>>, <<>>)'
    BY <1>1, <1>6, <2>3, YesTaken
  <2>5. step' = 2 * Got(r) /\ pc' = "script" /\ UNCHANGED status
    BY <1>2, <1>6, <2>3, PushNext
  <2>6. stream[r].sent \in {0, 1}
    <3>1. stream[r].sent = 0 \/ stream[r].sent = 0 + 1
      BY <1>6 DEF Talk, Turn
    <3> QED BY <3>1
  <2>7. Sending(r)' \/ Ended(r)'
    <3>1. CASE Got(r) < Records
      <4>1. stream'[r].sent = 0
        BY <1>2, <1>3, <1>6, <2>6, <3>1
      <4> QED BY <1>3, <2>4, <2>5, <3>1, <4>1 DEF Sending
    <3>2. CASE Got(r) = Records
      BY <1>3, <2>4, <2>5, <3>2 DEF Ended
    <3> QED BY <1>2, <1>6, <3>1, <3>2
  <2> QED BY <1>2, <2>3, <2>5, <2>7, PushGoesOn
<1> QED BY <1>4, <1>5, <1>6 DEF Sending

LEMMA PayloadFirst ==
  ASSUME TypeOK, NEW p \in Packet, NEW s \in Seq(Transfer), inp = <<Payload(p)>> \o s
  PROVE  inp # <<>> /\ Head(inp).kind = "payload" /\ Tail(inp) = s
BY HeaderType, FirstItem

LEMMA HostDoomed ==
  ASSUME TypeOK, CallFacts, ActiveOK, Device, UNCHANGED envVars,
         NEW r \in RemoteIds, OfCall(r), remote_id = r, InScript, kind[call] = "push",
         data[call] = <<>> \/ step > 2 * Records, Doomed(r)
  PROVE  Lawful
<1>1. call \in Calls /\ UNCHANGED <<stream, call, kind, base_id, local_id>>
  BY DeviceDoes
<1>2. Records \in Nat \ {0} /\ step \in Nat /\ Got(r) \in Nat /\ step < 2 * Records
      /\ data[call] = <<>>
  <2>1. Records \in Nat \ {0} /\ step \in Nat /\ Got(r) \in Nat
    BY MyAdbAssumption, StreamParts DEF TypeOK
  <2>2. \/ step + 1 = 2 * Got(r) /\ Got(r) <= Records
        \/ step = 2 * Got(r) /\ Got(r) < Records
        \/ step = 2 * Got(r) + 1 /\ Got(r) < Records
    BY <2>1 DEF Doomed
  <2>3. step < 2 * Records
    BY <2>1, <2>2
  <2> QED BY <2>1, <2>3
<1>3. /\ Got(r)' = Got(r) /\ stream'[r] = stream[r]
      /\ stream[r].st = "waitack" /\ stream[r].sent = 1
  BY <1>1 DEF Doomed, Got
<1> DEFINE yes == <<Header(Yes(r))>>
<1>4. /\ FailOf(r) = Transfers(Chunk(r, 1)) /\ FailOf(r) \in Seq(Transfer)
      /\ Tail(FailOf(r)) = <<Payload(Chunk(r, 1))>> /\ Tail(FailOf(r)) \in Seq(Transfer)
      /\ yes \in Seq(Transfer) /\ Yes(r) \in Packet /\ Yes(r).cmd = "OKAY"
      /\ yes = Transfers(Yes(r)) /\ Yes(r).data = NoData
      /\ Chunk(r, 1) \in Packet /\ Chunk(r, 1).cmd = "WRTE" /\ Chunk(r, 1).data # NoData
  <2>1. 1 \in Nat
    OBVIOUS
  <2>2. Chunk(r, 1) \in Packet /\ Chunk(r, 1).cmd = "WRTE" /\ Chunk(r, 1).data # NoData
    BY <2>1, ChunkParts
  <2>3. Yes(r) \in Packet /\ Yes(r).cmd = "OKAY" /\ Yes(r).data = NoData
    BY Msgs
  <2>4. yes = Transfers(Yes(r))
    BY <2>3, TransfersType
  <2>5. /\ FailOf(r) = Transfers(Chunk(r, 1)) /\ FailOf(r) \in Seq(Transfer)
        /\ Tail(FailOf(r)) = <<Payload(Chunk(r, 1))>> /\ yes \in Seq(Transfer)
        /\ Payload(Chunk(r, 1)) \in Transfer
    BY FailIs
  <2>6. Tail(FailOf(r)) \in Seq(Transfer)
    BY <2>5, OneItem
  <2> QED BY <2>2, <2>3, <2>4, <2>5, <2>6
<1>5. FailOf(r)' = FailOf(r) /\ Header(Yes(r))' = Header(Yes(r))
  BY <1>1, SameFail
<1>6. PICK fail \in Seq(Transfer), rest \in Seq(Transfer) :
        fail = FailOf(r) /\ rest = Tail(fail)
  BY <1>4
<1> HIDE DEF yes
<1>7. ASSUME NEW s \in Seq(Transfer), inp = fail \o s, Now = "OKAY"
      PROVE  ScriptKeeps /\ UNCHANGED <<out, pc, step, status, data>> /\ inp' = rest \o s
  BY <1>4, <1>6, <1>7, ScriptReads
<1>8. ASSUME NEW s \in Seq(Transfer), inp = rest \o s, Now = "OKAY"
      PROVE  \/ Lawful
             \/ ScriptKeeps /\ UNCHANGED <<out, pc, step, status, data>> /\ inp' = s
  <2>1. inp # <<>> /\ Head(inp).kind = "payload" /\ Tail(inp) = s
    BY <1>4, <1>6, <1>8, PayloadFirst
  <2>2. Misread
    BY <1>8, <2>1, Steps DEF Reads, Skips, IsHeader, ReadScript, SendScript
  <2>3. inp' = s
    BY <2>1, <2>2 DEF Misread, Misreads
  <2>4. Raises("raised") \/ UNCHANGED <<pc, status>>
    BY <2>2, Steps
  <2>5. CASE Raises("raised")
    BY <2>2, <2>5, Misreading
  <2> QED BY <2>2, <2>3, <2>4, <2>5 DEF Misread, ScriptKeeps
<1>9. <<>> \in Seq(Transfer) /\ fail \o <<>> = fail /\ rest \o <<>> = rest
  BY <1>6, EmptySeq, CatEmpty
<1>10. CASE step + 1 = 2 * Got(r) /\ Got(r) < Records /\ out = <<>> /\ inp = yes \o fail
  <2>1. Now = "OKAY"
    <3>1. Got(r) \in 1..Records
      BY <1>2, <1>10
    <3> QED BY <1>10, <3>1, PushNow
  <2>2. NextStep /\ ScriptKeeps /\ inp' = fail /\ UNCHANGED <<out, data>>
    BY <1>4, <1>6, <1>10, <2>1, ScriptReads
  <2>3. step' = 2 * Got(r) /\ pc' = "script" /\ UNCHANGED status
    BY <1>2, <1>10, <2>2, PushNext
  <2>4. Doomed(r)'
    BY <1>3, <1>5, <1>6, <1>10, <2>2, <2>3 DEF Doomed, FailOf
  <2> QED BY <1>2, <2>2, <2>3, <2>4, PushGoesOn
<1>11. CASE step = 2 * Got(r) /\ Got(r) < Records /\ out = <<>> /\ inp = fail
  <2>1. Now = "write"
    <3>1. Got(r) \in 0..Records - 1
      BY <1>2, <1>11
    <3> QED BY <1>11, <3>1, PushNow
  <2>2. /\ NextStep /\ ScriptKeeps /\ UNCHANGED <<inp, data>>
        /\ Send(WriteTo(r, step + 1)) /\ WriteTo(r, step + 1) \in Packet
    BY <1>1, <2>1, PushWrites
  <2>3. step' = step + 1 /\ pc' = "script" /\ UNCHANGED status
    BY <1>2, <2>2, PushNext
  <2>4. out' = <<WriteTo(r, step)'>>
    <3>1. WriteTo(r, step)' = WriteTo(r, step + 1)
      BY <1>1, <2>3 DEF WriteTo
    <3> QED BY <1>11, <2>2, <3>1, AppendOne DEF Send
  <2>5. Doomed(r)'
    BY <1>3, <1>5, <1>6, <1>11, <2>2, <2>3, <2>4 DEF Doomed, FailOf
  <2> QED BY <1>2, <2>2, <2>3, <2>5, PushGoesOn
<1>12. CASE /\ step = 2 * Got(r) + 1 /\ Got(r) < Records /\ out = <<WriteTo(r, step)>>
            /\ inp = fail \/ inp = rest
  <2>1. Now = "OKAY"
    <3>1. Got(r) \in 0..Records - 1
      BY <1>2, <1>12
    <3> QED BY <1>12, <3>1, PushNow
  <2>2. CASE inp = fail
    <3>1. ScriptKeeps /\ UNCHANGED <<out, pc, step, status, data>> /\ inp' = rest
      BY <1>7, <1>9, <2>1, <2>2
    <3>2. WriteTo(r, step)' = WriteTo(r, step)
      BY <1>1, <3>1 DEF WriteTo
    <3>3. rest = Tail(FailOf(r))'
      BY <1>5, <1>6
    <3>4. Doomed(r)'
      BY <1>3, <1>12, <3>1, <3>2, <3>3 DEF Doomed, FailOf
    <3> QED BY <1>2, <3>1, <3>4, PushGoesOn DEF InScript
  <2>3. CASE inp = rest
    <3>1. CASE ScriptKeeps /\ UNCHANGED <<out, pc, step, status, data>> /\ inp' = <<>>
      <4>1. WriteTo(r, step)' = WriteTo(r, step)
        BY <1>1, <3>1 DEF WriteTo
      <4>2. Starved(r)'
        BY <1>3, <1>12, <3>1, <4>1 DEF Starved
      <4> QED BY <1>2, <3>1, <4>2, PushGoesOn DEF InScript
    <3> QED BY <1>8, <1>9, <2>1, <2>3, <3>1
  <2> QED BY <1>12, <2>2, <2>3
<1>13. CASE /\ step + 1 = 2 * Got(r) /\ Got(r) \in 1..Records /\ out = <<>>
            /\ inp = fail \o yes \/ inp = rest \o yes
  <2>1. Now = "OKAY"
    BY <1>13, PushNow
  <2>2. CASE inp = fail \o yes
    <3>1. ScriptKeeps /\ UNCHANGED <<out, pc, step, status, data>> /\ inp' = rest \o yes
      BY <1>4, <1>7, <2>1, <2>2
    <3>2. rest = Tail(FailOf(r))'
      BY <1>5, <1>6
    <3>3. inp' = Tail(FailOf(r))' \o <<Header(Yes(r))>>'
      BY <1>5, <3>1, <3>2 DEF yes
    <3>4. Doomed(r)'
      BY <1>3, <1>13, <3>1, <3>3 DEF Doomed, FailOf
    <3> QED BY <1>2, <3>1, <3>4, PushGoesOn DEF InScript
  <2>3. CASE inp = rest \o yes
    <3>1. CASE ScriptKeeps /\ UNCHANGED <<out, pc, step, status, data>> /\ inp' = yes
      <4>1. inp' = <<Header(Yes(r))>>'
        BY <1>5, <3>1 DEF yes
      <4>2. Starved(r)'
        BY <1>3, <1>13, <3>1, <4>1 DEF Starved
      <4> QED BY <1>2, <3>1, <4>2, PushGoesOn DEF InScript
    <3> QED BY <1>4, <1>8, <2>1, <2>3, <3>1
  <2> QED BY <1>13, <2>2, <2>3
<1> QED BY <1>6, <1>10, <1>11, <1>12, <1>13 DEF Doomed, FailOf, yes

(* The failure has been skipped: the records that are left are sent and    *)
(* acknowledged, and then the host waits.                                  *)
LEMMA HostStarved ==
  ASSUME TypeOK, CallFacts, ActiveOK, Device, UNCHANGED envVars,
         NEW r \in RemoteIds, OfCall(r), remote_id = r, InScript, kind[call] = "push",
         data[call] = <<>> \/ step > 2 * Records, Starved(r)
  PROVE  Lawful
<1>1. call \in Calls /\ UNCHANGED <<stream, call, kind, base_id, local_id>>
  BY DeviceDoes
<1>2. Records \in Nat \ {0} /\ step \in Nat /\ Got(r) \in Nat /\ step <= 2 * Records
      /\ data[call] = <<>>
  <2>1. Records \in Nat \ {0} /\ step \in Nat /\ Got(r) \in Nat
    BY MyAdbAssumption, StreamParts DEF TypeOK
  <2>2. \/ step + 1 = 2 * Got(r) /\ Got(r) <= Records
        \/ step = 2 * Got(r) /\ Got(r) <= Records
        \/ step = 2 * Got(r) + 1 /\ Got(r) < Records
    BY <2>1 DEF Starved
  <2>3. step <= 2 * Records
    BY <2>1, <2>2
  <2> QED BY <2>1, <2>3
<1>3. /\ Got(r)' = Got(r) /\ stream'[r] = stream[r]
      /\ stream[r].st = "waitack" /\ stream[r].sent = 1
  BY <1>1 DEF Starved, Got
<1>4. CASE step = 2 * Got(r) /\ Got(r) <= Records /\ out = <<>> /\ inp = <<>>
  <2>1. CASE Got(r) < Records
    <3>1. Now = "write"
      <4>1. Got(r) \in 0..Records - 1
        BY <1>2, <2>1
      <4> QED BY <1>4, <4>1, PushNow
    <3>2. /\ NextStep /\ ScriptKeeps /\ UNCHANGED <<inp, data>>
          /\ Send(WriteTo(r, step + 1)) /\ WriteTo(r, step + 1) \in Packet
      BY <1>1, <3>1, PushWrites
    <3>3. step' = step + 1 /\ pc' = "script" /\ UNCHANGED status
      BY <1>2, <1>4, <2>1, <3>2, PushNext
    <3>4. out' = <<WriteTo(r, step)'>>
      <4>1. WriteTo(r, step)' = WriteTo(r, step + 1)
        BY <1>1, <3>3 DEF WriteTo
      <4> QED BY <1>4, <3>2, <4>1, AppendOne DEF Send
    <3>5. Starved(r)'
      BY <1>3, <1>4, <2>1, <3>2, <3>3, <3>4 DEF Starved
    <3> QED BY <1>2, <3>2, <3>3, <3>5, PushGoesOn
  <2>2. CASE Got(r) = Records
    <3>1. Now = "WRTE"
      BY <1>4, <2>2, PushNow
    <3> QED BY <1>4, <3>1, ScriptWaits
  <2> QED BY <1>2, <1>4, <2>1, <2>2
<1>5. CASE step = 2 * Got(r) + 1 /\ Got(r) < Records /\ inp = <<>>
  <2>1. Now = "OKAY"
    <3>1. Got(r) \in 0..Records - 1
      BY <1>2, <1>5
    <3> QED BY <1>5, <3>1, PushNow
  <2> QED BY <1>5, <2>1, ScriptWaits
<1>6. CASE /\ step + 1 = 2 * Got(r) /\ Got(r) \in 1..Records
           /\ out = <<>> /\ inp = <<Header(Yes(r))>>
  <2>1. Now = "OKAY"
    BY <1>6, PushNow
  <2>2. /\ Yes(r) \in Packet /\ Yes(r).cmd = "OKAY" /\ <<>> \in Seq(Transfer)
        /\ inp = Transfers(Yes(r)) \o <<>>
    <3>1. Yes(r) \in Packet /\ Yes(r).cmd = "OKAY" /\ Yes(r).data = NoData
      BY Msgs
    <3>2. Transfers(Yes(r)) = <<Header(Yes(r))>> /\ <<Header(Yes(r))>> \in Seq(Transfer)
      BY <3>1, TransfersType, FailIs
    <3> QED BY <1>6, <3>1, <3>2, EmptySeq, CatEmpty
  <2>3. NextStep /\ ScriptKeeps /\ inp' = <<>> /\ UNCHANGED <<out, data>>
    BY <2>1, <2>2, ScriptReads
  <2>4. step' = 2 * Got(r) /\ pc' = "script" /\ UNCHANGED status
    BY <1>2, <1>6, <2>3, PushNext
  <2>5. Starved(r)'
    BY <1>3, <1>6, <2>3, <2>4 DEF Starved
  <2> QED BY <1>2, <2>3, <2>4, <2>5, PushGoesOn
<1> QED BY <1>4, <1>5, <1>6 DEF Starved

LEMMA HostEnded ==
  ASSUME TypeOK, CallFacts, ActiveOK, Device, UNCHANGED envVars,
         NEW r \in RemoteIds, OfCall(r), remote_id = r, InScript, kind[call] = "push",
         data[call] = <<>> \/ step > 2 * Records, Ended(r)
  PROVE  Lawful
<1>1. call \in Calls /\ UNCHANGED <<stream, call, kind, base_id, local_id>>
  BY DeviceDoes
<1>2. /\ Records \in Nat \ {0} /\ step \in Nat /\ Got(r) \in Nat
      /\ \A i \in 1..4 : 2 * Records + i # 2 * Records /\ 2 * Records + i > 2 * Records
  <2>1. Records \in Nat \ {0} /\ step \in Nat /\ Got(r) \in Nat
    BY MyAdbAssumption, StreamParts DEF TypeOK
  <2> QED BY <2>1
<1>3. /\ Got(r)' = Got(r) /\ r \notin failed /\ r \notin failed' /\ stream'[r] = stream[r]
      /\ (Open(r))' <=> Open(r)
  BY <1>1 DEF Ended, Got, Open, envVars
<1>4. CASE step = 2 * Records /\ Got(r) = Records /\ Open(r) /\ Talk(r, 0, <<>>, <<>>)
  <2>1. Now = "WRTE"
    BY <1>4, PushNow
  <2>2. /\ NextStep /\ ScriptKeeps /\ Owes(r)' /\ stream[r].sent = 1
        /\ data' = [data EXCEPT ![call] = Append(@, <<r, 1>>)]
    BY <1>1, <1>4, <2>1, AnswerRead
  <2>3. step' = 2 * Records + 1 /\ pc' = "script" /\ UNCHANGED status
    BY <1>2, <1>4, <2>2, PushNext
  <2>4. data'[call] = << <<r, 1>> >>
    <3>1. data[call] = <<>>
      BY <1>2, <1>4
    <3>2. data'[call] = Append(data[call], <<r, 1>>)
      BY <1>1, <2>2 DEF TypeOK
    <3> QED BY <3>1, <3>2, AppendOne
  <2>5. Ended(r)'
    BY <1>1, <1>3, <1>4, <2>2, <2>3, <2>4 DEF Ended
  <2> QED BY <1>2, <2>2, <2>3, <2>5, PushGoesOn
<1>5. ASSUME data[call] = << <<r, 1>> >>, stream[r].sent = 1,
             step \in 2 * Records + 1..2 * Records + 3,
             ScriptKeeps, UNCHANGED data,
             step' = step \/ step' = step + 1, pc' = "script", UNCHANGED status, Ended(r)'
      PROVE  Lawful
  <2>1. step' > 2 * Records
    BY <1>2, <1>5
  <2> QED BY <1>5, <2>1, PushGoesOn
<1>6. ASSUME data[call] = << <<r, 1>> >>, stream[r].sent = 1, UNCHANGED data
      PROVE  data'[call'] = << <<r, 1>> >> /\ stream'[r].sent = 1
  BY <1>1, <1>3, <1>6
<1>7. ASSUME step = 2 * Records + 1, Got(r) = Records, Owes(r),
             data[call] = << <<r, 1>> >>, stream[r].sent = 1
      PROVE  Lawful
  <2>1. Now = "ack"
    BY <1>7, PushNow
  <2>2. /\ NextStep /\ ScriptKeeps /\ UNCHANGED data
        /\ Talk(r, 1, <<>>, <<>>)' /\ (Open(r))'
    BY <1>1, <1>7, <2>1, AnswerAcked
  <2>3. step' = 2 * Records + 2 /\ step' = step + 1 /\ pc' = "script" /\ UNCHANGED status
    BY <1>2, <1>7, <2>2, PushNext
  <2>4. Ended(r)'
    BY <1>3, <1>6, <1>7, <2>2, <2>3 DEF Ended
  <2> QED BY <1>2, <1>5, <1>7, <2>2, <2>3, <2>4
<1>8. ASSUME step = 2 * Records + 2, Got(r) = Records, Open(r), Talk(r, 1, <<>>, <<>>),
             data[call] = << <<r, 1>> >>, stream[r].sent = 1
      PROVE  Lawful
  <2>1. Now = "write"
    BY <1>8, PushNow
  <2>2. 1 \in Nat
    OBVIOUS
  <2>3. /\ NextStep /\ ScriptKeeps /\ UNCHANGED data
        /\ Talk(r, 1, <<>>, <<WriteTo(r, step)>>)'
    BY <1>1, <1>8, <2>1, <2>2, PushWrites
  <2>4. step' = 2 * Records + 3 /\ step' = step + 1 /\ pc' = "script" /\ UNCHANGED status
    BY <1>2, <1>8, <2>3, PushNext
  <2>5. Ended(r)'
    BY <1>3, <1>6, <1>8, <2>3, <2>4 DEF Ended
  <2> QED BY <1>2, <1>5, <1>8, <2>3, <2>4, <2>5
<1>9. ASSUME step = 2 * Records + 3, Open(r), Talk(r, 1, <<>>, <<WriteTo(r, step)>>),
             stream[r].sent = 1
      PROVE  Lawful
  <2>1. Now = "CLSE"
    BY <1>9, PushNow
  <2>2. inp # <<>>
    BY <2>1, ScriptWaits
  <2>3. 1 \in Nat
    OBVIOUS
  <2> QED BY <1>9, <2>2, <2>3, TalkWaits
<1>10. ASSUME step = 2 * Records + 3, Got(r) = Records + 1, out = <<>>, Talk(r, 1, <<>>, <<>>),
              data[call] = << <<r, 1>> >>, stream[r].sent = 1
       PROVE  Lawful
  <2>1. Now = "CLSE"
    BY <1>10, PushNow
  <2>2. /\ NextStep /\ ScriptKeeps /\ inp' = <<>> /\ UNCHANGED <<out, data>>
        /\ stream[r].st = "closed"
    BY <1>10, <2>1, ClosedRead
  <2>3. step' = 2 * Records + 4 /\ step' = step + 1 /\ pc' = "script" /\ UNCHANGED status
    BY <1>2, <1>10, <2>2, PushNext
  <2>4. Ended(r)'
    BY <1>3, <1>6, <1>10, <2>2, <2>3 DEF Ended, Open
  <2> QED BY <1>2, <1>5, <1>10, <2>2, <2>3, <2>4
<1>11. ASSUME step = 2 * Records + 3, Got(r) = Records + 1, out = <<>>,
              Talk(r, 1, <<Header(Yes(r))>>, <<>>),
              data[call] = << <<r, 1>> >>, stream[r].sent = 1
       PROVE  Lawful
  <2>1. Now = "CLSE"
    BY <1>11, PushNow
  <2>2. 1 \in Nat
    OBVIOUS
  <2>3. /\ inp = Transfers(Yes(r)) \o Unread(r, 1)
        /\ Yes(r) \in Packet /\ Yes(r).cmd = "OKAY" /\ Yes(r).data = NoData
        /\ Unread(r, 1) \in Seq(Transfer)
    BY <1>11, <2>2, YesFirst
  <2>4. ScriptKeeps /\ UNCHANGED <<out, pc, step, status, data>> /\ inp' = Unread(r, 1)
    BY <2>1, <2>3, ScriptReads
  <2>5. Talk(r, 1, <<>>, <<>>)'
    BY <1>1, <1>11, <2>2, <2>4, YesTaken
  <2>6. Ended(r)'
    BY <1>3, <1>6, <1>11, <2>4, <2>5 DEF Ended
  <2> QED BY <1>2, <1>5, <1>11, <2>4, <2>6 DEF InScript
<1>12. ASSUME step = 2 * Records + 4, Got(r) = Records + 1, ~Open(r), out = <<>>, inp = <<>>,
              data[call] = << <<r, 1>> >>, stream[r].sent = 1
       PROVE  Lawful
  <2>1. Now = "close"
    BY <1>12, PushNow
  <2>2. NextStep /\ ScriptKeeps /\ UNCHANGED <<inp, data>> /\ Send(CloseMsg)
    BY <2>1, ScriptSends
  <2>3. pc' \in {"idle", "stranded"}
    BY <1>12, <2>2, PushNext
  <2>4. CloseMsg = CloseTo(r)
    BY DEF CloseMsg, CloseTo
  <2>5. /\ CloseTo(r).cmd = "CLSE" /\ CloseTo(r).arg0 = local_id
        /\ CloseTo(r).arg1 = r /\ CloseTo(r).data = NoData
    BY Msgs
  <2>6. local_id < base_id + 1 /\ stream[r].st = "closed"
    BY <1>12 DEF CallFacts, TypeOK, Open
  <2>7. out' = <<CloseTo(r)>>
    BY <1>12, <2>2, <2>4, AppendOne DEF Send
  <2>8. LeftOut(out', base_id + 1)
    BY <2>5, <2>6, <2>7 DEF LeftOut, Ending
  <2>9. LeftIn(inp', base_id + 1)
    BY <1>12, <2>2, NothingLeft
  <2>10. Silent(r) /\ stream[r].st # "none"
    BY <2>6 DEF Silent
  <2>11. Got(r) >= Records /\ data'[call] = << <<r, 1>> >>
    BY <1>2, <1>12, <2>2
  <2> QED BY <1>1, <1>3, <2>2, <2>3, <2>8, <2>9, <2>10, <2>11, Returns DEF ScriptKeeps, envVars
<1> QED BY <1>4, <1>7, <1>8, <1>9, <1>10, <1>11, <1>12 DEF Ended

LEMMA HostScript ==
  ASSUME TypeOK, CallFacts, ActiveOK, Device, UNCHANGED envVars,
         NEW r \in RemoteIds, OfCall(r), remote_id = r, InScript, QueryPhase(r) \/ PushPhase(r)
  PROVE  Lawful
<1>1. CASE QueryPhase(r)
  BY <1>1, HostQuery
<1>2. CASE PushPhase(r)
  BY <1>2, HostSending, HostEnded, HostDoomed, HostStarved DEF PushPhase
<1> QED BY <1>1, <1>2

(* Every step of a call.                                                   *)
LEMMA HostPhases ==
  ASSUME TypeOK, CallFacts, Phases, Device, UNCHANGED envVars
  PROVE  Lawful
<1>1. ActiveOK /\ pc \notin {"idle", "stranded"}
  BY DeviceDoes DEF Phases, ActiveOK
<1>2. CASE pc = "answer" /\ AnswerPhase
  BY <1>1, <1>2, HostAnswer
<1>3. CASE pc \in {"command", "output"} /\ Repeating
  BY <1>1, <1>3, HostRepeating
<1>4. ASSUME NEW r \in RemoteIds, remote_id = r, CallPhase(r)
      PROVE  Lawful
  <2>1. OfCall(r)
    BY <1>4 DEF CallPhase
  <2>2. CASE pc = "read" /\ ReadPhase(r)
    BY <1>1, <1>4, <2>1, <2>2, HostRead
  <2>3. CASE pc = "prompt" /\ PromptPhase(r)
    BY <1>1, <1>4, <2>1, <2>3, HostPrompt
  <2>4. CASE pc = "command" /\ FirstCommand(r)
    BY <1>1, <1>4, <2>1, <2>4, HostCommand
  <2>5. CASE pc = "output" /\ FirstOutput(r)
    BY <1>1, <1>4, <2>1, <2>5, HostOutput
  <2>6. CASE InScript /\ (QueryPhase(r) \/ PushPhase(r))
    BY <1>1, <1>4, <2>1, <2>6, HostScript
  <2> QED BY <1>4, <2>2, <2>3, <2>4, <2>5, <2>6 DEF CallPhase
<1> QED BY <1>1, <1>2, <1>3, <1>4 DEF Phases

-----------------------------------------------------------------------------
(* The next call.                                                          *)
LEMMA NextCall ==
  ASSUME TypeOK, CallFacts, Phases, Call
  PROVE  Phases'
<1>1. /\ pc = "idle" /\ call' = call + 1 /\ call' \in Calls /\ call \in Nat
      /\ UNCHANGED <<inp, stream, active, step, status, data>>
      /\ \A c \in Calls : c # call' => kind'[c] = kind[c]
  BY CallDoes
<1>2. IdlePhase /\ ActiveOK /\ base_id \in Nat /\ base_id + 1 \in Nat
  <2>1. base_id \in Nat
    BY DEF TypeOK
  <2>2. IdlePhase
    BY <1>1 DEF Phases, CallPhase, InScript
  <2> QED BY <2>1, <2>2 DEF Phases, ActiveOK
<1>3. AllSilent /\ LeftOut(out, base_id + 1) /\ LeftIn(inp, base_id + 1)
  BY <1>2 DEF IdlePhase
<1>4. AllSilent'
  <2>1. ASSUME NEW n \in 1..call, kind[n] = "active" PROVE kind'[n] = "active" /\ n \in 1..call'
    <3>1. MaxCalls \in Nat
      BY MyAdbAssumption
    <3>2. n \in Calls /\ n # call' /\ n \in 1..call'
      BY <1>1, <3>1 DEF Calls
    <3> QED BY <1>1, <2>1, <3>2
  <2>2. ASSUME NEW r \in RemoteIds, IsActive(r) PROVE IsActive(r)'
    BY <1>1, <2>1, <2>2 DEF IsActive
  <2>3. ASSUME NEW r \in RemoteIds, stream[r].peer <= base_id PROVE stream[r].peer <= base_id'
    BY <1>2, <2>3, StreamParts, CallDoes
  <2> QED BY <1>1, <1>3, <2>2, <2>3 DEF AllSilent, Silent
<1>5. out \in Seq(Packet) /\ inp \in Seq(Transfer)
  BY StreamType
<1>6. CASE /\ active # NoIds /\ pc' = "command"
           /\ local_id' = active.local /\ remote_id' = active.remote
           /\ UNCHANGED <<base_id, out>>
  <2>1. remote_id' \in RemoteIds
    BY <1>2, <1>6 DEF ActiveOK
  <2>2. \A i \in 1..Len(out) : Harmless(out[i])
    BY <1>3 DEF LeftOut, Ending, Harmless
  <2>3. \A i \in 1..Len(inp) : Plain(inp[i])
    BY <1>3 DEF LeftIn, Over, Plain
  <2>4. Repeating'
    BY <1>1, <1>4, <1>6, <2>1, <2>2, <2>3 DEF Repeating, Harmless, Plain
  <2> QED BY <1>1, <1>2, <1>6, <2>4 DEF Phases, ActiveOK
<1>7. CASE /\ pc' = "answer" /\ base_id' = base_id + 1 /\ local_id' = base_id + 1
           /\ out' = Append(out, Pkt("OPEN", base_id + 1, 0, <<call + 1, 0>>))
  <2>1. local_id' = base_id'
    BY <1>7
  <2>2. LeftIn(inp, local_id)'
    BY <1>1, <1>3, <1>7 DEF LeftIn, Over
  <2>3. LeftOut(out, base_id + 1) /\ UNCHANGED stream
    BY <1>1, <1>3
  <2>4. PICK l \in Seq(Packet) : l = out
    BY <1>5
  <2>5. LeftOut(l, local_id)'
    BY <1>7, <2>3, <2>4 DEF LeftOut, Ending
  <2>6. out' = Append(l, Pkt("OPEN", local_id, 0, <<call, 0>>)')
    BY <1>1, <1>7, <2>4 DEF Pkt
  <2>7. Asking'
    BY <1>4, <2>2, <2>4, <2>5, <2>6 DEF Asking
  <2>8. AnswerPhase'
    BY <2>1, <2>7 DEF AnswerPhase
  <2> QED BY <1>1, <1>2, <1>7, <2>8 DEF Phases, ActiveOK
<1>8. \/ /\ active # NoIds /\ pc' = "command"
         /\ local_id' = active.local /\ remote_id' = active.remote
         /\ UNCHANGED <<base_id, out>>
      \/ /\ pc' = "answer" /\ base_id' = base_id + 1 /\ local_id' = base_id + 1
         /\ out' = Append(out, Pkt("OPEN", base_id + 1, 0, <<call + 1, 0>>))
  BY CallDoes
<1> QED BY <1>6, <1>7, <1>8

LEMMA CallResults ==
  ASSUME TypeOK, CallFacts, Results, Call, UNCHANGED envVars
  PROVE  Results'
<1>1. /\ call' = call + 1 /\ call' \in Calls /\ call \in Nat
      /\ UNCHANGED <<stream, status, data>>
      /\ \A c \in Calls : c # call' => kind'[c] = kind[c]
  BY CallDoes
<1>2. SUFFICES ASSUME NEW c \in Calls, status[c] = "returned",
                      Orderly(c)
               PROVE  ResultOf(c)'
  BY <1>1 DEF Results, Orderly, envVars
<1>3. c # call'
  BY <1>1, <1>2 DEF CallFacts, Calls
<1>4. ResultOf(c)
  BY <1>2 DEF Results
<1>5. kind'[c] = kind[c]
  BY <1>1, <1>3
<1> QED BY <1>1, <1>4, <1>5 DEF ResultOf, Got, envVars

-----------------------------------------------------------------------------
(* The invariant.                                                          *)
LEMMA MyAdbInvInit == Init => MyAdbInv
<1> SUFFICES ASSUME Init PROVE MyAdbInv
  OBVIOUS
<1>1. TypeOK
  BY TypeInit
<1>2. /\ call = 0 /\ pc = "idle" /\ out = <<>> /\ inp = <<>> /\ failed = {} /\ active = NoIds
      /\ local_id = 0 /\ base_id = 1
      /\ \A c \in Calls : status[c] = "none" /\ data[c] = <<>>
      /\ \A r \in RemoteIds : stream[r].st = "none"
  BY DEF Init, WireInit, NoStream
<1>3. CallFacts
  BY <1>2 DEF CallFacts, NoIds
<1>4. FailedOpened /\ Results
  BY <1>2 DEF FailedOpened, Results
<1>5. IdlePhase
  BY <1>2, NothingLeft DEF IdlePhase, AllSilent, Silent
<1>6. Phases
  BY <1>2, <1>5 DEF Phases
<1> QED BY <1>1, <1>3, <1>4, <1>6 DEF MyAdbInv

LEMMA SameInv ==
  ASSUME MyAdbInv, UNCHANGED hostVars, UNCHANGED <<out, inp, stream, failed, cut>>
  PROVE  MyAdbInv'
<1>1. /\ UNCHANGED <<pc, call, kind, base_id, local_id, remote_id, active, step, status, data>>
      /\ UNCHANGED <<out, inp, stream, failed, cut>>
  BY DEF hostVars
<1>2. TypeOK'
  <2>1. TypeOK /\ UNCHANGED vars
    BY <1>1 DEF MyAdbInv, vars, wireVars, hostVars, envVars
  <2> QED BY <2>1, TypeStep
<1>3. CallFacts' /\ FailedOpened'
  BY <1>1 DEF MyAdbInv, CallFacts, FailedOpened
<1>4. Results'
  <2> SUFFICES ASSUME NEW c \in Calls, status'[c] = "returned", Orderly(c)'
               PROVE  ResultOf(c)'
    BY DEF Results
  <2>1. Orderly(c)
    BY <1>1 DEF Orderly
  <2>2. ResultOf(c)
    BY <1>1, <2>1 DEF MyAdbInv, Results
  <2> QED BY <1>1, <2>2, SameResult
<1>5. InOrder' => InOrder
  BY <1>1 DEF InOrder, Orderly
<1>6. AllSilent' <=> AllSilent
  BY <1>1 DEF AllSilent, Silent, IsActive
<1>7. \A r, n, before, asked : Talk(r, n, before, asked) => TalkNext(r, n, before, asked)
  BY <1>1, SameTalk DEF Talk
<1>8. ASSUME Phases PROVE Phases'
  <2>1. CASE pc = "idle" /\ IdlePhase
    <3>1. LeftOut(out, base_id + 1)'
      BY <1>1, <2>1 DEF IdlePhase, LeftOut, Ending
    <3>2. LeftIn(inp, base_id + 1)'
      BY <1>1, <2>1 DEF IdlePhase, LeftIn, Over
    <3>3. IdlePhase'
      BY <1>6, <2>1, <3>1, <3>2 DEF IdlePhase
    <3> QED BY <1>1, <1>8, <2>1, <3>3 DEF Phases
  <2>2. CASE pc = "answer" /\ AnswerPhase
    <3>1. \A n, s : /\ LeftIn(s, n) => LeftIn(s, n)'
                    /\ LeftOut(s, n) => LeftOut(s, n)'
      BY <1>1 DEF LeftIn, LeftOut, Over, Ending
    <3>2. Pkt("OPEN", local_id, 0, <<call, 0>>)' = Pkt("OPEN", local_id, 0, <<call, 0>>)
          /\ Header(Pkt("CLSE", 0, local_id, NoData))' = Header(Pkt("CLSE", 0, local_id, NoData))
      BY <1>1 DEF Pkt, Header
    <3>3. Asking => Asking'
      BY <1>1, <1>6, <3>1, <3>2 DEF Asking, LeftIn, Over
    <3>4. Refusing => Refusing'
      BY <1>1, <1>6, <3>1, <3>2 DEF Refusing, LeftIn, Over
    <3>5. ASSUME NEW r \in RemoteIds, Opened(r) PROVE Opened(r)'
      <4>1. Began(r)'
        BY <1>1, <3>5, SameBegan DEF Opened, Began
      <4>2. PICK l \in Seq(Transfer) :
              Talk(r, 0, Append(l, Header(Yes(r))), <<>>) /\ LeftIn(l, local_id)
        BY <3>5 DEF Opened
      <4>3. TalkNext(r, 0, Append(l, Header(Yes(r))), <<>>)
        BY <1>7, <4>2
      <4>4. Header(Yes(r))' = Header(Yes(r)) /\ AckTo(r)' = AckTo(r)
        BY <1>1 DEF Header, Yes, AckTo
      <4>5. Talk(r, 0, Append(l, Header(Yes(r))), <<>>)'
        BY <4>3, <4>4 DEF Talk, TalkNext
      <4>6. LeftIn(l, local_id)'
        BY <1>1, <4>2 DEF LeftIn, Over
      <4> QED BY <1>1, <3>5, <4>1, <4>5, <4>6 DEF Opened
    <3>6. AnswerPhase'
      BY <1>1, <2>2, <3>3, <3>4, <3>5 DEF AnswerPhase
    <3> QED BY <1>1, <1>8, <2>2, <3>6 DEF Phases
  <2>3. CASE pc \in {"command", "output"} /\ Repeating
    BY <1>1, <1>6, <1>8, <2>3 DEF Phases, Repeating
  <2>4. ASSUME NEW r \in RemoteIds, remote_id = r, CallPhase(r)
        PROVE  Phases'
    <3>1. OfCall(r)' /\ Got(r)' = Got(r) /\ ((Open(r))' <=> Open(r)) /\ (Owes(r) => Owes(r)')
      BY <1>1, <2>4 DEF CallPhase, OfCall, Silent, IsActive, Got, Open, Owes
    <3>2. \A n : /\ Talk(r, n, <<>>, <<>>) => Talk(r, n, <<>>, <<>>)'
                 /\ Talk(r, n, <<Header(Yes(r))>>, <<>>) => Talk(r, n, <<Header(Yes(r))>>, <<>>)'
                 /\ Talk(r, n, <<>>, <<CloseTo(r)>>) => Talk(r, n, <<>>, <<CloseTo(r)>>)'
                 /\ Talk(r, n, <<>>, <<WriteTo(r, 1)>>) => Talk(r, n, <<>>, <<WriteTo(r, 1)>>)'
                 /\ Talk(r, n, <<>>, <<WriteTo(r, step)>>) => Talk(r, n, <<>>, <<WriteTo(r, step)>>)'
      BY <1>1, <1>7, TalkForms
    <3>3. PICK n : n = Len(data[call])
      OBVIOUS
    <3>4. ReadPhase(r) => ReadPhase(r)'
      BY <1>1, <3>2, <3>3 DEF ReadPhase
    <3>5. Began(r) => Began(r)'
      BY <1>1, SameBegan
    <3>6. PromptPhase(r) => PromptPhase(r)'
      BY <1>1, <3>2, <3>5 DEF PromptPhase
    <3>7. FirstCommand(r) => FirstCommand(r)'
      BY <1>1, <3>2, <3>5 DEF FirstCommand
    <3>8. FirstOutput(r) => FirstOutput(r)'
      <4>1. /\ WriteTo(r, 1)' = WriteTo(r, 1) /\ AckTo(r)' = AckTo(r)
            /\ Header(Yes(r))' = Header(Yes(r))
        BY <1>1 DEF WriteTo, AckTo, Header, Yes
      <4>2. \A k : Transfers(Chunk(r, k))' = Transfers(Chunk(r, k))
        BY <1>1 DEF Chunk, Transfers
      <4>3. \A k : Commanded(r, k) => Commanded(r, k)'
        BY <1>1, <3>1, <3>2, <4>1, <4>2 DEF Commanded
      <4> QED BY <1>1, <3>1, <4>3 DEF FirstOutput
    <3>9. QueryPhase(r) => QueryPhase(r)'
      BY <1>1, <3>1, <3>2 DEF QueryPhase
    <3>10. Sending(r) => Sending(r)'
      BY <1>1, <3>1, <3>2 DEF Sending
    <3>11. Ended(r) => Ended(r)'
      BY <1>1, <3>1, <3>2 DEF Ended
    <3>12. Doomed(r) => Doomed(r)'
      <4>1. WriteTo(r, step)' = WriteTo(r, step)
        BY <1>1 DEF WriteTo
      <4>2. FailOf(r)' = FailOf(r) /\ Header(Yes(r))' = Header(Yes(r))
        BY <1>1, SameFail
      <4> QED BY <1>1, <3>1, <4>1, <4>2 DEF Doomed, FailOf
    <3>15. Starved(r) => Starved(r)'
      <4>1. WriteTo(r, step)' = WriteTo(r, step) /\ Header(Yes(r))' = Header(Yes(r))
        BY <1>1 DEF WriteTo, Header, Yes
      <4> QED BY <1>1, <3>1, <4>1 DEF Starved
    <3>13. PushPhase(r) => PushPhase(r)'
      BY <1>1, <3>10, <3>11, <3>12, <3>15 DEF PushPhase
    <3>14. CallPhase(r)'
      BY <1>1, <2>4, <3>1, <3>4, <3>6, <3>7, <3>8, <3>9, <3>13 DEF CallPhase, InScript
    <3> QED BY <1>1, <1>8, <2>4, <3>14 DEF Phases
  <2> QED BY <1>1, <1>8, <2>1, <2>2, <2>3, <2>4 DEF Phases
<1> QED BY <1>2, <1>3, <1>4, <1>5, <1>8 DEF MyAdbInv

LEMMA MyAdbInvStep == MyAdbInv /\ [Next]_vars => MyAdbInv'
<1> SUFFICES ASSUME MyAdbInv, [Next]_vars PROVE MyAdbInv'
  OBVIOUS
<1>1. TypeOK /\ CallFacts /\ FailedOpened /\ Results /\ (InOrder => Phases)
  BY DEF MyAdbInv
<1>2. TypeOK'
  BY <1>1, TypeStep
<1>3. CASE Adbd /\ UNCHANGED hostVars
  <2>1. FailedOpened' /\ Results'
    BY <1>1, <1>3, FailedStep, AdbdResults
  <2>2. CallFacts'
    BY <1>1, <1>3 DEF CallFacts, hostVars
  <2>3. InOrder' => InOrder
    <3>1. cut \subseteq cut'
      BY <1>3 DEF Adbd, envVars
    <3> QED BY <1>3, <3>1 DEF InOrder, Orderly, hostVars
  <2>4. InOrder' => Phases'
    BY <1>1, <1>3, <2>3, AdbdPhases
  <2> QED BY <1>2, <2>1, <2>2, <2>3, <2>4 DEF MyAdbInv
<1>4. CASE Call /\ UNCHANGED envVars
  <2>1. CallFacts' /\ (InOrder' => InOrder)
    BY <1>1, <1>4, CallFactsStep, InOrderBefore DEF envVars
  <2>2. FailedOpened'
    BY <1>1, <1>4, CallDoes DEF FailedOpened, envVars
  <2>3. Results'
    BY <1>1, <1>4, CallResults
  <2>4. InOrder => Phases'
    BY <1>1, <1>4, NextCall
  <2> QED BY <1>2, <2>1, <2>2, <2>3, <2>4 DEF MyAdbInv
<1>5. CASE Device /\ UNCHANGED envVars
  <2>1. CallFacts' /\ (InOrder' => InOrder)
    BY <1>1, <1>5, CallFactsStep, InOrderBefore DEF envVars
  <2>2. /\ call \in Calls /\ status[call] = "none" /\ UNCHANGED <<stream, kind>>
        /\ \A c \in Calls \ {call} : data'[c] = data[c]
        /\ Going \/ \E how \in {"returned", "refused", "raised"} : CallOver(how)
    BY <1>1, <1>5, DeviceDoes
  <2>3. FailedOpened'
    BY <1>1, <1>5, <2>2 DEF FailedOpened, envVars
  <2>4. InOrder => Lawful
    BY <1>1, <1>5, HostPhases
  <2>5. Results'
    <3>1. CASE Going
      BY <1>1, <1>5, <2>2, <3>1, SameResults DEF Going, envVars
    <3>2. ASSUME NEW how \in {"returned", "refused", "raised"}, CallOver(how)
          PROVE  Results'
      <4>1. status' = [status EXCEPT ![call] = how]
        BY <3>2 DEF CallOver
      <4>2. status'[call] = how
        BY <1>1, <2>2, <4>1, StatusAt
      <4>3. how = "returned" /\ InOrder => \A c \in Calls : c = call => ResultOf(c)'
        BY <2>4, <4>2 DEF Lawful
      <4> QED BY <1>1, <1>5, <2>2, <4>1, <4>3, HostResults
    <3> QED BY <2>2, <3>1, <3>2
  <2>6. InOrder' => Phases'
    BY <2>1, <2>4 DEF Lawful
  <2> QED BY <1>2, <2>1, <2>3, <2>5, <2>6 DEF MyAdbInv
<1>6. CASE UNCHANGED vars
  <2>1. UNCHANGED hostVars /\ UNCHANGED <<out, inp, stream, failed, cut>>
    BY <1>6 DEF vars, wireVars, envVars
  <2> QED BY <1>1, <1>2, <2>1, SameInv
<1> QED BY <1>3, <1>4, <1>5, <1>6 DEF Next

(* The inductive invariant holds in every state: the parties to a call     *)
(* always agree on what is still unread, and earlier calls leave nothing   *)
(* that the current one could take for its own.                            *)
THEOREM MyAdbInductive == Spec => []MyAdbInv
<1>1. Init => MyAdbInv
  BY MyAdbInvInit
<1>2. MyAdbInv /\ [Next]_vars => MyAdbInv'
  BY MyAdbInvStep
<1> QED BY <1>1, <1>2, PTL DEF Spec

(* Every variable keeps its type: ids, the script of a call, what it was   *)
(* given, and the packets of the wire.                                     *)
THEOREM MyAdbTypeCorrect == Spec => []TypeOK
<1>1. MyAdbInv => TypeOK
  BY DEF MyAdbInv
<1> QED BY <1>1, MyAdbInductive, PTL

(* shell() returns the whole output of its own service, whatever calls     *)
(* were made before, unless one has raised or an interactive shell has     *)
(* ended while one was under way.                                          *)
THEOREM OutputAlwaysWhole == Spec => []OutputWhole
<1>1. MyAdbInv => OutputWhole
  BY DEF MyAdbInv, Results, ResultOf, OutputWhole, Returned
<1> QED BY <1>1, MyAdbInductive, PTL

(* A push() that returns was answered by its own service, which had        *)
(* received every record and had not failed, under the same condition.     *)
THEOREM PushedAlwaysWhole == Spec => []PushedWhole
<1>1. MyAdbInv => PushedWhole
  BY DEF MyAdbInv, Results, ResultOf, PushedWhole, Returned
<1> QED BY <1>1, MyAdbInductive, PTL

(* get_active_shell_result() returns what its own interactive shell wrote  *)
(* from the second packet to the first that looks like a prompt, nothing   *)
(* left out, under the same condition.                                     *)
THEOREM ResultAlwaysOwn == Spec => []ResultIsOwn
<1>1. MyAdbInv => ResultIsOwn
  BY DEF MyAdbInv, Results, ResultOf, ResultIsOwn, Returned
<1> QED BY <1>1, MyAdbInductive, PTL
=============================================================================
