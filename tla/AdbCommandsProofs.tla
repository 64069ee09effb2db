------------------------- MODULE AdbCommandsProofs -------------------------
(***************************************************************************)
(* Proofs about the commands of adb/adb_commands.py, for any programs, any *)
(* number of commands and any size of what is pushed or answered, with     *)
(* timeouts at any moment and devices that close a stream twice.           *)
(***************************************************************************)
EXTENDS AdbCommands, FiniteSetTheorems, SequenceTheorems, TLAPS

-----------------------------------------------------------------------------
(* At most one of the elements of s is in S.                               *)
None(s, S) == \A i \in 1..Len(s) : s[i] \notin S
Once(s, S) ==
  \E i \in 1..Len(s) : s[i] \in S /\ \A j \in 1..Len(s) : s[j] \in S => j = i

Headers(c, r) ==
  {t \in Transfer : t.kind = "header" /\ t.packet.cmd = c /\ t.packet.arg0 = r}
Sent(c, r) == {p \in Packet : p.cmd = c /\ p.arg1 = r}

WritesOf(r) == Headers("WRTE", r)
AcksOf(r) == Sent("OKAY", r)

-----------------------------------------------------------------------------
(* What is on the wire was said by a stream, or asked by a command.        *)
Busy == pc \notin {"idle", "closing", "closed"}

Numbered(p) ==
  /\ p.data[1] = p.arg0
  /\ IF IsSync(p.arg0) THEN stream[p.arg0].sent = 1 ELSE p.data[2] = stream[p.arg0].sent

Said ==
  {t \in Transfer :
     /\ t.packet.cmd \in {"OKAY", "WRTE"} =>
          t.packet.arg0 \in RemoteIds /\ stream[t.packet.arg0].st # "none"
     /\ t.packet.cmd = "CLSE" => t.packet.arg0 \in RemoteIds \cup {0}
     /\ t.packet.cmd # "OPEN"
     /\ t.kind = "header" /\ t.packet.cmd = "WRTE" => Numbered(t.packet)}

Asked ==
  {p \in Packet :
     /\ p.arg0 = LocalId
     /\ p.cmd = "OPEN" => \E n \in 1..call : p.data = <<n, 0>>
     /\ p.cmd # "OPEN" => p.arg1 \in RemoteIds /\ stream[p.arg1].st # "none"}

WireOK == inp \in Seq(Said) /\ out \in Seq(Asked)

StreamsOK ==
  \A r \in RemoteIds :
    IF stream[r].st = "none" THEN stream[r] = NoStream
    ELSE \E n \in 1..call : stream[r].service = <<n, 0>>

Known(r) == r \in RemoteIds /\ stream[r].st # "none"
CallOK ==
  /\ Busy => call >= 1
  /\ pc \in {"read", "echo", "write", "sync_write", "sync_read", "sync_close"} => Known(remote)
  /\ service # 0 => Known(service)
  /\ \A n \in Calls : n > call => data[n] = <<>>
  /\ pc \in {"open", "open_again", "write", "sync_write", "sync_read"} => data[call] = <<>>

(* A stream has one WRTE or OKAY under way at most.                        *)
FlowOf(r) ==
  \/ None(inp, WritesOf(r)) /\ None(out, AcksOf(r))
  \/ /\ stream[r].st \in {"waitack", "closed"}
     /\ \/ Once(inp, WritesOf(r)) /\ None(out, AcksOf(r))
        \/ None(inp, WritesOf(r)) /\ Once(out, AcksOf(r))
Flow == \A r \in RemoteIds : FlowOf(r)

(* The next WRTE of the stream that is read goes on where the last ended.  *)
Last(s) == s[Len(s)]
Piece ==
  pc \in {"read", "echo"} /\ data[call] # <<>> =>
    /\ Last(data[call])[1] = remote
    /\ IF IsSync(remote)
         THEN stream[remote].sent = 1 /\ None(inp, WritesOf(remote))
         ELSE /\ None(inp, WritesOf(remote)) => stream[remote].sent = Last(data[call])[2]
              /\ Once(inp, WritesOf(remote)) => stream[remote].sent = Last(data[call])[2] + 1

CommandsInv ==
  /\ TypeOK
  /\ WireOK
  /\ StreamsOK
  /\ CallOK
  /\ Flow
  /\ Piece
  /\ OnePiece

-----------------------------------------------------------------------------
(* What a queue holds when an element is added or taken.                   *)
LEMMA AddItem ==
  ASSUME NEW E, NEW s \in Seq(E), NEW e \in E
  PROVE  /\ Append(s, e) \in Seq(E)
         /\ Len(s) \in Nat /\ Len(Append(s, e)) = Len(s) + 1
         /\ \A i \in 1..Len(s) : Append(s, e)[i] = s[i]
         /\ Append(s, e)[Len(s) + 1] = e
         /\ s \o <<e>> = Append(s, e)
OBVIOUS

LEMMA TakeItem ==
  ASSUME NEW E, NEW s \in Seq(E), s # <<>>
  PROVE  /\ Tail(s) \in Seq(E)
         /\ Len(s) \in Nat /\ Len(s) >= 1 /\ Len(Tail(s)) = Len(s) - 1
         /\ \A i \in 1..Len(Tail(s)) : Tail(s)[i] = s[i + 1]
         /\ Head(s) = s[1] /\ Head(s) \in E
OBVIOUS

LEMMA AddKeeps ==
  ASSUME NEW E, NEW s \in Seq(E), NEW e \in E, NEW S
  PROVE  /\ e \notin S => /\ None(s, S) => None(Append(s, e), S)
                          /\ Once(s, S) => Once(Append(s, e), S)
         /\ e \in S => (None(s, S) => Once(Append(s, e), S))
<1> DEFINE t == Append(s, e)
<1>1. /\ Len(s) \in Nat /\ Len(t) = Len(s) + 1 /\ t[Len(s) + 1] = e
      /\ \A i \in 1..Len(s) : t[i] = s[i]
  BY AddItem
<1> HIDE DEF t
<1>2. \A i \in 1..Len(t) : i \in 1..Len(s) \/ i = Len(s) + 1
  BY <1>1
<1>3. ASSUME e \notin S, None(s, S) PROVE None(t, S)
  BY <1>1, <1>2, <1>3 DEF None
<1>4. ASSUME e \notin S, Once(s, S) PROVE Once(t, S)
  <2>1. PICK i \in 1..Len(s) : s[i] \in S /\ \A j \in 1..Len(s) : s[j] \in S => j = i
    BY <1>4 DEF Once
  <2>2. i \in 1..Len(t) /\ t[i] \in S /\ \A j \in 1..Len(t) : t[j] \in S => j = i
    BY <1>1, <1>2, <1>4, <2>1
  <2> QED BY <2>2 DEF Once
<1>5. ASSUME e \in S, None(s, S) PROVE Once(t, S)
  <2>1. Len(s) + 1 \in 1..Len(t) /\ \A j \in 1..Len(t) : t[j] \in S => j = Len(s) + 1
    BY <1>1, <1>2, <1>5 DEF None
  <2> QED BY <1>1, <1>5, <2>1 DEF Once
<1> QED BY <1>3, <1>4, <1>5 DEF t

LEMMA TakeKeeps ==
  ASSUME NEW E, NEW s \in Seq(E), s # <<>>, NEW S
  PROVE  /\ None(s, S) => None(Tail(s), S)
         /\ Once(s, S) => IF Head(s) \in S THEN None(Tail(s), S) ELSE Once(Tail(s), S)
<1> DEFINE t == Tail(s)
<1>1. /\ Len(s) \in Nat /\ Len(s) >= 1 /\ Len(t) = Len(s) - 1 /\ Head(s) = s[1]
      /\ \A i \in 1..Len(t) : t[i] = s[i + 1]
  BY TakeItem
<1> HIDE DEF t
<1>2. \A i \in 1..Len(t) : i + 1 \in 1..Len(s) /\ i + 1 # 1
  BY <1>1
<1>3. ASSUME None(s, S) PROVE None(t, S)
  BY <1>1, <1>2, <1>3 DEF None
<1>4. ASSUME Once(s, S) PROVE IF Head(s) \in S THEN None(t, S) ELSE Once(t, S)
  <2>1. PICK i \in 1..Len(s) : s[i] \in S /\ \A j \in 1..Len(s) : s[j] \in S => j = i
    BY <1>4 DEF Once
  <2>2. CASE Head(s) \in S
    <3>1. i = 1
      BY <1>1, <2>1, <2>2
    <3>2. None(t, S)
      BY <1>1, <1>2, <2>1, <3>1 DEF None
    <3> QED BY <2>2, <3>2
  <2>3. CASE Head(s) \notin S
    <3>1. i - 1 \in 1..Len(t) /\ t[i - 1] = s[i]
      BY <1>1, <2>1, <2>3
    <3>2. \A j \in 1..Len(t) : t[j] \in S => j = i - 1
      BY <1>1, <1>2, <2>1
    <3>3. Once(t, S)
      BY <2>1, <3>1, <3>2 DEF Once
    <3> QED BY <2>3, <3>3
  <2> QED BY <2>2, <2>3
<1> QED BY <1>3, <1>4 DEF t

LEMMA NotBoth ==
  ASSUME NEW s, NEW S, Once(s, S)
  PROVE  ~None(s, S)
BY DEF Once, None

LEMMA TakeFound ==
  ASSUME NEW E, NEW s \in Seq(E), s # <<>>, NEW S, Head(s) \in S
  PROVE  ~None(s, S)
BY TakeItem DEF None

LEMMA EmptyNone ==
  ASSUME NEW S
  PROVE  None(<<>>, S)
BY DEF None

(* Every element of t is one of s.                                         *)
Within(t, s) == \A i \in 1..Len(t) : \E j \in 1..Len(s) : t[i] = s[j]

LEMMA TakeWithin ==
  ASSUME NEW E, NEW s \in Seq(E), s # <<>>
  PROVE  Within(Tail(s), s)
<1>1. \A i \in 1..Len(Tail(s)) : i + 1 \in 1..Len(s)
  BY TakeItem
<1> QED BY <1>1, TakeItem DEF Within

-----------------------------------------------------------------------------
(* Packets and transfers.                                                  *)
LEMMA PacketType ==
  ASSUME NEW c \in {"OPEN", "OKAY", "CLSE", "WRTE"}, NEW a \in Nat, NEW b \in Nat, NEW d \in Data
  PROVE  /\ Pkt(c, a, b, d) \in Packet
         /\ Pkt(c, a, b, d).cmd = c /\ Pkt(c, a, b, d).arg0 = a
         /\ Pkt(c, a, b, d).arg1 = b /\ Pkt(c, a, b, d).data = d
BY DEF Pkt, Packet

LEMMA NoDataType == NoData \in Data /\ NoData[1] = 0 /\ NoData[2] = 0
BY DEF NoData, Data

LEMMA PairType ==
  ASSUME NEW a \in Nat, NEW b \in Nat
  PROVE  <<a, b>> \in Data /\ <<a, b>>[1] = a /\ <<a, b>>[2] = b
BY DEF Data

LEMMA HeaderType ==
  ASSUME NEW p \in Packet
  PROVE  /\ Header(p) \in Transfer /\ Header(p).kind = "header" /\ Header(p).packet = p
         /\ [kind |-> "payload", packet |-> p] \in Transfer
BY DEF Header, Transfer

LEMMA TransferParts ==
  ASSUME NEW t \in Transfer
  PROVE  /\ t.packet \in Packet /\ t.kind \in {"header", "payload"}
         /\ t.packet.cmd \in {"OPEN", "OKAY", "CLSE", "WRTE"}
         /\ t.packet.arg0 \in Nat /\ t.packet.arg1 \in Nat /\ t.packet.data \in Data
         /\ t.kind = "header" => t = Header(t.packet)
BY DEF Transfer, Packet, Header

LEMMA PacketParts ==
  ASSUME NEW p \in Packet
  PROVE  /\ p.cmd \in {"OPEN", "OKAY", "CLSE", "WRTE"}
         /\ p.arg0 \in Nat /\ p.arg1 \in Nat /\ p.data \in Data
BY DEF Packet

LEMMA InHeaders ==
  ASSUME NEW t \in Transfer, NEW c, NEW r
  PROVE  t \in Headers(c, r) <=> t.kind = "header" /\ t.packet.cmd = c /\ t.packet.arg0 = r
BY DEF Headers

LEMMA InSent ==
  ASSUME NEW p \in Packet, NEW c, NEW r
  PROVE  p \in Sent(c, r) <=> p.cmd = c /\ p.arg1 = r
BY DEF Sent

LEMMA TwoTails ==
  ASSUME NEW E, NEW s \in Seq(E), s # <<>>
  PROVE  \/ SubSeq(s, 3, Len(s)) = Tail(s)
         \/ Tail(s) # <<>> /\ SubSeq(s, 3, Len(s)) = Tail(Tail(s))
<1>1. Len(s) \in Nat /\ Len(s) >= 1 /\ Tail(s) \in Seq(E) /\ Len(Tail(s)) = Len(s) - 1
  BY TakeItem
<1>2. CASE Len(s) = 1
  <2>1. SubSeq(s, 3, Len(s)) = <<>>
    BY <1>2, SubSeqEmpty
  <2>2. Len(Tail(s)) = 0
    BY <1>1, <1>2
  <2>3. Tail(s) # <<>> => Len(Tail(s)) \in Nat \ {0}
    BY <1>1, EmptySeq
  <2>4. Tail(s) = <<>>
    BY <2>2, <2>3
  <2> QED BY <2>1, <2>4
<1>3. CASE Len(s) >= 2
  <2>1. Tail(s) # <<>>
    BY <1>1, <1>3
  <2>2. Tail(s) = SubSeq(s, 2, Len(s))
    BY TailIsSubSeq
  <2>3. 2 \in 1..Len(s) /\ Len(s) \in 2..Len(s)
    BY <1>1, <1>3
  <2>4. Tail(SubSeq(s, 2, Len(s))) = SubSeq(s, 3, Len(s))
    BY <2>3, HeadTailOfSubSeq
  <2> QED BY <2>1, <2>2, <2>4
<1>4. Len(s) = 1 \/ Len(s) >= 2
  BY <1>1
<1> QED BY <1>2, <1>3, <1>4

(* Reading takes the first transfer, and the payload that follows.         *)
LEMMA ReadTakes ==
  ASSUME inp \in Seq(Transfer), NEW cmds, Reads(cmds)
  PROVE  /\ inp # <<>> /\ Head(inp) \in Transfer /\ Incoming \in Packet
         /\ Incoming.cmd \in cmds
         /\ Head(inp) = Header(Incoming) /\ inp[1] = Header(Incoming)
         /\ \/ inp' = Tail(inp)
            \/ Incoming.data # NoData /\ Tail(inp) # <<>> /\ inp' = Tail(Tail(inp))
         /\ Incoming.data = NoData => inp' = Tail(inp)
<1>1. inp # <<>> /\ Head(inp).kind = "header" /\ Incoming.cmd \in cmds
  BY DEF Reads, IsHeader
<1>2. Head(inp) \in Transfer /\ Len(inp) \in Nat /\ Len(inp) >= 1 /\ Head(inp) = inp[1]
  BY <1>1
<1>3. Head(inp) = Header(Incoming) /\ Incoming \in Packet
  BY <1>1, <1>2, TransferParts DEF Incoming
<1>4. CASE Incoming.data = NoData
  <2>1. inp' = SubSeq(inp, 2, Len(inp))
    BY <1>4 DEF Reads, Transfers
  <2>2. inp' = Tail(inp)
    BY <1>1, <2>1
  <2> QED BY <1>1, <1>2, <1>3, <2>2
<1>5. CASE Incoming.data # NoData
  <2>1. inp' = SubSeq(inp, 3, Len(inp))
    BY <1>5 DEF Reads, Transfers
  <2>2. inp' = Tail(inp) \/ (Tail(inp) # <<>> /\ inp' = Tail(Tail(inp)))
    BY <1>1, <2>1, TwoTails
  <2> QED BY <1>1, <1>2, <1>3, <1>5, <2>2
<1> QED BY <1>4, <1>5

LEMMA ReadKeeps ==
  ASSUME inp \in Seq(Transfer), NEW cmds, Reads(cmds), NEW S
  PROVE  /\ inp' \in Seq(Transfer) /\ Within(inp', inp)
         /\ None(inp, S) => None(inp', S)
         /\ Once(inp, S) => None(inp', S) \/ Once(inp', S)
         /\ Once(inp, S) /\ Head(inp) \in S => None(inp', S)
<1>1. inp # <<>> /\ (inp' = Tail(inp) \/ (Tail(inp) # <<>> /\ inp' = Tail(Tail(inp))))
  BY ReadTakes
<1> DEFINE t == Tail(inp)
<1>2. /\ t \in Seq(Transfer) /\ Within(t, inp)
      /\ None(inp, S) => None(t, S)
      /\ Once(inp, S) => IF Head(inp) \in S THEN None(t, S) ELSE Once(t, S)
  BY <1>1, TakeItem, TakeWithin, TakeKeeps
<1> HIDE DEF t
<1>3. CASE inp' = t
  BY <1>2, <1>3
<1>4. CASE t # <<>> /\ inp' = Tail(t)
  <2>1. /\ inp' \in Seq(Transfer) /\ Within(inp', t)
        /\ None(t, S) => None(inp', S)
        /\ Once(t, S) => None(inp', S) \/ Once(inp', S)
    BY <1>2, <1>4, TakeItem, TakeWithin, TakeKeeps
  <2>2. Within(inp', inp)
    BY <1>2, <2>1 DEF Within
  <2> QED BY <1>2, <2>1, <2>2
<1> QED BY <1>1, <1>3, <1>4 DEF t

LEMMA SkipTakes ==
  ASSUME inp \in Seq(Transfer), NEW cmds, Skips(cmds)
  PROVE  /\ inp # <<>> /\ Head(inp) \in Transfer /\ Incoming \in Packet
         /\ Incoming.cmd \notin cmds
         /\ Head(inp) = Header(Incoming) /\ inp[1] = Header(Incoming)
         /\ inp' = Tail(inp)
<1>1. inp # <<>> /\ Head(inp).kind = "header" /\ Incoming.cmd \notin cmds /\ inp' = Tail(inp)
  BY DEF Skips, IsHeader
<1>2. Head(inp) \in Transfer /\ Head(inp) = inp[1]
  BY <1>1, TakeItem
<1> QED BY <1>1, <1>2, TransferParts DEF Incoming

(* more is said, and then p.                                               *)
Adds(said, p, more) == more = said \o Transfers(p)

LEMMA AddTransfers ==
  ASSUME NEW said \in Seq(Transfer), NEW p \in Packet, NEW more, Adds(said, p, more)
  PROVE  /\ more \in Seq(Transfer) /\ Len(said) \in Nat /\ Len(more) \in Nat
         /\ \A i \in 1..Len(said) : more[i] = said[i]
         /\ more[Len(said) + 1] = Header(p)
         /\ IF p.data = NoData THEN more = Append(said, Header(p)) /\ Len(more) = Len(said) + 1
            ELSE /\ more = Append(Append(said, Header(p)), [kind |-> "payload", packet |-> p])
                 /\ Len(more) = Len(said) + 2
                 /\ more[Len(said) + 2] = [kind |-> "payload", packet |-> p]
<1> DEFINE h == Header(p)
           l == [kind |-> "payload", packet |-> p]
           t == Append(said, h)
<1>1. h \in Transfer /\ l \in Transfer
  BY HeaderType
<1>2. more = said \o (IF p.data = NoData THEN <<h>> ELSE <<h, l>>)
  BY DEF Adds, Transfers
<1> HIDE DEF h, l
<1>4. /\ t \in Seq(Transfer) /\ Len(said) \in Nat /\ Len(t) = Len(said) + 1
      /\ \A i \in 1..Len(said) : t[i] = said[i]
      /\ t[Len(said) + 1] = h /\ said \o <<h>> = t /\ said \o <<h, l>> = Append(t, l)
  BY <1>1, AddItem
<1> HIDE DEF t
<1>5. /\ Append(t, l) \in Seq(Transfer) /\ Len(Append(t, l)) = Len(t) + 1
      /\ \A i \in 1..Len(t) : Append(t, l)[i] = t[i]
      /\ Append(t, l)[Len(t) + 1] = l
  BY <1>1, <1>4, AddItem
<1>7. CASE p.data = NoData
  BY <1>2, <1>4, <1>7 DEF h, t
<1>8. CASE p.data # NoData
  <2>1. more = Append(t, l)
    BY <1>2, <1>4, <1>8
  <2>2. \A i \in 1..Len(said) : i \in 1..Len(t)
    BY <1>4
  <2>3. Len(said) + 1 \in 1..Len(t) /\ Len(t) + 1 = Len(said) + 2
    BY <1>4
  <2>4. /\ more \in Seq(Transfer) /\ Len(more) = Len(said) + 2
        /\ \A i \in 1..Len(said) : more[i] = said[i]
        /\ more[Len(said) + 1] = h /\ more[Len(said) + 2] = l
    BY <1>4, <1>5, <2>1, <2>2, <2>3
  <2>5. more = Append(Append(said, h), l)
    BY <2>1 DEF t
  <2> QED BY <1>4, <1>8, <2>4, <2>5 DEF h, l
<1> QED BY <1>7, <1>8

LEMMA AddTransfersKeeps ==
  ASSUME NEW said \in Seq(Transfer), NEW p \in Packet, NEW more, Adds(said, p, more),
         NEW c, NEW r
  PROVE  /\ p.cmd # c \/ p.arg0 # r => /\ None(said, Headers(c, r)) => None(more, Headers(c, r))
                                       /\ Once(said, Headers(c, r)) => Once(more, Headers(c, r))
         /\ p.cmd = c /\ p.arg0 = r => (None(said, Headers(c, r)) => Once(more, Headers(c, r)))
<1> DEFINE S == Headers(c, r)
           h == Header(p)
           l == [kind |-> "payload", packet |-> p]
           t == Append(said, h)
<1>1. h \in Transfer /\ l \in Transfer /\ h.kind = "header" /\ h.packet = p
  BY HeaderType
<1>2. l \notin S /\ (h \in S <=> p.cmd = c /\ p.arg0 = r)
  BY <1>1 DEF Headers
<1>3. more = t \/ more = Append(t, l)
  BY AddTransfers
<1> HIDE DEF S, h, l
<1>4. /\ t \in Seq(Transfer)
      /\ h \notin S => /\ None(said, S) => None(t, S)
                       /\ Once(said, S) => Once(t, S)
      /\ h \in S => (None(said, S) => Once(t, S))
  BY <1>1, AddItem, AddKeeps
<1> HIDE DEF t
<1>5. /\ None(t, S) => None(Append(t, l), S)
      /\ Once(t, S) => Once(Append(t, l), S)
  BY <1>1, <1>2, <1>4, AddKeeps
<1>6. /\ p.cmd # c \/ p.arg0 # r => /\ None(said, S) => None(more, S)
                                    /\ Once(said, S) => Once(more, S)
      /\ p.cmd = c /\ p.arg0 = r => (None(said, S) => Once(more, S))
  BY <1>2, <1>3, <1>4, <1>5
<1> QED BY <1>6 DEF S

(* A packet of the daemon is added at the end.                             *)
LEMMA WriteAdds ==
  ASSUME inp \in Seq(Transfer), NEW p \in Packet, DevWrites(p)
  PROVE  /\ inp' \in Seq(Transfer)
         /\ Len(inp) \in Nat /\ Len(inp') \in Nat /\ Len(inp') > Len(inp)
         /\ \A i \in 1..Len(inp) : inp'[i] = inp[i]
         /\ inp'[Len(inp) + 1] = Header(p)
         /\ \A i \in 1..Len(inp') :
              i \in 1..Len(inp) \/ i = Len(inp) + 1 \/ i = Len(inp) + 2
         /\ Len(inp') >= Len(inp) + 2 =>
              inp'[Len(inp) + 2] = [kind |-> "payload", packet |-> p]
         /\ IF p.data = NoData THEN inp' = Append(inp, Header(p))
            ELSE inp' = Append(Append(inp, Header(p)), [kind |-> "payload", packet |-> p])
<1>1. Adds(inp, p, inp')
  BY DEF DevWrites, Adds
<1>2. /\ inp' \in Seq(Transfer) /\ Len(inp) \in Nat /\ Len(inp') \in Nat
      /\ \A i \in 1..Len(inp) : inp'[i] = inp[i]
      /\ inp'[Len(inp) + 1] = Header(p)
      /\ IF p.data = NoData THEN inp' = Append(inp, Header(p)) /\ Len(inp') = Len(inp) + 1
         ELSE /\ inp' = Append(Append(inp, Header(p)), [kind |-> "payload", packet |-> p])
              /\ Len(inp') = Len(inp) + 2
              /\ inp'[Len(inp) + 2] = [kind |-> "payload", packet |-> p]
  BY <1>1, AddTransfers
<1>3. Len(inp') = Len(inp) + 1 \/ Len(inp') = Len(inp) + 2
  BY <1>2
<1>4. \A i \in 1..Len(inp') : i \in 1..Len(inp) \/ i = Len(inp) + 1 \/ i = Len(inp) + 2
  BY <1>2, <1>3
<1>5. Len(inp') > Len(inp) /\ (Len(inp') >= Len(inp) + 2 => p.data # NoData)
  BY <1>2
<1> QED BY <1>2, <1>4, <1>5

LEMMA WriteKeeps ==
  ASSUME inp \in Seq(Transfer), NEW p \in Packet, DevWrites(p), NEW c, NEW r
  PROVE  /\ p.cmd # c \/ p.arg0 # r => /\ None(inp, Headers(c, r)) => None(inp', Headers(c, r))
                                       /\ Once(inp, Headers(c, r)) => Once(inp', Headers(c, r))
         /\ p.cmd = c /\ p.arg0 = r => (None(inp, Headers(c, r)) => Once(inp', Headers(c, r)))
BY AddTransfersKeeps DEF DevWrites, Adds

-----------------------------------------------------------------------------
(* Beginning and ending a command.                                         *)
LEMMA PlanType ==
  ASSUME NEW x \in DOMAIN Plan
  PROVE  Plan[x] \in Seq(Commands) /\ Plan[x] # <<>>
<1>1. DOMAIN Plan = {"Shell", "StreamingShell", "InteractiveShell", "Reboot", "Push",
                     "PushDirectory", "Pull", "Install"}
  BY DEF Plan
<1>2. /\ Plan["Shell"] = <<"shell">> /\ Plan["StreamingShell"] = <<"streaming">>
      /\ Plan["InteractiveShell"] = <<"interactive">> /\ Plan["Reboot"] = <<"reboot">>
      /\ Plan["Push"] = <<"push">> /\ Plan["PushDirectory"] = <<"mkdir", "push", "push">>
      /\ Plan["Pull"] = <<"pull">> /\ Plan["Install"] = <<"push", "pm_install", "rm">>
  BY DEF Plan
<1>3. \A a \in Commands : <<a>> \in Seq(Commands) /\ <<a>> # <<>>
  OBVIOUS
<1>4. \A a, b, c \in Commands : <<a, b, c>> \in Seq(Commands) /\ <<a, b, c>> # <<>>
  OBVIOUS
<1>5. {"shell", "streaming", "interactive", "reboot", "mkdir", "push", "pull", "pm_install",
       "rm"} = Commands
  BY DEF Commands
<1> HIDE DEF Plan, Commands
<1>6. CASE x = "PushDirectory"
  <2>1. Plan[x] = <<"mkdir", "push", "push">> /\ "mkdir" \in Commands /\ "push" \in Commands
    BY <1>2, <1>5, <1>6
  <2> QED BY <1>4, <2>1
<1>7. CASE x = "Install"
  <2>1. /\ Plan[x] = <<"push", "pm_install", "rm">>
        /\ "pm_install" \in Commands /\ "push" \in Commands /\ "rm" \in Commands
    BY <1>2, <1>5, <1>7
  <2> QED BY <1>4, <2>1
<1>8. CASE x \notin {"PushDirectory", "Install"}
  <2>1. \E a \in Commands : Plan[x] = <<a>>
    BY <1>1, <1>2, <1>5, <1>8
  <2> QED BY <1>3, <2>1
<1> QED BY <1>6, <1>7, <1>8

LEMMA BeginType ==
  ASSUME TypeOK, NEW c, NEW label, Begin(c, label)
  PROVE  /\ c \in Commands
         /\ pending' \in Seq(Commands) /\ program' \in Seq(DOMAIN Plan)
         /\ call \in Nat /\ call' = call + 1 /\ call' \in Calls
         /\ call' \in 0..MaxCommands
         /\ cmd' \in [Calls -> Commands \cup {"none"}]
         /\ cmd'[call + 1] = c
         /\ \A n \in 1..call : n \in Calls /\ cmd'[n] = cmd[n]
         /\ pc = "idle" /\ pc' = label
<1>1. /\ program \in Seq(DOMAIN Plan) /\ pending \in Seq(Commands)
      /\ call \in Nat /\ call <= MaxCommands /\ MaxCommands \in Nat
      /\ cmd \in [Calls -> Commands \cup {"none"}]
  BY CommandsAssumption DEF TypeOK, CommandsTypeOK
<1>2. Todo # <<>> /\ c = Head(Todo)
  BY DEF Begin
<1>3. Todo \in Seq(Commands)
  <2>1. CASE pending # <<>> \/ program = <<>>
    BY <1>1, <2>1 DEF Todo
  <2>2. CASE ~(pending # <<>> \/ program = <<>>)
    <3>1. Head(program) \in DOMAIN Plan
      BY <1>1, <2>2, TakeItem
    <3> QED BY <2>2, <3>1, PlanType DEF Todo
  <2> QED BY <2>1, <2>2
<1>4. Head(Todo) \in Commands /\ Tail(Todo) \in Seq(Commands)
  BY <1>2, <1>3, TakeItem
<1>5. pending' \in Seq(Commands) /\ c \in Commands
  BY <1>2, <1>4 DEF Begin
<1>6. program' \in Seq(DOMAIN Plan)
  <2>1. CASE program = <<>>
    <3>1. pending # <<>>
      BY <1>2, <2>1 DEF Todo
    <3> QED BY <1>1, <3>1 DEF Begin
  <2>2. CASE program # <<>>
    BY <1>1, <2>2, TakeItem DEF Begin
  <2> QED BY <2>1, <2>2
<1>7. call' = call + 1 /\ call < MaxCommands /\ cmd' = [cmd EXCEPT ![call + 1] = c]
  BY DEF Begin
<1>8. call + 1 \in Calls /\ call + 1 \in 0..MaxCommands /\ \A n \in 1..call : n \in Calls /\ n # call + 1
  BY <1>1, <1>7 DEF Calls
<1>9. /\ cmd' \in [Calls -> Commands \cup {"none"}] /\ cmd'[call + 1] = c
      /\ \A n \in 1..call : cmd'[n] = cmd[n]
  BY <1>1, <1>5, <1>7, <1>8
<1> QED BY <1>1, <1>5, <1>6, <1>7, <1>8, <1>9 DEF Begin

LEMMA EndsType ==
  ASSUME TypeOK, call >= 1, NEW how \in Statuses, Ends(how)
  PROVE  /\ pc' = "idle"
         /\ call \in Calls
         /\ status' \in [Calls -> Statuses]
         /\ status'[call] = how
         /\ \A n \in Calls : n # call => status'[n] = status[n]
         /\ pending' \in Seq(Commands)
         /\ pending' = pending \/ pending' = <<>>
         /\ how = "returned" => pending' = pending
<1>1. call \in Calls /\ status \in [Calls -> Statuses] /\ pending \in Seq(Commands)
  BY CommandsAssumption DEF TypeOK, CommandsTypeOK, Calls
<1>2. status' = [status EXCEPT ![call] = how]
  BY DEF Ends
<1>3. /\ status' \in [Calls -> Statuses] /\ status'[call] = how
      /\ \A n \in Calls : n # call => status'[n] = status[n]
  BY <1>1, <1>2
<1>4. pending' \in Seq(Commands) /\ (pending' = pending \/ pending' = <<>>)
  BY <1>1 DEF Ends
<1> QED BY <1>1, <1>3, <1>4 DEF Ends

-----------------------------------------------------------------------------
(* What a step of the host leaves as it was on the wire.                   *)
LEMMA SaidStays ==
  ASSUME NEW t \in Said,
         \A r \in RemoteIds : stream[r].st # "none" =>
            stream'[r].st # "none" /\ (IsSync(r)' <=> IsSync(r)),
         \A r \in RemoteIds : t \in WritesOf(r) => stream'[r].sent = stream[r].sent
  PROVE  t \in Said'
<1>1. /\ t \in Transfer
      /\ t.packet.cmd \in {"OKAY", "WRTE"} =>
           t.packet.arg0 \in RemoteIds /\ stream'[t.packet.arg0].st # "none"
      /\ t.packet.cmd = "CLSE" => t.packet.arg0 \in RemoteIds \cup {0}
      /\ t.packet.cmd # "OPEN"
  BY DEF Said
<1>2. ASSUME t.kind = "header", t.packet.cmd = "WRTE" PROVE Numbered(t.packet)'
  <2>1. PICK r \in RemoteIds : r = t.packet.arg0 /\ stream[r].st # "none"
    BY <1>2 DEF Said
  <2>2. t \in WritesOf(r) /\ Numbered(t.packet)
    BY <1>1, <1>2, <2>1, InHeaders DEF WritesOf, Said
  <2>3. (IsSync(r)' <=> IsSync(r)) /\ stream'[r].sent = stream[r].sent
    BY <2>1, <2>2
  <2> QED BY <2>1, <2>2, <2>3 DEF Numbered
<1> QED BY <1>1, <1>2 DEF Said

LEMMA AskedStays ==
  ASSUME NEW p \in Asked, call \in Nat, call' \in Nat, call' >= call,
         \A r \in RemoteIds : stream[r].st # "none" => stream'[r].st # "none"
  PROVE  p \in Asked'
<1>1. p.cmd = "OPEN" => \E n \in 1..call' : p.data = <<n, 0>>
  BY DEF Asked
<1> QED BY <1>1 DEF Asked

LEMMA SyncStays ==
  ASSUME TypeOK, StreamsOK, NEW r \in RemoteIds,
         stream'[r].service = stream[r].service,
         \A n \in 1..call : cmd'[n] = cmd[n]
  PROVE  IsSync(r)' <=> IsSync(r)
<1>1. call \in 0..MaxCommands
  BY DEF TypeOK, CommandsTypeOK
<1>2. CASE stream[r].st = "none"
  <2>1. stream[r].service[1] = 0
    BY <1>2, NoDataType DEF StreamsOK, NoStream
  <2>2. 0 \notin Calls
    BY DEF Calls
  <2> QED BY <2>1, <2>2 DEF IsSync
<1>3. CASE stream[r].st # "none"
  <2>1. stream[r].service[1] \in 1..call
    BY <1>3 DEF StreamsOK
  <2> QED BY <2>1 DEF IsSync, Calls
<1> QED BY <1>2, <1>3

LEMMA HostWire ==
  ASSUME TypeOK, WireOK, StreamsOK, UNCHANGED stream,
         call' \in Nat, call' >= call, \A n \in 1..call : cmd'[n] = cmd[n]
  PROVE  /\ StreamsOK' /\ Said \subseteq Said' /\ Asked \subseteq Asked'
         /\ \A r \in RemoteIds : IsSync(r)' <=> IsSync(r)
<1>1. call \in Nat
  BY DEF TypeOK, CommandsTypeOK
<1>2. \A r \in RemoteIds : IsSync(r)' <=> IsSync(r)
  BY SyncStays
<1>3. Said \subseteq Said'
  BY <1>2, SaidStays
<1>4. Asked \subseteq Asked'
  BY <1>1, AskedStays
<1>5. StreamsOK'
  BY <1>1 DEF StreamsOK
<1> QED BY <1>2, <1>3, <1>4, <1>5

LEMMA SeqWithin ==
  ASSUME NEW A, NEW B, A \subseteq B, NEW s \in Seq(A)
  PROVE  s \in Seq(B)
OBVIOUS

LEMMA ReadSaid ==
  ASSUME inp \in Seq(Transfer), inp \in Seq(Said), NEW cmds, Reads(cmds)
  PROVE  inp' \in Seq(Said) /\ Head(inp) \in Said
<1>1. inp # <<>> /\ (inp' = Tail(inp) \/ (Tail(inp) # <<>> /\ inp' = Tail(Tail(inp))))
  BY ReadTakes
<1>2. Tail(inp) \in Seq(Said) /\ Head(inp) \in Said
  BY <1>1, TakeItem
<1>3. Tail(inp) # <<>> => Tail(Tail(inp)) \in Seq(Said)
  BY <1>2, TakeItem
<1> QED BY <1>1, <1>2, <1>3

(* What is read is known: an answer comes from a stream adbd has opened.   *)
LEMMA AnswerKnown ==
  ASSUME Head(inp) \in Said
  PROVE  /\ Incoming \in Packet
         /\ Incoming.cmd \in {"OKAY", "WRTE"} => Known(Incoming.arg0)
BY TransferParts DEF Said, Incoming, Known

LEMMA SendKeeps ==
  ASSUME out \in Seq(Packet), NEW p \in Packet, Send(p), NEW c, NEW r
  PROVE  /\ p.cmd # c \/ p.arg1 # r => /\ None(out, Sent(c, r)) => None(out', Sent(c, r))
                                       /\ Once(out, Sent(c, r)) => Once(out', Sent(c, r))
         /\ p.cmd = c /\ p.arg1 = r => (None(out, Sent(c, r)) => Once(out', Sent(c, r)))
BY AddKeeps, InSent DEF Send

(* A step of the host keeps the invariant if it sends what it may send and *)
(* acknowledges what it takes.                                             *)
Shrinks(r) ==
  /\ None(inp, WritesOf(r)) => None(inp', WritesOf(r))
  /\ Once(inp, WritesOf(r)) => None(inp', WritesOf(r)) \/ Once(inp', WritesOf(r))
SameAcks(r) ==
  /\ None(out, AcksOf(r)) => None(out', AcksOf(r))
  /\ Once(out, AcksOf(r)) => Once(out', AcksOf(r))
Acked(r) ==
  /\ None(inp', WritesOf(r))
  /\ None(out, AcksOf(r)) => Once(out', AcksOf(r))

LEMMA HostStep ==
  ASSUME CommandsInv, CommandsTypeOK', UNCHANGED stream,
         inp' \in Seq(Said), out' \in Seq(Asked'),
         call' \in Nat, call' >= call, \A n \in 1..call : cmd'[n] = cmd[n],
         \A r \in RemoteIds : \/ Shrinks(r) /\ SameAcks(r)
                              \/ Once(inp, WritesOf(r)) /\ Acked(r),
         CallOK', Piece', OnePiece'
  PROVE  CommandsInv'
<1>1. StreamsOK' /\ Said \subseteq Said'
  BY HostWire DEF CommandsInv
<1>2. WireOK'
  BY <1>1, SeqWithin DEF WireOK
<1>3. Asked' \subseteq Packet /\ Said \subseteq Transfer
  BY DEF Asked, Said
<1>4. TypeOK'
  BY <1>3, SeqWithin DEF TypeOK, WireTypeOK, CommandsInv
<1>5. ASSUME NEW r \in RemoteIds PROVE FlowOf(r)'
  <2>1. FlowOf(r)
    BY DEF CommandsInv, Flow
  <2>2. CASE Shrinks(r) /\ SameAcks(r)
    BY <2>1, <2>2 DEF FlowOf, Shrinks, SameAcks
  <2>3. CASE Once(inp, WritesOf(r)) /\ Acked(r)
    <3>1. None(out, AcksOf(r)) /\ stream[r].st \in {"waitack", "closed"}
      BY <2>1, <2>3, NotBoth DEF FlowOf
    <3> QED BY <2>3, <3>1 DEF FlowOf, Acked
  <2> QED BY <2>2, <2>3
<1> QED BY <1>1, <1>2, <1>4, <1>5 DEF CommandsInv, Flow

-----------------------------------------------------------------------------
(* The steps of the host, one by one.                                      *)
LEMMA InvParts ==
  ASSUME CommandsInv
  PROVE  /\ TypeOK /\ CommandsTypeOK /\ WireOK /\ StreamsOK /\ CallOK /\ Piece /\ OnePiece
         /\ inp \in Seq(Transfer) /\ out \in Seq(Packet)
         /\ inp \in Seq(Said) /\ out \in Seq(Asked) /\ Asked \subseteq Packet
         /\ call \in Nat /\ (Busy => call \in Calls)
BY CommandsAssumption
   DEF CommandsInv, TypeOK, CommandsTypeOK, WireTypeOK, WireOK, CallOK, Calls, Asked

LEMMA MsgTypes ==
  ASSUME NEW n \in Nat, NEW i \in Nat, NEW r \in Nat
  PROVE  /\ OpenMsg(n) \in Packet /\ OpenMsg(n).cmd = "OPEN" /\ OpenMsg(n).arg0 = LocalId
         /\ OpenMsg(n).data = <<n, 0>>
         /\ WriteMsg(n, i, r) \in Packet /\ WriteMsg(n, i, r).cmd = "WRTE"
         /\ WriteMsg(n, i, r).arg0 = LocalId
         /\ WriteMsg(n, i, r).arg1 = r /\ WriteMsg(n, i, r).data = <<n, i>>
         /\ Close(r) \in Packet /\ Close(r).cmd = "CLSE" /\ Close(r).arg1 = r
         /\ Close(r).arg0 = LocalId
         /\ Okay(r) \in Packet /\ Okay(r).cmd = "OKAY" /\ Okay(r).arg1 = r
         /\ Okay(r).arg0 = LocalId
<1>1. LocalId \in Nat /\ 0 \in Nat
  BY DEF LocalId
<1>2. <<n, 0>> \in Data /\ <<n, i>> \in Data /\ NoData \in Data
  BY PairType, NoDataType
<1>3. OpenMsg(n) \in Packet /\ OpenMsg(n).cmd = "OPEN" /\ OpenMsg(n).arg0 = LocalId
      /\ OpenMsg(n).data = <<n, 0>>
  <2> DEFINE d == <<n, 0>>
  <2>1. d \in Data /\ "OPEN" \in {"OPEN", "OKAY", "CLSE", "WRTE"}
    BY <1>2
  <2> HIDE DEF d
  <2>2. LET p == Pkt("OPEN", LocalId, 0, d) IN
          p \in Packet /\ p.cmd = "OPEN" /\ p.arg0 = LocalId /\ p.data = d
    BY <1>1, <2>1, PacketType
  <2> QED BY <2>2 DEF OpenMsg, d
<1>4. WriteMsg(n, i, r) \in Packet /\ WriteMsg(n, i, r).cmd = "WRTE"
      /\ WriteMsg(n, i, r).arg0 = LocalId
      /\ WriteMsg(n, i, r).arg1 = r /\ WriteMsg(n, i, r).data = <<n, i>>
  <2> DEFINE d == <<n, i>>
  <2>1. d \in Data /\ "WRTE" \in {"OPEN", "OKAY", "CLSE", "WRTE"}
    BY <1>2
  <2> HIDE DEF d
  <2>2. LET p == Pkt("WRTE", LocalId, r, d) IN
          p \in Packet /\ p.cmd = "WRTE" /\ p.arg0 = LocalId /\ p.arg1 = r /\ p.data = d
    BY <1>1, <2>1, PacketType
  <2> QED BY <2>2 DEF WriteMsg, d
<1>5. Close(r) \in Packet /\ Close(r).cmd = "CLSE" /\ Close(r).arg1 = r
      /\ Close(r).arg0 = LocalId
  BY <1>1, <1>2 DEF Close, Pkt, Packet
<1>6. Okay(r) \in Packet /\ Okay(r).cmd = "OKAY" /\ Okay(r).arg1 = r
      /\ Okay(r).arg0 = LocalId
  BY <1>1, <1>2 DEF Okay, Pkt, Packet
<1> QED BY <1>3, <1>4, <1>5, <1>6

(* What is sent to a stream the host knows may be sent.                    *)
LEMMA MaySend ==
  ASSUME CommandsInv, UNCHANGED stream, call' \in Nat, call' >= call,
         \A n \in 1..call : cmd'[n] = cmd[n],
         NEW p \in Packet, p.arg0 = LocalId,
         IF p.cmd = "OPEN" THEN p.data = <<call', 0>> /\ call' >= 1 ELSE Known(p.arg1),
         Send(p)
  PROVE  /\ out' \in Seq(Asked') /\ p \in Asked'
         /\ p.cmd # "OKAY" => \A r \in RemoteIds : SameAcks(r)
         /\ \A r \in RemoteIds : p.arg1 # r => SameAcks(r)
         /\ \A r \in RemoteIds : p.cmd = "OKAY" /\ p.arg1 = r =>
              (None(out, AcksOf(r)) => Once(out', AcksOf(r)))
<1>1. Asked \subseteq Asked' /\ out \in Seq(Packet) /\ out \in Seq(Asked)
  BY InvParts, HostWire
<1>2. p \in Asked'
  BY DEF Asked, Known
<1>3. out' \in Seq(Asked')
  BY <1>1, <1>2, SeqWithin, AddItem DEF Send
<1> QED BY <1>1, <1>2, <1>3, SendKeeps DEF SameAcks, AcksOf

LEMMA OpenKeeps == CommandsInv /\ Open => CommandsInv'
<1> SUFFICES ASSUME CommandsInv, Open PROVE CommandsInv'
  OBVIOUS
<1>1. PICK c \in Commands \ {"interactive"} : Begin(c, "open")
  BY DEF Open
<1>2. /\ Send(OpenMsg(call + 1))
      /\ UNCHANGED <<inp, stream, written, remote, service, status, data>>
  BY DEF Open
<1>3. /\ pending' \in Seq(Commands) /\ program' \in Seq(DOMAIN Plan)
      /\ call \in Nat /\ call' = call + 1 /\ call' \in Calls /\ call' \in 0..MaxCommands
      /\ cmd' \in [Calls -> Commands \cup {"none"}]
      /\ \A n \in 1..call : cmd'[n] = cmd[n]
      /\ pc' = "open"
  BY <1>1, BeginType, InvParts
<1>4. call' \in Nat /\ call' >= call /\ call' >= 1
  BY <1>3
<1>5. OpenMsg(call + 1) \in Packet /\ OpenMsg(call + 1).cmd = "OPEN"
      /\ OpenMsg(call + 1).arg0 = LocalId /\ OpenMsg(call + 1).data = <<call', 0>>
  BY <1>3, <1>4, MsgTypes
<1>6. out' \in Seq(Asked') /\ \A r \in RemoteIds : SameAcks(r)
  BY <1>2, <1>3, <1>4, <1>5, MaySend
<1>7. \A r \in RemoteIds : Shrinks(r)
  BY <1>2 DEF Shrinks
<1>8. CommandsTypeOK'
  BY <1>2, <1>3, InvParts DEF CommandsTypeOK
<1>9. CallOK'
  <2>1. CallOK /\ \A n \in Calls : n > call' => n > call
    BY <1>3, InvParts DEF Calls
  <2>2. call + 1 > call
    BY <1>3
  <2>3. data'[call'] = <<>> /\ \A n \in Calls : n > call' => data'[n] = <<>>
    BY <1>2, <1>3, <2>1, <2>2 DEF CallOK
  <2>4. service' # 0 => Known(service)'
    BY <1>2, <2>1 DEF CallOK, Known
  <2> QED BY <1>3, <1>4, <2>3, <2>4 DEF CallOK
<1>10. Piece' /\ OnePiece'
  BY <1>2, <1>3, InvParts DEF Piece, OnePiece
<1> QED BY <1>2, <1>3, <1>4, <1>6, <1>7, <1>8, <1>9, <1>10, InvParts, HostStep

LEMMA InteractiveKeeps == CommandsInv /\ InteractiveShell => CommandsInv'
<1> SUFFICES ASSUME CommandsInv, InteractiveShell PROVE CommandsInv'
  OBVIOUS
<1>1. PICK label \in {"open", "write"} : Begin("interactive", label)
  BY DEF InteractiveShell
<1>2. UNCHANGED <<inp, stream, written, service, status, data>>
  BY DEF InteractiveShell
<1>3. /\ pending' \in Seq(Commands) /\ program' \in Seq(DOMAIN Plan)
      /\ call \in Nat /\ call' = call + 1 /\ call' \in Calls /\ call' \in 0..MaxCommands
      /\ cmd' \in [Calls -> Commands \cup {"none"}]
      /\ \A n \in 1..call : cmd'[n] = cmd[n]
      /\ pc' = label
  BY <1>1, BeginType, InvParts
<1>4. call' \in Nat /\ call' >= call /\ call' >= 1
  BY <1>3
<1>5. /\ out' \in Seq(Asked') /\ \A r \in RemoteIds : SameAcks(r)
      /\ \/ label = "open" /\ remote' = remote
         \/ label = "write" /\ Known(service) /\ remote' = service
  <2>1. CASE service = 0
    <3>1. Send(OpenMsg(call + 1)) /\ remote' = remote /\ pc' = "open"
      BY <2>1 DEF InteractiveShell, Begin
    <3>2. OpenMsg(call + 1) \in Packet /\ OpenMsg(call + 1).cmd = "OPEN"
          /\ OpenMsg(call + 1).arg0 = LocalId /\ OpenMsg(call + 1).data = <<call', 0>>
      BY <1>3, <1>4, MsgTypes
    <3>3. out' \in Seq(Asked') /\ \A r \in RemoteIds : SameAcks(r)
      BY <1>2, <1>3, <1>4, <3>1, <3>2, MaySend
    <3> QED BY <1>3, <3>1, <3>3
  <2>2. CASE service # 0
    <3>1. Send(WriteMsg(call + 1, 0, service)) /\ remote' = service /\ pc' = "write"
      BY <2>2 DEF InteractiveShell, Begin
    <3>2. Known(service) /\ service \in Nat
      BY <2>2, InvParts, MessageAssumption DEF CallOK, Known
    <3>3. call + 1 \in Nat /\ 0 \in Nat
      BY <1>3
    <3>4. WriteMsg(call + 1, 0, service) \in Packet
          /\ WriteMsg(call + 1, 0, service).cmd = "WRTE"
          /\ WriteMsg(call + 1, 0, service).arg0 = LocalId
          /\ WriteMsg(call + 1, 0, service).arg1 = service
      BY <3>2, <3>3, MsgTypes
    <3>5. out' \in Seq(Asked') /\ \A r \in RemoteIds : SameAcks(r)
      BY <1>2, <1>3, <1>4, <3>1, <3>2, <3>4, MaySend
    <3> QED BY <1>3, <3>1, <3>2, <3>5
  <2> QED BY <2>1, <2>2
<1>7. \A r \in RemoteIds : Shrinks(r)
  BY <1>2 DEF Shrinks
<1>8. CommandsTypeOK'
  BY <1>2, <1>3, <1>5, InvParts DEF CommandsTypeOK, Known
<1>9. CallOK'
  <2>1. CallOK /\ \A n \in Calls : n > call' => n > call
    BY <1>3, InvParts DEF Calls
  <2>2. call + 1 > call
    BY <1>3
  <2>3. data'[call'] = <<>> /\ \A n \in Calls : n > call' => data'[n] = <<>>
    BY <1>2, <1>3, <2>1, <2>2 DEF CallOK
  <2>4. service' # 0 => Known(service)'
    BY <1>2, <2>1 DEF CallOK, Known
  <2>5. pc' = "write" => Known(remote)'
    BY <1>2, <1>3, <1>5 DEF Known
  <2> QED BY <1>3, <1>4, <1>5, <2>3, <2>4, <2>5 DEF CallOK
<1>10. Piece' /\ OnePiece'
  BY <1>2, <1>3, <1>5, InvParts DEF Piece, OnePiece
<1> QED BY <1>2, <1>3, <1>4, <1>5, <1>7, <1>8, <1>9, <1>10, InvParts, HostStep

LEMMA ReadShrinks ==
  ASSUME CommandsInv, NEW cmds, Reads(cmds)
  PROVE  inp' \in Seq(Said) /\ \A r \in RemoteIds : Shrinks(r)
BY InvParts, ReadSaid, ReadKeeps DEF Shrinks

(* What Open does with the connection it got.                              *)
LEMMA ConnectedDoes ==
  ASSUME CommandsInv, Busy, NEW r, Known(r), Connected(r), UNCHANGED <<stream, call, cmd>>
  PROVE  /\ out' \in Seq(Asked') /\ \A q \in RemoteIds : SameAcks(q)
         /\ remote' = r /\ service' \in {r, service}
         /\ pc' \in {"idle", "write", "sync_write", "read"}
         /\ status' \in [Calls -> Statuses] /\ pending' \in Seq(Commands)
         /\ written' \in Nat
<1>1. /\ CommandsTypeOK /\ call \in Calls /\ call \in Nat /\ call >= 1
      /\ out \in Seq(Asked) /\ Asked \subseteq Asked'
  BY InvParts, HostWire DEF CallOK
<1>2. r \in Nat /\ 0 \in Nat /\ 1 \in Nat /\ r \in RemoteIds
  BY MessageAssumption DEF Known
<1>3. ASSUME NEW i \in {0, 1}, Send(WriteMsg(call, i, r))
      PROVE  out' \in Seq(Asked') /\ \A q \in RemoteIds : SameAcks(q)
  <2>1. WriteMsg(call, i, r) \in Packet /\ WriteMsg(call, i, r).cmd = "WRTE"
        /\ WriteMsg(call, i, r).arg0 = LocalId /\ WriteMsg(call, i, r).arg1 = r
    BY <1>1, <1>2, MsgTypes
  <2> QED BY <1>1, <1>3, <2>1, MaySend
<1>4. ASSUME UNCHANGED out
      PROVE  out' \in Seq(Asked') /\ \A q \in RemoteIds : SameAcks(q)
  BY <1>1, <1>4, SeqWithin DEF SameAcks
<1>5. remote' = r /\ service' \in {r, service}
  BY DEF Connected
<1>6. CASE cmd[call] = "reboot"
  <2>1. Ends("returned") /\ UNCHANGED <<out, written>>
    BY <1>6 DEF Connected, SyncCommands
  <2>2. "returned" \in Statuses
    BY DEF Statuses
  <2>3. pc' = "idle" /\ status' \in [Calls -> Statuses] /\ pending' \in Seq(Commands)
    BY <1>1, <2>1, <2>2, EndsType, InvParts
  <2> QED BY <1>1, <1>4, <1>5, <2>1, <2>3 DEF CommandsTypeOK
<1>7. CASE cmd[call] = "interactive"
  <2>1. pc' = "write" /\ Send(WriteMsg(call, 0, r)) /\ UNCHANGED <<status, pending, written>>
    BY <1>7 DEF Connected, SyncCommands
  <2> QED BY <1>1, <1>3, <1>5, <2>1 DEF CommandsTypeOK
<1>8. CASE cmd[call] \in SyncCommands
  <2>1. /\ pc' = "sync_write" /\ Send(WriteMsg(call, 1, r)) /\ written' = 1
        /\ UNCHANGED <<status, pending>>
    BY <1>8 DEF Connected, SyncCommands
  <2> QED BY <1>1, <1>2, <1>3, <1>5, <2>1 DEF CommandsTypeOK
<1>9. CASE cmd[call] \notin SyncCommands \cup {"reboot", "interactive"}
  <2>1. pc' = "read" /\ UNCHANGED <<out, status, pending, written>>
    BY <1>9 DEF Connected
  <2> QED BY <1>1, <1>4, <1>5, <2>1 DEF CommandsTypeOK
<1> QED BY <1>6, <1>7, <1>8, <1>9

LEMMA OpenAnswerKeeps == CommandsInv /\ OpenAnswer => CommandsInv'
<1> SUFFICES ASSUME CommandsInv, OpenAnswer PROVE CommandsInv'
  OBVIOUS
<1>1. /\ pc \in {"open", "open_again"} /\ Reads({"CLSE", "OKAY"})
      /\ UNCHANGED <<stream, program, call, cmd, data>>
  BY DEF OpenAnswer
<1>2. inp' \in Seq(Said) /\ \A r \in RemoteIds : Shrinks(r)
  BY <1>1, ReadShrinks
<1>3. /\ CommandsTypeOK /\ CallOK /\ call \in Calls /\ call \in Nat /\ call >= 1 /\ Busy
      /\ data[call] = <<>> /\ OnePiece /\ out \in Seq(Asked) /\ Asked \subseteq Asked'
  BY <1>1, InvParts, HostWire DEF CallOK, Busy
<1>4. Incoming.cmd \in {"CLSE", "OKAY"} /\ (Incoming.cmd = "OKAY" => Known(Incoming.arg0))
  BY <1>1, InvParts, ReadTakes, ReadSaid, AnswerKnown
<1>5. ASSUME UNCHANGED out
      PROVE  out' \in Seq(Asked') /\ \A q \in RemoteIds : SameAcks(q)
  BY <1>3, <1>5, SeqWithin DEF SameAcks
<1>6. /\ out' \in Seq(Asked') /\ \A q \in RemoteIds : SameAcks(q)
      /\ \/ pc' \in {"idle", "write", "sync_write", "read"} /\ Known(remote')
         \/ pc' \in {"idle", "open_again"} /\ remote' = remote
      /\ service' = service \/ Known(service')
      /\ status' \in [Calls -> Statuses] /\ pending' \in Seq(Commands) /\ written' \in Nat
  <2>1. CASE Incoming.cmd = "OKAY"
    <3>1. Connected(Incoming.arg0)
      BY <1>1, <2>1 DEF OpenAnswer
    <3> QED BY <1>1, <1>3, <1>4, <2>1, <3>1, ConnectedDoes
  <2>2. CASE Incoming.cmd # "OKAY" /\ pc = "open_again"
    <3>1. Refused
      BY <2>2 DEF OpenAnswer
    <3>2. UNCHANGED <<out, remote, service, written>>
      BY <3>1 DEF Refused
    <3>3. PICK how \in Statuses : Ends(how)
      BY <3>1 DEF Refused, Statuses
    <3> QED BY <1>3, <1>5, <3>2, <3>3, EndsType, InvParts DEF CommandsTypeOK
  <2>3. CASE Incoming.cmd # "OKAY" /\ pc # "open_again"
    <3>1. pc' = "open_again" /\ UNCHANGED <<out, remote, service, written, status, pending>>
      BY <2>3 DEF OpenAnswer
    <3> QED BY <1>3, <1>5, <3>1 DEF CommandsTypeOK
  <2> QED BY <2>1, <2>2, <2>3
<1>7. CommandsTypeOK'
  BY <1>1, <1>3, <1>6 DEF CommandsTypeOK, Known
<1>8. CallOK'
  BY <1>1, <1>3, <1>6 DEF CallOK, Known, Busy
<1>9. Piece' /\ OnePiece'
  BY <1>1, <1>3 DEF Piece, OnePiece
<1> QED BY <1>1, <1>2, <1>3, <1>6, <1>7, <1>8, <1>9, HostStep

(* A command that ends, or goes on to a step that is not one of reading    *)
(* output, leaves the data as they are.                                    *)
LEMMA MovesOn ==
  ASSUME CommandsInv, Busy, UNCHANGED <<stream, program, call, cmd, remote, service, data>>,
         inp' \in Seq(Said), out' \in Seq(Asked'),
         \A r \in RemoteIds : Shrinks(r) /\ SameAcks(r),
         pc' \in {"idle", "echo", "sync_write", "sync_read", "sync_close"},
         pc' \in {"echo", "sync_write", "sync_read"} => data[call] = <<>>,
         pc' # "idle" => Known(remote),
         status' \in [Calls -> Statuses], pending' \in Seq(Commands), written' \in Nat
  PROVE  CommandsInv'
<1>1. CommandsTypeOK /\ CallOK /\ call \in Calls /\ call \in Nat /\ call >= 1 /\ OnePiece
  BY InvParts DEF CallOK
<1>2. CommandsTypeOK'
  BY <1>1 DEF CommandsTypeOK
<1>3. CallOK'
  BY <1>1 DEF CallOK, Known, Busy
<1>4. Piece' /\ OnePiece'
  BY <1>1 DEF Piece, OnePiece
<1> QED BY <1>1, <1>2, <1>3, <1>4, HostStep

LEMMA OutSame ==
  ASSUME CommandsInv, UNCHANGED <<out, stream, call, cmd>>
  PROVE  out' \in Seq(Asked') /\ \A r \in RemoteIds : SameAcks(r)
<1>1. out \in Seq(Asked) /\ Asked \subseteq Asked' /\ call \in Nat
  BY InvParts, HostWire
<1> QED BY <1>1, SeqWithin DEF SameAcks

LEMMA WriteAnswerKeeps == CommandsInv /\ WriteAnswer => CommandsInv'
<1> SUFFICES ASSUME CommandsInv, WriteAnswer PROVE CommandsInv'
  OBVIOUS
<1>1. /\ pc = "write" /\ Reads({"OKAY"})
      /\ UNCHANGED <<out, stream, program, call, cmd, written, remote, service, data>>
      /\ (pc' = "echo" /\ UNCHANGED <<status, pending>>) \/ Ends("raised")
  BY DEF WriteAnswer
<1>2. /\ inp' \in Seq(Said) /\ \A r \in RemoteIds : Shrinks(r)
      /\ out' \in Seq(Asked') /\ \A r \in RemoteIds : SameAcks(r)
  BY <1>1, ReadShrinks, OutSame
<1>3. CommandsTypeOK /\ Busy /\ call >= 1 /\ data[call] = <<>> /\ Known(remote)
  BY <1>1, InvParts DEF CallOK, Busy
<1>4. "raised" \in Statuses
  BY DEF Statuses
<1>5. status' \in [Calls -> Statuses] /\ pending' \in Seq(Commands) /\ pc' \in {"idle", "echo"}
  BY <1>1, <1>3, <1>4, EndsType, InvParts DEF CommandsTypeOK
<1>6. written' \in Nat
  BY <1>1, <1>3 DEF CommandsTypeOK
<1> QED BY <1>1, <1>2, <1>3, <1>5, <1>6, MovesOn

LEMMA SyncWriteAnswerKeeps == CommandsInv /\ SyncWriteAnswer => CommandsInv'
<1> SUFFICES ASSUME CommandsInv, SyncWriteAnswer PROVE CommandsInv'
  OBVIOUS
<1>1. /\ pc = "sync_write" /\ Reads({"OKAY"})
      /\ UNCHANGED <<stream, program, call, cmd, remote, service, data>>
  BY DEF SyncWriteAnswer
<1>2. inp' \in Seq(Said) /\ \A r \in RemoteIds : Shrinks(r)
  BY <1>1, ReadShrinks
<1>3. /\ CommandsTypeOK /\ Busy /\ call \in Nat /\ call >= 1 /\ data[call] = <<>>
      /\ Known(remote) /\ written \in Nat
  BY <1>1, InvParts DEF CallOK, Busy, CommandsTypeOK
<1>4. "raised" \in Statuses
  BY DEF Statuses
<1>5. CASE ~Matches(remote)
  <2>1. Ends("raised") /\ UNCHANGED <<out, written>>
    BY <1>5 DEF SyncWriteAnswer
  <2>2. status' \in [Calls -> Statuses] /\ pending' \in Seq(Commands) /\ pc' = "idle"
    BY <1>3, <1>4, <2>1, EndsType, InvParts
  <2>3. out' \in Seq(Asked') /\ \A r \in RemoteIds : SameAcks(r)
    BY <1>1, <2>1, OutSame
  <2> QED BY <1>1, <1>2, <1>3, <2>1, <2>2, <2>3, MovesOn
<1>6. CASE Matches(remote)
  <2>1. written' = written + 1 /\ UNCHANGED <<status, pending>>
    BY <1>6 DEF SyncWriteAnswer
  <2>2. pc' \in {"sync_write", "sync_read"} /\ out' \in Seq(Asked')
        /\ \A r \in RemoteIds : SameAcks(r)
    <3>1. CASE written < Writes(cmd[call])
      <4>1. Send(WriteMsg(call, written + 1, remote)) /\ pc' = pc
        BY <1>6, <3>1 DEF SyncWriteAnswer
      <4>2. remote \in Nat /\ written + 1 \in Nat
        BY <1>3, MessageAssumption DEF Known
      <4> DEFINE p == WriteMsg(call, written + 1, remote)
      <4>3. p \in Packet /\ p.cmd = "WRTE" /\ p.arg0 = LocalId /\ p.arg1 = remote
        BY <1>3, <4>2, MsgTypes
      <4> HIDE DEF p
      <4>4. Send(p)
        BY <4>1 DEF p
      <4> QED BY <1>1, <1>3, <4>1, <4>3, <4>4, MaySend
    <3>2. CASE ~(written < Writes(cmd[call]))
      <4>1. pc' = "sync_read" /\ UNCHANGED out
        BY <1>6, <3>2 DEF SyncWriteAnswer
      <4> QED BY <1>1, <4>1, OutSame
    <3> QED BY <3>1, <3>2
  <2>3. status' \in [Calls -> Statuses] /\ pending' \in Seq(Commands) /\ written' \in Nat
    BY <1>3, <2>1 DEF CommandsTypeOK
  <2> QED BY <1>1, <1>2, <1>3, <2>2, <2>3, MovesOn
<1> QED BY <1>5, <1>6

LEMMA SyncClosedKeeps == CommandsInv /\ SyncClosed => CommandsInv'
<1> SUFFICES ASSUME CommandsInv, SyncClosed PROVE CommandsInv'
  OBVIOUS
<1>1. /\ pc = "sync_close" /\ Reads({"CLSE"})
      /\ UNCHANGED <<out, stream, program, call, cmd, written, remote, service, data>>
  BY DEF SyncClosed
<1>2. PICK how \in Statuses : Ends(how)
  BY DEF SyncClosed, Statuses
<1>3. /\ inp' \in Seq(Said) /\ \A r \in RemoteIds : Shrinks(r)
      /\ out' \in Seq(Asked') /\ \A r \in RemoteIds : SameAcks(r)
  BY <1>1, ReadShrinks, OutSame
<1>4. CommandsTypeOK /\ Busy /\ call >= 1
  BY <1>1, InvParts DEF CallOK, Busy
<1>5. status' \in [Calls -> Statuses] /\ pending' \in Seq(Commands) /\ pc' = "idle"
  BY <1>2, <1>4, EndsType, InvParts
<1>6. written' \in Nat
  BY <1>1, <1>4 DEF CommandsTypeOK
<1> QED BY <1>1, <1>3, <1>4, <1>5, <1>6, MovesOn

(* A WRTE of the stream that is read is the only one, and its OKAY is the  *)
(* first it gets.                                                          *)
LEMMA TakesWrite ==
  ASSUME CommandsInv, NEW cmds, Reads(cmds), Incoming.cmd = "WRTE", Known(remote),
         Matches(remote)
  PROVE  /\ Incoming.arg0 = remote /\ Incoming.data \in Data /\ Incoming.data[1] = remote
         /\ Numbered(Incoming)
         /\ Once(inp, WritesOf(remote)) /\ None(inp', WritesOf(remote))
         /\ None(out, AcksOf(remote))
         /\ stream[remote].st \in {"waitack", "closed"}
<1>1. /\ inp # <<>> /\ Head(inp) \in Transfer /\ Head(inp) = Header(Incoming)
      /\ Head(inp) \in Said /\ Incoming \in Packet
  BY InvParts, ReadTakes, ReadSaid
<1>2. Head(inp).kind = "header" /\ Head(inp).packet = Incoming
  BY <1>1, HeaderType
<1>3. Known(Incoming.arg0) /\ Numbered(Incoming)
  BY <1>1, <1>2, AnswerKnown DEF Said
<1>4. Incoming.arg0 = remote
  <2>1. Incoming.arg0 # 0
    BY <1>3, MessageAssumption DEF Known
  <2> QED BY <2>1 DEF Matches
<1>5. Head(inp) \in WritesOf(remote)
  BY <1>1, <1>2, <1>4, InHeaders DEF WritesOf
<1>6. ~None(inp, WritesOf(remote))
  BY <1>1, <1>5, InvParts, TakeFound
<1>7. /\ Once(inp, WritesOf(remote)) /\ None(out, AcksOf(remote))
      /\ stream[remote].st \in {"waitack", "closed"}
  BY <1>6, InvParts DEF CommandsInv, Flow, FlowOf, Known
<1>8. None(inp', WritesOf(remote))
  BY <1>5, <1>7, InvParts, ReadKeeps
<1>9. Incoming.data \in Data
  BY <1>1, PacketParts
<1> QED BY <1>3, <1>4, <1>7, <1>8, <1>9 DEF Numbered

LEMMA AckSent ==
  ASSUME CommandsInv, Known(remote), None(inp', WritesOf(remote)), Send(Okay(remote)),
         Once(inp, WritesOf(remote)), \A r \in RemoteIds : Shrinks(r),
         UNCHANGED <<stream, call, cmd>>
  PROVE  /\ out' \in Seq(Asked')
         /\ \A r \in RemoteIds : \/ Shrinks(r) /\ SameAcks(r)
                                 \/ Once(inp, WritesOf(r)) /\ Acked(r)
<1>1. remote \in Nat /\ call \in Nat
  BY MessageAssumption, InvParts DEF Known
<1> DEFINE p == Okay(remote)
<1>2. p \in Packet /\ p.cmd = "OKAY" /\ p.arg0 = LocalId /\ p.arg1 = remote
  BY <1>1, MsgTypes
<1> HIDE DEF p
<1>3. Send(p)
  BY DEF p
<1>4. /\ out' \in Seq(Asked') /\ \A r \in RemoteIds : remote # r => SameAcks(r)
      /\ None(out, AcksOf(remote)) => Once(out', AcksOf(remote))
  BY <1>1, <1>2, <1>3, MaySend DEF Known
<1> QED BY <1>4 DEF Acked

LEMMA SyncAnswerKeeps == CommandsInv /\ SyncAnswer => CommandsInv'
<1> SUFFICES ASSUME CommandsInv, SyncAnswer PROVE CommandsInv'
  OBVIOUS
<1>1. /\ pc = "sync_read" /\ Reads({"WRTE"}) /\ Incoming.cmd = "WRTE"
      /\ UNCHANGED <<stream, program, call, cmd, written, remote, service>>
  BY DEF SyncAnswer, Reads
<1>2. inp' \in Seq(Said) /\ \A r \in RemoteIds : Shrinks(r)
  BY <1>1, ReadShrinks
<1>3. /\ CommandsTypeOK /\ CallOK /\ Busy /\ call \in Nat /\ call \in Calls /\ call >= 1
      /\ data[call] = <<>> /\ Known(remote) /\ written \in Nat /\ OnePiece
      /\ data \in [Calls -> Seq(Data)]
  BY <1>1, InvParts DEF CallOK, Busy, CommandsTypeOK
<1>4. "raised" \in Statuses
  BY DEF Statuses
<1>5. CASE ~Matches(remote)
  <2>1. Ends("raised") /\ UNCHANGED <<out, data>>
    BY <1>5 DEF SyncAnswer
  <2>2. status' \in [Calls -> Statuses] /\ pending' \in Seq(Commands) /\ pc' = "idle"
    BY <1>3, <1>4, <2>1, EndsType, InvParts
  <2>3. out' \in Seq(Asked') /\ \A r \in RemoteIds : SameAcks(r)
    BY <1>1, <2>1, OutSame
  <2> QED BY <1>1, <1>2, <1>3, <2>1, <2>2, <2>3, MovesOn
<1>6. CASE Matches(remote)
  <2>1. data' = [data EXCEPT ![call] = Append(@, Incoming.data)]
    BY <1>6 DEF SyncAnswer
  <2>2. /\ Incoming.data \in Data /\ None(inp', WritesOf(remote))
        /\ Once(inp, WritesOf(remote)) /\ None(out, AcksOf(remote))
    BY <1>1, <1>3, <1>6, TakesWrite
  <2>3. /\ data' \in [Calls -> Seq(Data)] /\ data'[call] = <<Incoming.data>>
        /\ \A n \in Calls : n # call => data'[n] = data[n]
    BY <1>3, <2>1, <2>2
  <2>4. OnePiece'
    <3>1. Len(data'[call]) = 1
      BY <2>3
    <3>2. \A n \in Calls : n # call => Len(data'[n]) = Len(data[n])
      BY <2>3
    <3> QED BY <1>3, <2>3, <3>1, <3>2 DEF OnePiece
  <2>5. /\ pc' \in {"idle", "sync_close"} /\ status' \in [Calls -> Statuses]
        /\ pending' \in Seq(Commands)
        /\ out' \in Seq(Asked')
        /\ \A r \in RemoteIds : \/ Shrinks(r) /\ SameAcks(r)
                                \/ Once(inp, WritesOf(r)) /\ Acked(r)
    <3>1. CASE ~IsSuccess
      <4>1. Send(Okay(remote)) /\ Ends("raised")
        BY <1>6, <3>1 DEF SyncAnswer
      <4>2. status' \in [Calls -> Statuses] /\ pending' \in Seq(Commands) /\ pc' = "idle"
        BY <1>3, <1>4, <4>1, EndsType, InvParts
      <4> QED BY <1>1, <1>2, <1>3, <2>2, <4>1, <4>2, AckSent
    <3>2. CASE IsSuccess
      <4>1. /\ out' = out \o <<Okay(remote), Close(remote)>> /\ pc' = "sync_close"
            /\ UNCHANGED <<status, pending>>
        BY <1>6, <3>2 DEF SyncAnswer
      <4> DEFINE p == Okay(remote)
                 q == Close(remote)
                 t == Append(out, p)
      <4>2. /\ p \in Packet /\ p.cmd = "OKAY" /\ p.arg0 = LocalId /\ p.arg1 = remote
            /\ q \in Packet /\ q.cmd = "CLSE" /\ q.arg0 = LocalId /\ q.arg1 = remote
        BY <1>3, MsgTypes, MessageAssumption DEF Known
      <4>3. p \in Asked' /\ q \in Asked' /\ out \in Seq(Packet) /\ out \in Seq(Asked')
        <5>1. stream'[remote].st # "none" /\ remote \in RemoteIds
          BY <1>1, <1>3 DEF Known
        <5>2. p \in Asked' /\ q \in Asked'
          BY <4>2, <5>1 DEF Asked
        <5>3. out \in Seq(Asked) /\ Asked \subseteq Asked' /\ out \in Seq(Packet)
          BY <1>1, <1>3, InvParts, HostWire
        <5> QED BY <5>2, <5>3, SeqWithin
      <4> HIDE DEF p, q
      <4>4. out' = Append(t, q)
        BY <4>1, <4>3 DEF p, q
      <4>5. t \in Seq(Packet) /\ t \in Seq(Asked')
        BY <4>2, <4>3, AddItem
      <4>6. out' \in Seq(Asked')
        BY <4>3, <4>4, <4>5, AddItem
      <4>7. ASSUME NEW r \in RemoteIds
            PROVE  \/ Shrinks(r) /\ SameAcks(r)
                   \/ Once(inp, WritesOf(r)) /\ Acked(r)
        <5>1. q \notin AcksOf(r) /\ (p \in AcksOf(r) <=> r = remote)
          BY <4>2, InSent DEF AcksOf
        <5>2. /\ None(t, AcksOf(r)) => None(out', AcksOf(r))
              /\ Once(t, AcksOf(r)) => Once(out', AcksOf(r))
          BY <4>2, <4>4, <4>5, <5>1, AddKeeps
        <5>3. CASE r = remote
          <6>1. Once(t, AcksOf(r))
            BY <2>2, <4>2, <4>3, <5>1, <5>3, AddKeeps
          <6> QED BY <2>2, <5>2, <5>3, <6>1 DEF Acked
        <5>4. CASE r # remote
          <6>1. /\ None(out, AcksOf(r)) => None(t, AcksOf(r))
                /\ Once(out, AcksOf(r)) => Once(t, AcksOf(r))
            BY <4>2, <4>3, <5>1, <5>4, AddKeeps
          <6> QED BY <1>2, <5>2, <6>1 DEF SameAcks
        <5> QED BY <5>3, <5>4
      <4> QED BY <1>3, <4>1, <4>6, <4>7 DEF CommandsTypeOK
    <3> QED BY <3>1, <3>2
  <2>6. CommandsTypeOK'
    BY <1>1, <1>3, <2>3, <2>5 DEF CommandsTypeOK
  <2>7. CallOK'
    BY <1>1, <1>3, <2>3, <2>5 DEF CallOK, Known, Busy
  <2>8. Piece'
    BY <2>5 DEF Piece
  <2> QED BY <1>1, <1>2, <1>3, <2>4, <2>5, <2>6, <2>7, <2>8, HostStep
<1> QED BY <1>5, <1>6

(* The datum that is yielded goes on where the last one ended.             *)
LEMMA Yields ==
  ASSUME CommandsInv, pc \in {"read", "echo"}, NEW cmds, Reads(cmds), Incoming.cmd = "WRTE",
         Matches(remote), UNCHANGED <<stream, call, cmd, remote>>,
         data' = [data EXCEPT ![call] = Append(@, Incoming.data)]
  PROVE  /\ data' \in [Calls -> Seq(Data)]
         /\ \A n \in Calls : n # call => data'[n] = data[n]
         /\ OnePiece'
         /\ Last(data'[call])[1] = remote
         /\ IF IsSync(remote)' THEN stream'[remote].sent = 1
            ELSE stream'[remote].sent = Last(data'[call])[2]
<1>1. /\ data \in [Calls -> Seq(Data)] /\ call \in Calls /\ OnePiece /\ Piece /\ Known(remote)
      /\ remote \in RemoteIds
  BY InvParts DEF CallOK, Busy, CommandsTypeOK, Known
<1> DEFINE d == Incoming.data
           s == data[call]
<1>2. /\ Incoming.arg0 = remote /\ d \in Data /\ d[1] = remote /\ Numbered(Incoming)
      /\ Once(inp, WritesOf(remote))
  BY <1>1, TakesWrite
<1>3. IF IsSync(remote) THEN stream[remote].sent = 1 ELSE d[2] = stream[remote].sent
  BY <1>2 DEF Numbered
<1>4. s \in Seq(Data) /\ Len(s) \in Nat
  BY <1>1
<1> HIDE DEF d
<1>5. s # <<>> => /\ Last(s)[1] = remote /\ ~IsSync(remote) /\ d[2] = Last(s)[2] + 1
  BY <1>1, <1>2, <1>3, NotBoth DEF Piece
<1>6. data' = [data EXCEPT ![call] = Append(s, d)]
  BY DEF d
<1> DEFINE t == Append(s, d)
<1>7. /\ t \in Seq(Data) /\ Len(t) = Len(s) + 1
      /\ \A i \in 1..Len(s) : t[i] = s[i]
      /\ t[Len(s) + 1] = d
  BY <1>2, <1>4, AddItem
<1>8. data'[call] = t /\ data' \in [Calls -> Seq(Data)]
      /\ \A n \in Calls : n # call => data'[n] = data[n]
  BY <1>1, <1>6, <1>7
<1> HIDE DEF t
<1>9. ASSUME NEW i \in 2..Len(t)
      PROVE  t[i][1] = t[1][1] /\ t[i][2] = t[i - 1][2] + 1
  <2>1. \A j \in 2..Len(s) : s[j][1] = s[1][1] /\ s[j][2] = s[j - 1][2] + 1
    BY <1>1 DEF OnePiece
  <2>2. 1 \in 1..Len(s)
    BY <1>4, <1>7
  <2>3. CASE i \in 2..Len(s)
    <3>1. i \in 1..Len(s) /\ i - 1 \in 1..Len(s)
      BY <2>3
    <3> QED BY <1>7, <2>1, <2>2, <2>3, <3>1
  <2>4. CASE i = Len(s) + 1
    <3>1. s # <<>> /\ Last(s) = s[Len(s)] /\ Len(s) \in 1..Len(s) /\ i - 1 = Len(s)
      BY <1>4, <2>2, <2>4 DEF Last
    <3>2. s[Len(s)][1] = s[1][1]
      BY <1>4, <2>1, <2>2
    <3>3. d[1] = s[Len(s)][1] /\ d[2] = s[Len(s)][2] + 1
      BY <1>2, <1>5, <3>1 DEF d
    <3> QED BY <1>7, <2>2, <2>4, <3>1, <3>2, <3>3
  <2> QED BY <1>4, <1>7, <2>3, <2>4
<1>10. OnePiece'
  <2>1. ASSUME NEW n \in Calls, NEW i \in 2..Len(data'[n])
        PROVE  data'[n][i][1] = data'[n][1][1] /\ data'[n][i][2] = data'[n][i - 1][2] + 1
    BY <1>1, <1>8, <1>9, <2>1 DEF OnePiece
  <2> QED BY <2>1 DEF OnePiece
<1>11. Last(data'[call]) = d
  BY <1>7, <1>8 DEF Last
<1>12. (IsSync(remote)' <=> IsSync(remote)) /\ stream'[remote].sent = stream[remote].sent
  BY DEF IsSync
<1> QED BY <1>2, <1>3, <1>8, <1>10, <1>11, <1>12 DEF d

LEMMA YieldKeeps ==
  ASSUME CommandsInv, pc \in {"read", "echo"}, NEW cmds, Reads(cmds), Incoming.cmd = "WRTE",
         Matches(remote), AckIfWrite(remote),
         data' = [data EXCEPT ![call] = Append(@, Incoming.data)],
         UNCHANGED <<stream, program, call, cmd, written, remote, service>>,
         pc' \in {pc, "idle"}, status' \in [Calls -> Statuses], pending' \in Seq(Commands)
  PROVE  CommandsInv'
<1>1. inp' \in Seq(Said) /\ \A r \in RemoteIds : Shrinks(r)
  BY ReadShrinks
<1>2. /\ CommandsTypeOK /\ CallOK /\ Busy /\ call \in Nat /\ call \in Calls /\ call >= 1
      /\ Known(remote) /\ written \in Nat
  BY InvParts DEF CallOK, Busy, CommandsTypeOK
<1>3. /\ data' \in [Calls -> Seq(Data)]
      /\ \A n \in Calls : n # call => data'[n] = data[n]
      /\ OnePiece'
      /\ Last(data'[call])[1] = remote
      /\ IF IsSync(remote)' THEN stream'[remote].sent = 1
         ELSE stream'[remote].sent = Last(data'[call])[2]
  BY Yields
<1>4. None(inp', WritesOf(remote)) /\ Once(inp, WritesOf(remote))
  BY <1>2, TakesWrite
<1>5. Send(Okay(remote))
  BY DEF AckIfWrite
<1>6. /\ out' \in Seq(Asked')
      /\ \A r \in RemoteIds : \/ Shrinks(r) /\ SameAcks(r)
                              \/ Once(inp, WritesOf(r)) /\ Acked(r)
  BY <1>1, <1>2, <1>4, <1>5, AckSent
<1>7. CommandsTypeOK'
  BY <1>2, <1>3 DEF CommandsTypeOK
<1>8. CallOK'
  BY <1>2, <1>3 DEF CallOK, Known, Busy
<1>9. Piece'
  <2>1. remote' = remote /\ ~Once(inp', WritesOf(remote))
    BY <1>4, NotBoth
  <2>2. PICK r \in RemoteIds : r = remote
    BY <1>2 DEF Known
  <2>3. ~Once(inp', WritesOf(r)) /\ None(inp', WritesOf(r)) /\ remote' = r
    BY <1>4, <2>1, <2>2
  <2> QED BY <1>3, <2>2, <2>3 DEF Piece, IsSync
<1> QED BY <1>1, <1>2, <1>3, <1>6, <1>7, <1>8, <1>9, HostStep

LEMMA ReadOutputKeeps == CommandsInv /\ ReadOutput => CommandsInv'
<1> SUFFICES ASSUME CommandsInv, ReadOutput PROVE CommandsInv'
  OBVIOUS
<1>1. /\ pc = "read" /\ Reads({"CLSE", "WRTE"}) /\ Incoming.cmd \in {"CLSE", "WRTE"}
      /\ UNCHANGED <<stream, program, call, cmd, written, remote, service>>
  BY DEF ReadOutput, Reads
<1>2. inp' \in Seq(Said) /\ \A r \in RemoteIds : Shrinks(r)
  BY <1>1, ReadShrinks
<1>3. CommandsTypeOK /\ Busy /\ call \in Nat /\ call >= 1 /\ Known(remote) /\ written \in Nat
  BY <1>1, InvParts DEF CallOK, Busy, CommandsTypeOK
<1>4. "raised" \in Statuses /\ "returned" \in Statuses
  BY DEF Statuses
<1>5. CASE ~Matches(remote)
  <2>1. Ends("raised") /\ UNCHANGED <<out, data>>
    BY <1>5 DEF ReadOutput
  <2>2. status' \in [Calls -> Statuses] /\ pending' \in Seq(Commands) /\ pc' = "idle"
    BY <1>3, <1>4, <2>1, EndsType, InvParts
  <2>3. out' \in Seq(Asked') /\ \A r \in RemoteIds : SameAcks(r)
    BY <1>1, <2>1, OutSame
  <2> QED BY <1>1, <1>2, <1>3, <2>1, <2>2, <2>3, MovesOn
<1>6. CASE Matches(remote) /\ Incoming.cmd = "CLSE"
  <2>1. Send(Close(remote)) /\ Ends("returned") /\ UNCHANGED data
    BY <1>6 DEF ReadOutput
  <2>2. status' \in [Calls -> Statuses] /\ pending' \in Seq(Commands) /\ pc' = "idle"
    BY <1>3, <1>4, <2>1, EndsType, InvParts
  <2> DEFINE p == Close(remote)
  <2>3. p \in Packet /\ p.cmd = "CLSE" /\ p.arg0 = LocalId /\ p.arg1 = remote
    BY <1>3, MessageAssumption, MsgTypes DEF Known
  <2> HIDE DEF p
  <2>4. Send(p)
    BY <2>1 DEF p
  <2>5. out' \in Seq(Asked') /\ \A r \in RemoteIds : SameAcks(r)
    BY <1>1, <1>3, <2>3, <2>4, MaySend
  <2> QED BY <1>1, <1>2, <1>3, <2>1, <2>2, <2>5, MovesOn
<1>7. CASE Matches(remote) /\ Incoming.cmd # "CLSE"
  <2>1. /\ AckIfWrite(remote)
        /\ data' = [data EXCEPT ![call] = Append(@, Incoming.data)]
        /\ UNCHANGED <<pc, status, pending>>
    BY <1>7 DEF ReadOutput
  <2> QED BY <1>1, <1>3, <1>7, <2>1, YieldKeeps DEF CommandsTypeOK
<1> QED BY <1>5, <1>6, <1>7

LEMMA ReadEchoKeeps == CommandsInv /\ ReadEcho => CommandsInv'
<1> SUFFICES ASSUME CommandsInv, ReadEcho PROVE CommandsInv'
  OBVIOUS
<1>1. /\ pc = "echo" /\ Reads({"WRTE"}) /\ Incoming.cmd = "WRTE"
      /\ UNCHANGED <<stream, program, call, cmd, written, remote, service>>
  BY DEF ReadEcho, Reads
<1>2. inp' \in Seq(Said) /\ \A r \in RemoteIds : Shrinks(r)
  BY <1>1, ReadShrinks
<1>3. CommandsTypeOK /\ Busy /\ call \in Nat /\ call >= 1 /\ Known(remote) /\ written \in Nat
  BY <1>1, InvParts DEF CallOK, Busy, CommandsTypeOK
<1>4. "raised" \in Statuses /\ "returned" \in Statuses
  BY DEF Statuses
<1>5. CASE ~Matches(remote)
  <2>1. Ends("raised") /\ UNCHANGED <<out, data>>
    BY <1>5 DEF ReadEcho
  <2>2. status' \in [Calls -> Statuses] /\ pending' \in Seq(Commands) /\ pc' = "idle"
    BY <1>3, <1>4, <2>1, EndsType, InvParts
  <2>3. out' \in Seq(Asked') /\ \A r \in RemoteIds : SameAcks(r)
    BY <1>1, <2>1, OutSame
  <2> QED BY <1>1, <1>2, <1>3, <2>1, <2>2, <2>3, MovesOn
<1>6. CASE Matches(remote)
  <2>1. /\ AckIfWrite(remote)
        /\ data' = [data EXCEPT ![call] = Append(@, Incoming.data)]
        /\ Ends("returned") \/ UNCHANGED <<pc, status, pending>>
    BY <1>6 DEF ReadEcho
  <2>2. pc' \in {pc, "idle"} /\ status' \in [Calls -> Statuses] /\ pending' \in Seq(Commands)
    BY <1>3, <1>4, <2>1, EndsType, InvParts DEF CommandsTypeOK
  <2> QED BY <1>1, <1>6, <2>1, <2>2, YieldKeeps
<1> QED BY <1>5, <1>6

LEMMA TailSaid ==
  ASSUME CommandsInv, inp # <<>>, inp' = Tail(inp)
  PROVE  inp' \in Seq(Said) /\ \A r \in RemoteIds : Shrinks(r)
<1>1. inp \in Seq(Said) /\ inp \in Seq(Transfer)
  BY InvParts
<1>2. inp' \in Seq(Said)
  BY <1>1, TakeItem
<1>3. ASSUME NEW r \in RemoteIds PROVE Shrinks(r)
  BY <1>1, TakeKeeps DEF Shrinks
<1> QED BY <1>2, <1>3

LEMMA SkipKeeps == CommandsInv /\ SkipPacket => CommandsInv'
<1> SUFFICES ASSUME CommandsInv, SkipPacket PROVE CommandsInv'
  OBVIOUS
<1>1. Skips(ExpectedCmds) /\ UNCHANGED <<out, stream, commandVars>>
  BY DEF SkipPacket
<1>2. UNCHANGED <<pc, program, pending, call, cmd, written, remote, service, status, data>>
  BY <1>1 DEF commandVars, plan
<1>3. /\ inp # <<>> /\ inp' = Tail(inp) /\ Head(inp) \in Transfer /\ Incoming.cmd \notin ExpectedCmds
      /\ Head(inp) = Header(Incoming) /\ Incoming \in Packet
  BY <1>1, InvParts, SkipTakes
<1>4. inp' \in Seq(Said) /\ \A r \in RemoteIds : Shrinks(r)
  BY <1>3, TailSaid
<1>5. out' \in Seq(Asked') /\ \A r \in RemoteIds : SameAcks(r)
  BY <1>1, <1>2, OutSame
<1>6. CommandsTypeOK' /\ CallOK' /\ OnePiece' /\ call' \in Nat /\ call' >= call
  BY <1>1, <1>2, InvParts DEF CommandsTypeOK, CallOK, Known, Busy, OnePiece
<1>7. Piece'
  <2> SUFFICES ASSUME pc \in {"read", "echo"}, data[call] # <<>>
               PROVE  Piece'
    BY <1>2 DEF Piece
  <2>1. Piece /\ Known(remote)
    BY InvParts DEF CallOK
  <2>2. PICK r \in RemoteIds : r = remote
    BY <2>1 DEF Known
  <2>3. Incoming.cmd # "WRTE"
    BY <1>3 DEF ExpectedCmds
  <2>4. Head(inp) \notin WritesOf(r)
    BY <1>3, <2>3, InHeaders DEF WritesOf, Incoming
  <2>5. None(inp, WritesOf(r)) \/ Once(inp, WritesOf(r))
    BY DEF CommandsInv, Flow, FlowOf
  <2>6. /\ None(inp', WritesOf(r)) => None(inp, WritesOf(r))
        /\ Once(inp', WritesOf(r)) => Once(inp, WritesOf(r))
        /\ None(inp, WritesOf(r)) => None(inp', WritesOf(r))
    BY <1>3, <2>4, <2>5, InvParts, TakeKeeps, NotBoth
  <2> QED BY <1>1, <1>2, <2>1, <2>2, <2>6 DEF Piece, IsSync
<1> QED BY <1>1, <1>2, <1>4, <1>5, <1>6, <1>7, HostStep

(* Steps that end a command, or the program, and send no OKAY.             *)
LEMMA StopsKeeps ==
  ASSUME CommandsInv, UNCHANGED <<stream, program, call, cmd, written, data>>,
         inp' \in Seq(Said), out' \in Seq(Asked'),
         \A r \in RemoteIds : Shrinks(r) /\ SameAcks(r),
         pc' \in {"idle", "closing", "closed"},
         remote' \in RemoteIds \cup {0}, service' \in {0, service},
         status' \in [Calls -> Statuses], pending' \in Seq(Commands)
  PROVE  CommandsInv'
<1>1. CommandsTypeOK /\ CallOK /\ call \in Nat /\ OnePiece
  BY InvParts
<1>2. CommandsTypeOK'
  BY <1>1 DEF CommandsTypeOK
<1>3. CallOK'
  BY <1>1 DEF CallOK, Known, Busy
<1>4. Piece' /\ OnePiece'
  BY <1>1 DEF Piece, OnePiece
<1> QED BY <1>1, <1>2, <1>3, <1>4, HostStep

LEMMA FailsType ==
  ASSUME CommandsInv, Reading, Fails
  PROVE  /\ pc' \in {"idle", "closed"}
         /\ status' \in [Calls -> Statuses] /\ pending' \in Seq(Commands)
<1>1. CommandsTypeOK /\ "raised" \in Statuses
  BY InvParts DEF Statuses
<1>2. CASE pc = "closing"
  BY <1>1, <1>2 DEF Fails, CommandsTypeOK
<1>3. CASE pc # "closing"
  <2>1. pc \notin {"idle", "closed"}
    BY DEF Reading, ExpectedCmds
  <2>2. call >= 1
    BY <1>3, <2>1, InvParts DEF CallOK, Busy
  <2>3. Ends("raised")
    BY <1>3 DEF Fails
  <2> QED BY <1>1, <2>2, <2>3, EndsType, InvParts
<1> QED BY <1>2, <1>3

LEMMA StopKeeps ==
  CommandsInv /\ (Abandon \/ CloseDevice \/ CloseAnswer \/ Misread \/ ReadTimeout) => CommandsInv'
<1> SUFFICES ASSUME CommandsInv,
                    Abandon \/ CloseDevice \/ CloseAnswer \/ Misread \/ ReadTimeout
             PROVE  CommandsInv'
  OBVIOUS
<1>1. /\ CommandsTypeOK /\ CallOK /\ call \in Nat
      /\ inp \in Seq(Said) /\ inp \in Seq(Transfer)
      /\ remote \in RemoteIds \cup {0} /\ status \in [Calls -> Statuses]
      /\ pending \in Seq(Commands)
  BY InvParts DEF CommandsTypeOK
<1>2. UNCHANGED inp => inp' \in Seq(Said) /\ \A r \in RemoteIds : Shrinks(r)
  BY <1>1, HostWire, SeqWithin DEF Shrinks
<1>3. CASE Abandon
  <2>1. /\ pc = "read" /\ Ends("abandoned")
        /\ UNCHANGED <<out, inp, stream, program, call, cmd, written, remote, service, data>>
    BY <1>3 DEF Abandon, wireVars
  <2>2. call >= 1 /\ "abandoned" \in Statuses
    BY <1>1, <2>1 DEF CallOK, Busy, Statuses
  <2>3. status' \in [Calls -> Statuses] /\ pending' \in Seq(Commands) /\ pc' = "idle"
    BY <1>1, <2>1, <2>2, EndsType, InvParts
  <2>4. out' \in Seq(Asked') /\ \A r \in RemoteIds : SameAcks(r)
    BY <2>1, OutSame
  <2> QED BY <1>1, <1>2, <2>1, <2>3, <2>4, StopsKeeps
<1>4. CASE CloseDevice
  <2>1. /\ service' = 0
        /\ UNCHANGED <<inp, stream, program, pending, call, cmd, written, status, data>>
    BY <1>4 DEF CloseDevice, plan
  <2>2. /\ pc' \in {"closed", "closing"} /\ remote' \in RemoteIds \cup {0}
        /\ out' \in Seq(Asked') /\ \A r \in RemoteIds : SameAcks(r)
    <3>1. CASE service = 0
      <4>1. pc' = "closed" /\ UNCHANGED <<out, remote>>
        BY <1>4, <3>1 DEF CloseDevice
      <4> QED BY <1>1, <2>1, <4>1, OutSame
    <3>2. CASE service # 0
      <4>1. pc' = "closing" /\ Send(Close(service)) /\ remote' = service
        BY <1>4, <3>2 DEF CloseDevice
      <4>2. Known(service) /\ service \in Nat
        BY <1>1, <3>2, MessageAssumption DEF CallOK, Known
      <4> DEFINE p == Close(service)
      <4>3. p \in Packet /\ p.cmd = "CLSE" /\ p.arg0 = LocalId /\ p.arg1 = service
        BY <4>2, MsgTypes
      <4> HIDE DEF p
      <4>4. Send(p)
        BY <4>1 DEF p
      <4>5. out' \in Seq(Asked') /\ \A r \in RemoteIds : SameAcks(r)
        BY <1>1, <2>1, <4>2, <4>3, <4>4, MaySend
      <4> QED BY <4>1, <4>2, <4>5 DEF Known
    <3> QED BY <3>1, <3>2
  <2> QED BY <1>1, <1>2, <2>1, <2>2, StopsKeeps
<1>5. CASE CloseAnswer
  <2>1. /\ Reads({"CLSE"}) /\ pc' = "closed"
        /\ UNCHANGED <<out, stream, program, pending, call, cmd, written, remote, service,
                       status, data>>
    BY <1>5 DEF CloseAnswer, plan
  <2>2. /\ inp' \in Seq(Said) /\ \A r \in RemoteIds : Shrinks(r)
        /\ out' \in Seq(Asked') /\ \A r \in RemoteIds : SameAcks(r)
    BY <2>1, ReadShrinks, OutSame
  <2> QED BY <1>1, <2>1, <2>2, StopsKeeps
<1>6. CASE Misread
  <2>1. /\ Reading /\ Fails /\ inp # <<>> /\ inp' = Tail(inp)
        /\ UNCHANGED <<out, stream, program, call, cmd, written, remote, service, data>>
    BY <1>6 DEF Misread, Misreads, HalfReads, IsHeader
  <2>2. /\ inp' \in Seq(Said) /\ \A r \in RemoteIds : Shrinks(r)
        /\ out' \in Seq(Asked') /\ \A r \in RemoteIds : SameAcks(r)
    BY <2>1, TailSaid, OutSame
  <2> QED BY <1>1, <2>1, <2>2, FailsType, StopsKeeps
<1>7. CASE ReadTimeout
  <2>1. /\ Reading /\ Fails
        /\ UNCHANGED <<out, inp, stream, program, call, cmd, written, remote, service, data>>
    BY <1>7 DEF ReadTimeout, wireVars
  <2>2. out' \in Seq(Asked') /\ \A r \in RemoteIds : SameAcks(r)
    BY <2>1, OutSame
  <2> QED BY <1>1, <1>2, <2>1, <2>2, FailsType, StopsKeeps
<1> QED BY <1>3, <1>4, <1>5, <1>6, <1>7

-----------------------------------------------------------------------------
(* The steps of adbd.                                                      *)
LEMMA DevStep ==
  ASSUME CommandsInv, UNCHANGED commandVars,
         stream' \in [RemoteIds -> Stream],
         \A r \in RemoteIds : stream[r].st # "none" =>
           stream'[r].st # "none" /\ stream'[r].service = stream[r].service,
         StreamsOK', inp' \in Seq(Said'), out' \in Seq(Asked),
         \A r \in RemoteIds : FlowOf(r)',
         pc \in {"read", "echo"} => Piece'
  PROVE  CommandsInv'
<1>1. UNCHANGED <<pc, program, pending, call, cmd, written, remote, service, status, data>>
  BY DEF commandVars, plan
<1>2. Asked \subseteq Asked' /\ Asked' \subseteq Packet /\ Said' \subseteq Transfer
  <2>1. Asked \subseteq Asked'
    BY <1>1, InvParts, AskedStays
  <2> QED BY <2>1 DEF Asked, Said
<1>3. TypeOK'
  <2>1. CommandsTypeOK'
    BY <1>1, InvParts DEF CommandsTypeOK
  <2>2. out' \in Seq(Packet) /\ inp' \in Seq(Transfer)
    BY <1>2, SeqWithin, InvParts
  <2> QED BY <2>1, <2>2 DEF TypeOK, WireTypeOK
<1>4. WireOK'
  BY <1>2, SeqWithin DEF WireOK
<1>5. CallOK' /\ OnePiece'
  BY <1>1, InvParts DEF CallOK, Known, Busy, OnePiece
<1>6. Piece'
  BY <1>1 DEF Piece
<1> QED BY <1>3, <1>4, <1>5, <1>6 DEF CommandsInv, Flow

(* A packet is taken from the pipe.                                        *)
LEMMA OutTaken ==
  ASSUME CommandsInv, out # <<>>, out' = Tail(out)
  PROVE  /\ out' \in Seq(Asked) /\ Frame \in Asked /\ Frame \in Packet
         /\ \A r \in RemoteIds :
              /\ None(out, AcksOf(r)) => None(out', AcksOf(r))
              /\ Once(out, AcksOf(r)) =>
                   IF Frame \in AcksOf(r) THEN None(out', AcksOf(r)) ELSE Once(out', AcksOf(r))
<1>1. out \in Seq(Asked) /\ out \in Seq(Packet)
  BY InvParts
<1> QED BY <1>1, TakeItem, TakeKeeps DEF Frame

LEMMA SyncSame ==
  ASSUME CommandsInv, UNCHANGED commandVars,
         \A r \in RemoteIds : stream[r].st # "none" => stream'[r].service = stream[r].service
  PROVE  \A r \in RemoteIds : stream[r].st # "none" => (IsSync(r)' <=> IsSync(r))
BY DEF IsSync, commandVars

LEMMA SaidSame ==
  ASSUME CommandsInv, UNCHANGED commandVars,
         \A r \in RemoteIds : stream[r].st # "none" =>
            /\ stream'[r].st # "none" /\ stream'[r].service = stream[r].service
            /\ stream'[r].sent = stream[r].sent \/ None(inp, WritesOf(r))
  PROVE  inp \in Seq(Said')
<1>1. \A r \in RemoteIds : stream[r].st # "none" => (IsSync(r)' <=> IsSync(r))
  BY SyncSame
<1>2. inp \in Seq(Said) /\ inp \in Seq(Transfer)
  BY InvParts
<1>3. ASSUME NEW i \in 1..Len(inp) PROVE inp[i] \in Said'
  <2>1. PICK t \in Said : t = inp[i]
    BY <1>2
  <2>2. ASSUME NEW r \in RemoteIds, t \in WritesOf(r) PROVE stream'[r].sent = stream[r].sent
    <3>1. ~None(inp, WritesOf(r))
      BY <2>1, <2>2 DEF None
    <3>2. t.packet.cmd = "WRTE" /\ t.packet.arg0 = r
      BY <2>2 DEF WritesOf, Headers
    <3>3. stream[r].st # "none"
      BY <3>2 DEF Said
    <3> QED BY <3>1, <3>3
  <2>3. t \in Said'
    BY <1>1, <2>2, SaidStays
  <2> QED BY <2>1, <2>3
<1> QED BY <1>2, <1>3

LEMMA WriteSaid ==
  ASSUME inp \in Seq(Said'), inp \in Seq(Transfer), NEW p \in Packet, Header(p) \in Said',
         DevWrites(p)
  PROVE  inp' \in Seq(Said')
<1> DEFINE h == Header(p)
           l == [kind |-> "payload", packet |-> p]
           t == Append(inp, h)
<1>1. l \in Said'
  BY HeaderType DEF Said
<1>2. IF p.data = NoData THEN inp' = t ELSE inp' = Append(t, l)
  BY WriteAdds
<1> HIDE DEF l
<1>3. t \in Seq(Said')
  BY AddItem
<1> HIDE DEF t
<1>4. Append(t, l) \in Seq(Said')
  BY <1>1, <1>3, AddItem
<1> QED BY <1>2, <1>3, <1>4

LEMMA PieceSame ==
  ASSUME CommandsInv, UNCHANGED commandVars, pc \in {"read", "echo"},
         stream'[remote].sent = stream[remote].sent,
         stream'[remote].service = stream[remote].service,
         None(inp, WritesOf(remote)) => None(inp', WritesOf(remote)),
         Once(inp, WritesOf(remote)) => Once(inp', WritesOf(remote))
  PROVE  Piece'
<1>1. Piece /\ Known(remote) /\ UNCHANGED <<pc, call, cmd, remote, data>>
  BY InvParts DEF CallOK, commandVars
<1>2. PICK r \in RemoteIds : r = remote
  BY <1>1 DEF Known
<1>3. None(inp, WritesOf(r)) \/ Once(inp, WritesOf(r))
  BY DEF CommandsInv, Flow, FlowOf
<1>4. /\ None(inp', WritesOf(r)) => None(inp, WritesOf(r))
      /\ Once(inp', WritesOf(r)) => Once(inp, WritesOf(r))
      /\ None(inp, WritesOf(r)) => None(inp', WritesOf(r))
  BY <1>2, <1>3, NotBoth
<1>5. IsSync(r)' <=> IsSync(r)
  BY <1>1, <1>2 DEF IsSync
<1> QED BY <1>1, <1>2, <1>4, <1>5 DEF Piece, IsSync

LEMMA StreamType ==
  ASSUME CommandsInv, NEW r \in RemoteIds
  PROVE  /\ stream \in [RemoteIds -> Stream] /\ stream[r] \in Stream
         /\ stream[r].st \in {"none", "ready", "waitack", "closed"}
         /\ stream[r].peer \in Nat /\ stream[r].service \in Data /\ stream[r].sent \in Nat
         /\ stream[r].got \in Seq(Data) /\ r \in Nat
<1>1. stream \in [RemoteIds -> Stream]
  BY InvParts DEF TypeOK, WireTypeOK
<1> QED BY <1>1, MessageAssumption DEF Stream

LEMMA DevOpenKeeps == CommandsInv /\ DevOpen /\ UNCHANGED commandVars => CommandsInv'
<1> SUFFICES ASSUME CommandsInv, DevOpen, UNCHANGED commandVars PROVE CommandsInv'
  OBVIOUS
<1>1. out # <<>> /\ Frame.cmd = "OPEN" /\ out' = Tail(out)
  BY DEF DevOpen, Receives
<1>2. /\ out' \in Seq(Asked) /\ Frame \in Asked /\ Frame \in Packet
      /\ inp \in Seq(Transfer)
  BY <1>1, OutTaken, InvParts
<1>3. /\ Frame.arg0 = LocalId /\ Frame.arg0 \in Nat /\ Frame.data \in Data
      /\ \E n \in 1..call : Frame.data = <<n, 0>>
  BY <1>1, <1>2, PacketParts DEF Asked
<1>4. ASSUME NEW r \in RemoteIds
      PROVE  /\ None(out, AcksOf(r)) => None(out', AcksOf(r))
             /\ Once(out, AcksOf(r)) => Once(out', AcksOf(r))
  <2>1. Frame \notin AcksOf(r)
    BY <1>1, <1>2, InSent DEF AcksOf
  <2> QED BY <1>1, <2>1, OutTaken
<1>5. 0 \in Nat /\ NoData \in Data
  BY NoDataType
<1>6. CASE UNCHANGED stream
  <2> DEFINE p == Pkt("CLSE", 0, Frame.arg0, NoData)
  <2>1. p \in Packet /\ p.cmd = "CLSE" /\ p.arg0 = 0
    BY <1>3, <1>5, PacketType
  <2> HIDE DEF p
  <2>2. DevWrites(p)
    <3>1. \A r \in RemoteIds : NextRemoteId(r) =>
            stream # [stream EXCEPT ![r] =
               [st |-> "ready", peer |-> Frame.arg0, service |-> Frame.data,
                sent |-> 0, got |-> <<>>]]
      <4> SUFFICES ASSUME NEW r \in RemoteIds, NextRemoteId(r)
                   PROVE  stream # [stream EXCEPT ![r] =
                     [st |-> "ready", peer |-> Frame.arg0, service |-> Frame.data,
                      sent |-> 0, got |-> <<>>]]
        OBVIOUS
      <4>1. stream[r].st = "none" /\ stream \in [RemoteIds -> Stream]
        BY StreamType DEF NextRemoteId
      <4> QED BY <4>1
    <3> QED BY <1>6, <3>1 DEF DevOpen, p
  <2>3. Header(p) \in Said'
    BY <2>1, HeaderType DEF Said
  <2>4. inp \in Seq(Said')
    BY <1>6, SaidSame
  <2>5. inp' \in Seq(Said')
    BY <1>2, <2>1, <2>2, <2>3, <2>4, WriteSaid
  <2>6. ASSUME NEW r \in RemoteIds
        PROVE  /\ None(inp, WritesOf(r)) => None(inp', WritesOf(r))
               /\ Once(inp, WritesOf(r)) => Once(inp', WritesOf(r))
    BY <1>2, <2>1, <2>2, WriteKeeps DEF WritesOf
  <2>7. ASSUME NEW r \in RemoteIds PROVE FlowOf(r)'
    BY <1>4, <1>6, <2>6 DEF CommandsInv, Flow, FlowOf
  <2>8. pc \in {"read", "echo"} => Piece'
    BY <1>6, <2>6, InvParts, PieceSame DEF CallOK, Known
  <2>9. StreamsOK'
    BY <1>6, InvParts DEF StreamsOK, commandVars
  <2>10. stream' \in [RemoteIds -> Stream]
    BY <1>6, InvParts DEF TypeOK, WireTypeOK
  <2> QED BY <1>2, <1>6, <2>5, <2>7, <2>8, <2>9, <2>10, DevStep
<1>7. CASE ~UNCHANGED stream
  <2>1. PICK r \in RemoteIds :
          /\ NextRemoteId(r)
          /\ stream' = [stream EXCEPT ![r] =
               [st |-> "ready", peer |-> Frame.arg0, service |-> Frame.data,
                sent |-> 0, got |-> <<>>]]
          /\ DevWrites(Pkt("OKAY", r, Frame.arg0, NoData))
    BY <1>7 DEF DevOpen
  <2> DEFINE p == Pkt("OKAY", r, Frame.arg0, NoData)
             new == [st |-> "ready", peer |-> Frame.arg0, service |-> Frame.data,
                     sent |-> 0, got |-> <<>>]
  <2>2. stream[r].st = "none" /\ r \in Nat /\ stream \in [RemoteIds -> Stream]
    BY <2>1, StreamType DEF NextRemoteId
  <2>3. p \in Packet /\ p.cmd = "OKAY" /\ p.arg0 = r /\ DevWrites(p)
    BY <1>3, <1>5, <2>1, <2>2, PacketType
  <2> HIDE DEF p
  <2>4. new \in Stream /\ new.st = "ready" /\ new.service = Frame.data
    <3>1. <<>> \in Seq(Data)
      OBVIOUS
    <3> QED BY <1>3, <3>1 DEF Stream
  <2> HIDE DEF new
  <2>5. /\ stream' \in [RemoteIds -> Stream] /\ stream'[r] = new
        /\ \A q \in RemoteIds : q # r => stream'[q] = stream[q]
    BY <2>1, <2>2, <2>4 DEF new
  <2>6. Header(p) \in Said'
    <3>1. stream'[r].st # "none"
      BY <2>4, <2>5
    <3> QED BY <2>3, <3>1, HeaderType DEF Said
  <2>7. inp \in Seq(Said')
    BY <2>2, <2>5, SaidSame
  <2>8. inp' \in Seq(Said')
    BY <1>2, <2>3, <2>6, <2>7, WriteSaid
  <2>9. ASSUME NEW q \in RemoteIds
        PROVE  /\ None(inp, WritesOf(q)) => None(inp', WritesOf(q))
               /\ Once(inp, WritesOf(q)) => Once(inp', WritesOf(q))
    BY <1>2, <2>3, WriteKeeps DEF WritesOf
  <2>10. ASSUME NEW q \in RemoteIds PROVE FlowOf(q)'
    <3>1. FlowOf(q)
      BY DEF CommandsInv, Flow
    <3>2. CASE q = r
      BY <1>4, <2>2, <2>9, <3>1, <3>2 DEF FlowOf
    <3>3. CASE q # r
      BY <1>4, <2>5, <2>9, <3>1, <3>3 DEF FlowOf
    <3> QED BY <3>2, <3>3
  <2>11. pc \in {"read", "echo"} => Piece'
    <3> SUFFICES ASSUME pc \in {"read", "echo"} PROVE Piece'
      OBVIOUS
    <3>1. remote \in RemoteIds /\ remote # r
      BY <2>2, InvParts DEF CallOK, Known
    <3> QED BY <2>5, <2>9, <3>1, PieceSame
  <2>12. StreamsOK'
    <3>1. call' = call /\ StreamsOK
      BY InvParts DEF commandVars
    <3>2. stream'[r].st # "none" /\ \E n \in 1..call' : stream'[r].service = <<n, 0>>
      BY <1>3, <2>4, <2>5, <3>1
    <3> QED BY <2>5, <3>1, <3>2 DEF StreamsOK
  <2> QED BY <1>2, <2>2, <2>5, <2>8, <2>10, <2>11, <2>12, DevStep
<1> QED BY <1>6, <1>7

(* Only one stream changes, and it stays the stream of its command.        *)
OnlyChanges(r, new) ==
  /\ stream' \in [RemoteIds -> Stream]
  /\ stream'[r] = new
  /\ \A q \in RemoteIds : q # r => stream'[q] = stream[q]

LEMMA StatusSet ==
  ASSUME CommandsInv, NEW r \in RemoteIds, NEW st \in {"none", "ready", "waitack", "closed"},
         stream' = [stream EXCEPT ![r].st = st]
  PROVE  /\ OnlyChanges(r, [stream[r] EXCEPT !.st = st])
         /\ stream'[r].st = st /\ stream'[r].service = stream[r].service
         /\ stream'[r].sent = stream[r].sent /\ stream'[r].got = stream[r].got
         /\ stream'[r].peer = stream[r].peer
<1> DEFINE new == [stream[r] EXCEPT !.st = st]
<1>1. stream \in [RemoteIds -> Stream] /\ stream[r] \in Stream
  BY StreamType
<1>2. /\ new \in Stream /\ new.st = st /\ new.service = stream[r].service
      /\ new.sent = stream[r].sent /\ new.got = stream[r].got /\ new.peer = stream[r].peer
  BY <1>1 DEF Stream
<1>3. stream' = [stream EXCEPT ![r] = new]
  OBVIOUS
<1> HIDE DEF new
<1>4. OnlyChanges(r, new)
  BY <1>1, <1>2, <1>3 DEF OnlyChanges
<1> QED BY <1>2, <1>4 DEF OnlyChanges, new

LEMMA SentSet ==
  ASSUME CommandsInv, NEW r \in RemoteIds, NEW st \in {"none", "ready", "waitack", "closed"},
         NEW n \in Nat, stream' = [stream EXCEPT ![r].st = st, ![r].sent = n]
  PROVE  /\ OnlyChanges(r, [stream[r] EXCEPT !.st = st, !.sent = n])
         /\ stream'[r].st = st /\ stream'[r].service = stream[r].service
         /\ stream'[r].sent = n /\ stream'[r].got = stream[r].got
         /\ stream'[r].peer = stream[r].peer
<1> DEFINE new == [stream[r] EXCEPT !.st = st, !.sent = n]
<1>1. stream \in [RemoteIds -> Stream] /\ stream[r] \in Stream
  BY StreamType
<1>2. /\ new \in Stream /\ new.st = st /\ new.service = stream[r].service
      /\ new.sent = n /\ new.got = stream[r].got /\ new.peer = stream[r].peer
  BY <1>1 DEF Stream
<1>3. stream' = [stream EXCEPT ![r] = new]
  OBVIOUS
<1> HIDE DEF new
<1>4. OnlyChanges(r, new)
  BY <1>1, <1>2, <1>3 DEF OnlyChanges
<1> QED BY <1>2, <1>4 DEF OnlyChanges, new

LEMMA GotSet ==
  ASSUME CommandsInv, NEW r \in RemoteIds, NEW d \in Data,
         stream' = [stream EXCEPT ![r].got = Append(@, d)]
  PROVE  /\ OnlyChanges(r, [stream[r] EXCEPT !.got = Append(stream[r].got, d)])
         /\ stream'[r].st = stream[r].st /\ stream'[r].service = stream[r].service
         /\ stream'[r].sent = stream[r].sent /\ stream'[r].got = Append(stream[r].got, d)
         /\ stream'[r].peer = stream[r].peer
<1> DEFINE s == Append(stream[r].got, d)
           new == [stream[r] EXCEPT !.got = s]
<1>1. stream \in [RemoteIds -> Stream] /\ stream[r] \in Stream /\ s \in Seq(Data)
  BY StreamType
<1> HIDE DEF s
<1>2. /\ new \in Stream /\ new.st = stream[r].st /\ new.service = stream[r].service
      /\ new.sent = stream[r].sent /\ new.got = s /\ new.peer = stream[r].peer
  BY <1>1 DEF Stream
<1>3. stream' = [stream EXCEPT ![r] = new]
  BY DEF s
<1> HIDE DEF new
<1>4. OnlyChanges(r, new)
  BY <1>1, <1>2, <1>3 DEF OnlyChanges
<1> QED BY <1>2, <1>4 DEF OnlyChanges, new, s

(* The steps of adbd on a stream it has.                                   *)
LEMMA DevMoves ==
  ASSUME CommandsInv, UNCHANGED commandVars, NEW r \in RemoteIds, NEW new, OnlyChanges(r, new),
         stream[r].st # "none", new.st # "none", new.service = stream[r].service,
         new.sent = stream[r].sent \/ None(inp, WritesOf(r)),
         inp \in Seq(Said') => inp' \in Seq(Said'), out' \in Seq(Asked),
         \A q \in RemoteIds : q # r =>
           /\ None(inp, WritesOf(q)) => None(inp', WritesOf(q))
           /\ Once(inp, WritesOf(q)) => Once(inp', WritesOf(q))
           /\ None(out, AcksOf(q)) => None(out', AcksOf(q))
           /\ Once(out, AcksOf(q)) => Once(out', AcksOf(q)),
         FlowOf(r)',
         pc \in {"read", "echo"} /\ remote = r => Piece'
  PROVE  CommandsInv'
<1>1. \A q \in RemoteIds : stream[q].st # "none" =>
        /\ stream'[q].st # "none" /\ stream'[q].service = stream[q].service
        /\ stream'[q].sent = stream[q].sent \/ None(inp, WritesOf(q))
  BY DEF OnlyChanges
<1>2. inp' \in Seq(Said')
  BY <1>1, SaidSame
<1>3. StreamsOK'
  <2>1. StreamsOK /\ call' = call
    BY InvParts DEF commandVars
  <2> QED BY <2>1 DEF StreamsOK, OnlyChanges
<1>4. ASSUME NEW q \in RemoteIds PROVE FlowOf(q)'
  <2>1. FlowOf(q)
    BY DEF CommandsInv, Flow
  <2>2. CASE q # r
    BY <2>1, <2>2 DEF FlowOf, OnlyChanges
  <2> QED BY <2>2
<1>5. ASSUME pc \in {"read", "echo"} PROVE Piece'
  <2>1. remote \in RemoteIds
    BY <1>5, InvParts DEF CallOK, Known
  <2>2. CASE remote # r
    BY <1>5, <2>1, <2>2, PieceSame DEF OnlyChanges
  <2> QED BY <1>5, <2>2
<1> QED BY <1>1, <1>2, <1>3, <1>4, <1>5, DevStep DEF OnlyChanges

LEMMA StreamSame ==
  ASSUME CommandsInv, NEW r \in RemoteIds, UNCHANGED stream
  PROVE  OnlyChanges(r, stream[r])
BY StreamType DEF OnlyChanges

LEMMA FrameKnown ==
  ASSUME CommandsInv, out # <<>>, Frame.cmd # "OPEN"
  PROVE  /\ Frame \in Packet /\ Known(Frame.arg1) /\ Frame.arg1 \in RemoteIds
         /\ Frame.arg0 = LocalId /\ Frame.arg0 \in Nat /\ Frame.data \in Data
<1>1. out \in Seq(Asked)
  BY InvParts
<1>2. Frame \in Asked
  BY <1>1, TakeItem DEF Frame
<1> QED BY <1>2, PacketParts DEF Asked, Known

LEMMA DevAckKeeps == CommandsInv /\ DevAck /\ UNCHANGED commandVars => CommandsInv'
<1> SUFFICES ASSUME CommandsInv, DevAck, UNCHANGED commandVars PROVE CommandsInv'
  OBVIOUS
<1>1. out # <<>> /\ Frame.cmd = "OKAY" /\ out' = Tail(out) /\ UNCHANGED inp
  BY DEF DevAck, Receives
<1>2. Frame \in Packet /\ Known(Frame.arg1)
  BY <1>1, FrameKnown
<1>3. PICK r \in RemoteIds : r = Frame.arg1 /\ stream[r].st # "none"
  BY <1>2 DEF Known
<1>4. \A q \in RemoteIds : Frame \in AcksOf(q) <=> q = r
  BY <1>1, <1>2, <1>3, InSent DEF AcksOf
<1>5. /\ out' \in Seq(Asked)
      /\ \A q \in RemoteIds : q # r =>
           /\ None(out, AcksOf(q)) => None(out', AcksOf(q))
           /\ Once(out, AcksOf(q)) => Once(out', AcksOf(q))
  BY <1>1, <1>4, OutTaken
<1>6. None(inp, WritesOf(r)) /\ Once(out, AcksOf(r))
  <2>1. ~None(out, AcksOf(r))
    BY <1>1, <1>4, InvParts, TakeFound DEF Frame
  <2> QED BY <2>1 DEF CommandsInv, Flow, FlowOf
<1>7. None(out', AcksOf(r)) /\ None(inp', WritesOf(r))
  BY <1>1, <1>4, <1>6, OutTaken
<1>8. FlowOf(r)'
  BY <1>7 DEF FlowOf
<1>9. \A q \in RemoteIds : q # r => /\ None(inp, WritesOf(q)) => None(inp', WritesOf(q))
                                    /\ Once(inp, WritesOf(q)) => Once(inp', WritesOf(q))
  BY <1>1
<1>10. PICK new : /\ OnlyChanges(r, new) /\ new.st # "none"
                  /\ new.service = stream[r].service /\ new.sent = stream[r].sent
  <2>1. CASE stream[r].st = "waitack"
    <3>1. stream' = [stream EXCEPT ![r].st = "ready"]
      BY <1>3, <2>1 DEF DevAck
    <3> QED BY <3>1, StatusSet DEF OnlyChanges
  <2>2. CASE stream[r].st # "waitack"
    <3>1. UNCHANGED stream
      BY <1>3, <2>2 DEF DevAck
    <3> QED BY <1>3, <3>1, StreamSame
  <2> QED BY <2>1, <2>2
<1>11. pc \in {"read", "echo"} /\ remote = r => Piece'
  BY <1>1, <1>10, PieceSame DEF OnlyChanges
<1>12. inp \in Seq(Said') => inp' \in Seq(Said')
  BY <1>1
<1> QED BY <1>3, <1>5, <1>8, <1>9, <1>10, <1>11, <1>12, DevMoves

(* A packet adbd writes on a stream, that is not a WRTE.                   *)
LEMMA AnswerSaid ==
  ASSUME CommandsInv, NEW r \in RemoteIds, stream'[r].st # "none",
         NEW c \in {"OKAY", "CLSE"}, NEW a \in Nat, DevWrites(Pkt(c, r, a, NoData))
  PROVE  /\ inp \in Seq(Said') => inp' \in Seq(Said')
         /\ \A q \in RemoteIds : /\ None(inp, WritesOf(q)) => None(inp', WritesOf(q))
                                 /\ Once(inp, WritesOf(q)) => Once(inp', WritesOf(q))
<1> DEFINE p == Pkt(c, r, a, NoData)
<1>1. r \in Nat /\ NoData \in Data /\ inp \in Seq(Transfer)
  BY StreamType, NoDataType, InvParts
<1>2. p \in Packet /\ p.cmd = c /\ p.arg0 = r
  BY <1>1, PacketType
<1> HIDE DEF p
<1>3. DevWrites(p)
  BY DEF p
<1>4. Header(p) \in Said'
  BY <1>2, HeaderType DEF Said
<1>5. inp \in Seq(Said') => inp' \in Seq(Said')
  BY <1>1, <1>2, <1>3, <1>4, WriteSaid
<1> QED BY <1>1, <1>2, <1>3, <1>5, WriteKeeps DEF WritesOf

(* A packet adbd takes that is not an OKAY: it answers it or not.          *)
LEMMA RequestKeeps ==
  ASSUME CommandsInv, UNCHANGED commandVars, out # <<>>, Frame.cmd \in {"WRTE", "CLSE"},
         out' = Tail(out), NEW r \in RemoteIds, r = Frame.arg1, NEW new, OnlyChanges(r, new),
         new.st # "none", new.service = stream[r].service, new.sent = stream[r].sent,
         new.st = "closed" \/ new.st = stream[r].st,
         UNCHANGED inp \/ \E c \in {"OKAY", "CLSE"} : DevWrites(Pkt(c, r, Frame.arg0, NoData))
  PROVE  CommandsInv'
<1>1. Frame \in Packet /\ Known(r) /\ Frame.arg0 \in Nat
  BY FrameKnown
<1>2. \A q \in RemoteIds : Frame \notin AcksOf(q)
  BY <1>1, InSent DEF AcksOf
<1>3. /\ out' \in Seq(Asked)
      /\ \A q \in RemoteIds :
           /\ None(out, AcksOf(q)) => None(out', AcksOf(q))
           /\ Once(out, AcksOf(q)) => Once(out', AcksOf(q))
  BY <1>2, OutTaken
<1>4. /\ inp \in Seq(Said') => inp' \in Seq(Said')
      /\ \A q \in RemoteIds : /\ None(inp, WritesOf(q)) => None(inp', WritesOf(q))
                              /\ Once(inp, WritesOf(q)) => Once(inp', WritesOf(q))
  <2>1. CASE UNCHANGED inp
    BY <2>1
  <2>2. ASSUME NEW c \in {"OKAY", "CLSE"}, DevWrites(Pkt(c, r, Frame.arg0, NoData))
        PROVE  /\ inp \in Seq(Said') => inp' \in Seq(Said')
               /\ \A q \in RemoteIds : /\ None(inp, WritesOf(q)) => None(inp', WritesOf(q))
                                       /\ Once(inp, WritesOf(q)) => Once(inp', WritesOf(q))
    <3>1. stream'[r].st # "none"
      BY DEF OnlyChanges
    <3> QED BY <1>1, <2>2, <3>1, AnswerSaid
  <2> QED BY <2>1, <2>2
<1>5. FlowOf(r)'
  <2>1. FlowOf(r) /\ stream'[r].st \in {"closed", stream[r].st}
    BY DEF CommandsInv, Flow, OnlyChanges
  <2> QED BY <1>3, <1>4, <2>1 DEF FlowOf
<1>6. pc \in {"read", "echo"} /\ remote = r => Piece'
  BY <1>4, PieceSame DEF OnlyChanges
<1>7. stream[r].st # "none"
  BY <1>1 DEF Known
<1> QED BY <1>3, <1>4, <1>5, <1>6, <1>7, DevMoves

LEMMA DevRequestKeeps ==
  CommandsInv /\ (DevHostWrite \/ DevCloseRequest) /\ UNCHANGED commandVars => CommandsInv'
<1> SUFFICES ASSUME CommandsInv, DevHostWrite \/ DevCloseRequest, UNCHANGED commandVars
             PROVE  CommandsInv'
  OBVIOUS
<1>1. out # <<>> /\ Frame.cmd \in {"WRTE", "CLSE"} /\ out' = Tail(out)
  BY DEF DevHostWrite, DevCloseRequest, Receives
<1>2. Known(Frame.arg1) /\ Frame.data \in Data /\ Frame.arg0 \in Nat
  BY <1>1, FrameKnown
<1>3. PICK r \in RemoteIds : r = Frame.arg1 /\ stream[r].st # "none"
  BY <1>2 DEF Known
<1>4. UNCHANGED inp \/ \E c \in {"OKAY", "CLSE"} : DevWrites(Pkt(c, r, Frame.arg0, NoData))
  BY <1>3 DEF DevHostWrite, DevCloseRequest
<1>5. PICK new : /\ OnlyChanges(r, new) /\ new.st # "none"
                 /\ new.service = stream[r].service /\ new.sent = stream[r].sent
                 /\ new.st = "closed" \/ new.st = stream[r].st
  <2>1. CASE UNCHANGED stream
    BY <1>3, <2>1, StreamSame
  <2>2. CASE stream' = [stream EXCEPT ![r].st = "closed"]
    BY <2>2, StatusSet DEF OnlyChanges
  <2>3. CASE stream' = [stream EXCEPT ![r].got = Append(@, Frame.data)]
    <3>1. PICK d \in Data : stream' = [stream EXCEPT ![r].got = Append(@, d)]
      BY <1>2, <2>3
    <3>2. PICK s : /\ OnlyChanges(r, [stream[r] EXCEPT !.got = s])
                   /\ stream'[r].st = stream[r].st /\ stream'[r].service = stream[r].service
                   /\ stream'[r].sent = stream[r].sent
      BY <3>1, GotSet
    <3> QED BY <1>3, <3>2 DEF OnlyChanges
  <2> QED BY <1>3, <2>1, <2>2, <2>3 DEF DevHostWrite, DevCloseRequest
<1> QED BY <1>1, <1>3, <1>4, <1>5, RequestKeeps

(* A WRTE of a stream that may write: the packet k, the stream's n-th.     *)
LEMMA WriteOn ==
  ASSUME CommandsInv, UNCHANGED commandVars, UNCHANGED out,
         NEW r \in RemoteIds, stream[r].st = "ready", NEW k \in Nat, NEW n \in Nat,
         IF IsSync(r) THEN n = 1 /\ stream[r].sent = 0 ELSE k = n /\ n = stream[r].sent + 1,
         stream' = [stream EXCEPT ![r].st = "waitack", ![r].sent = n],
         DevWrites(Pkt("WRTE", r, stream[r].peer, <<r, k>>))
  PROVE  CommandsInv'
<1>1. r \in Nat /\ stream[r].peer \in Nat /\ inp \in Seq(Transfer)
  BY StreamType, InvParts
<1>2. <<r, k>> \in Data /\ <<r, k>>[1] = r /\ <<r, k>>[2] = k
  BY <1>1, PairType
<1>3. PICK p \in Packet : p.cmd = "WRTE" /\ p.arg0 = r /\ p.data = <<r, k>> /\ DevWrites(p)
  <2>1. "WRTE" \in {"OPEN", "OKAY", "CLSE", "WRTE"}
    OBVIOUS
  <2> DEFINE d == <<r, k>>
             a == stream[r].peer
  <2>2. d \in Data /\ a \in Nat /\ DevWrites(Pkt("WRTE", r, a, d))
    BY <1>1, <1>2
  <2>3. d = <<r, k>>
    OBVIOUS
  <2> HIDE DEF d, a
  <2>4. LET p == Pkt("WRTE", r, a, d) IN
          p \in Packet /\ p.cmd = "WRTE" /\ p.arg0 = r /\ p.data = d
    BY <1>1, <2>1, <2>2, PacketType
  <2> QED BY <2>2, <2>3, <2>4
<1>4. PICK new : /\ OnlyChanges(r, new) /\ new = stream'[r]
                 /\ stream'[r].st = "waitack" /\ stream'[r].sent = n
                 /\ stream'[r].service = stream[r].service
  BY SentSet DEF OnlyChanges
<1>5. IsSync(r)' <=> IsSync(r)
  <2>1. \A q \in RemoteIds : stream[q].st # "none" => stream'[q].service = stream[q].service
    BY <1>4 DEF OnlyChanges
  <2> QED BY <2>1, SyncSame
<1>6. None(inp, WritesOf(r)) /\ None(out, AcksOf(r))
  BY DEF CommandsInv, Flow, FlowOf
<1>7. Once(inp', WritesOf(r))
  BY <1>1, <1>3, <1>6, WriteKeeps DEF WritesOf
<1>8. \A q \in RemoteIds : q # r => /\ None(inp, WritesOf(q)) => None(inp', WritesOf(q))
                                    /\ Once(inp, WritesOf(q)) => Once(inp', WritesOf(q))
                                    /\ None(out, AcksOf(q)) => None(out', AcksOf(q))
                                    /\ Once(out, AcksOf(q)) => Once(out', AcksOf(q))
  BY <1>1, <1>3, WriteKeeps DEF WritesOf
<1>9. inp \in Seq(Said') => inp' \in Seq(Said')
  <2>1. Numbered(p)'
    BY <1>2, <1>3, <1>4, <1>5 DEF Numbered
  <2>2. Header(p) \in Said'
    BY <1>3, <1>4, <2>1, HeaderType DEF Said
  <2> QED BY <1>1, <1>3, <2>2, WriteSaid
<1>10. FlowOf(r)'
  BY <1>4, <1>6, <1>7 DEF FlowOf
<1>11. ASSUME pc \in {"read", "echo"}, remote = r PROVE Piece'
  <2>1. UNCHANGED <<pc, data, call, remote>>
    BY DEF commandVars
  <2>2. ~None(inp', WritesOf(r))
    BY <1>7, NotBoth
  <2> SUFFICES ASSUME data[call] # <<>>
               PROVE  /\ Last(data[call])[1] = r
                      /\ ~IsSync(r) /\ stream'[r].sent = Last(data[call])[2] + 1
    BY <1>5, <1>11, <2>1, <2>2 DEF Piece
  <2>3. /\ Last(data[call])[1] = r
        /\ IF IsSync(r) THEN stream[r].sent = 1
           ELSE stream[r].sent = Last(data[call])[2]
    BY <1>6, <1>11, InvParts DEF Piece
  <2> QED BY <1>4, <2>3
<1>12. out' \in Seq(Asked)
  BY InvParts
<1>13. stream[r].st # "none" /\ new.st # "none" /\ new.service = stream[r].service
  BY <1>4
<1> QED BY <1>4, <1>6, <1>8, <1>9, <1>10, <1>11, <1>12, <1>13, DevMoves

LEMMA ServiceKeeps ==
  ASSUME CommandsInv, NEW r \in RemoteIds, Service(r), UNCHANGED commandVars
  PROVE  CommandsInv'
<1>1. stream[r].sent \in Nat /\ stream[r].peer \in Nat
  BY StreamType
<1>2. CASE IsSync(r) /\ DevSyncAnswer(r)
  <2>1. PICK answer \in {1, 2} : DevWrites(Pkt("WRTE", r, stream[r].peer, <<r, answer>>))
    BY <1>2 DEF DevSyncAnswer
  <2>2. /\ stream[r].st = "ready" /\ stream[r].sent = 0 /\ UNCHANGED out
        /\ stream' = [stream EXCEPT ![r].st = "waitack", ![r].sent = 1]
    BY <1>2 DEF DevSyncAnswer
  <2> QED BY <1>2, <2>1, <2>2, WriteOn
<1>3. CASE ~IsSync(r) /\ DevStreamWrite(r)
  <2> DEFINE n == stream[r].sent + 1
  <2>1. /\ stream[r].st = "ready" /\ UNCHANGED out
        /\ DevWrites(Pkt("WRTE", r, stream[r].peer, <<r, n>>))
        /\ stream' = [stream EXCEPT ![r].st = "waitack", ![r].sent = n]
    BY <1>3 DEF DevStreamWrite
  <2>2. n \in Nat /\ n = stream[r].sent + 1
    BY <1>1
  <2> HIDE DEF n
  <2> QED BY <1>3, <2>1, <2>2, WriteOn
<1>4. CASE DevStreamEnd(r)
  <2>1. /\ stream[r].st # "none" /\ UNCHANGED out
        /\ DevWrites(Pkt("CLSE", r, stream[r].peer, NoData))
        /\ stream' = [stream EXCEPT ![r].st = "closed"]
    BY <1>4 DEF DevStreamEnd, IsOpen
  <2>2. PICK new : /\ OnlyChanges(r, new) /\ new = stream'[r]
                   /\ new.st = "closed" /\ new.sent = stream[r].sent
                   /\ new.service = stream[r].service
    BY <2>1, StatusSet DEF OnlyChanges
  <2>3. /\ inp \in Seq(Said') => inp' \in Seq(Said')
        /\ \A q \in RemoteIds : /\ None(inp, WritesOf(q)) => None(inp', WritesOf(q))
                                /\ Once(inp, WritesOf(q)) => Once(inp', WritesOf(q))
    BY <1>1, <2>1, <2>2, AnswerSaid
  <2>4. FlowOf(r)'
    <3>1. FlowOf(r)
      BY DEF CommandsInv, Flow
    <3> QED BY <2>1, <2>2, <2>3, <3>1 DEF FlowOf
  <2>5. pc \in {"read", "echo"} /\ remote = r => Piece'
    BY <2>2, <2>3, PieceSame
  <2>6. out' \in Seq(Asked)
    BY <2>1, InvParts
  <2> QED BY <2>1, <2>2, <2>3, <2>4, <2>5, <2>6, DevMoves
<1> QED BY <1>2, <1>3, <1>4 DEF Service

-----------------------------------------------------------------------------
LEMMA InitCommands == Init => CommandsInv
<1> SUFFICES ASSUME Init PROVE CommandsInv
  OBVIOUS
<1>1. /\ out = <<>> /\ inp = <<>> /\ \A r \in RemoteIds : stream[r] = NoStream
      /\ stream = [r \in RemoteIds |-> NoStream]
  BY DEF Init, WireInit
<1>2. NoStream \in Stream /\ NoStream.st = "none"
  BY NoDataType DEF NoStream, Stream
<1>3. WireTypeOK
  <2>1. stream \in [RemoteIds -> Stream]
    BY <1>1, <1>2
  <2> QED BY <1>1, <2>1 DEF WireTypeOK
<1>4. program \in Seq(DOMAIN Plan) /\ MaxCommands \in Nat
  BY CommandsAssumption DEF Init
<1>5. CommandsTypeOK
  BY <1>4 DEF Init, CommandsTypeOK, Calls, Statuses
<1>6. WireOK
  BY <1>1 DEF WireOK
<1>7. StreamsOK
  BY <1>1, <1>2 DEF StreamsOK
<1>8. CallOK
  BY DEF CallOK, Init, Busy
<1>9. Flow
  <2>1. ASSUME NEW r \in RemoteIds PROVE FlowOf(r)
    BY <1>1, EmptyNone DEF FlowOf
  <2> QED BY <2>1 DEF Flow
<1>10. Piece
  BY DEF Piece, Init
<1>11. OnePiece
  BY DEF OnePiece, Init
<1> QED BY <1>3, <1>5, <1>6, <1>7, <1>8, <1>9, <1>10, <1>11 DEF CommandsInv, TypeOK

LEMMA NextCommands == CommandsInv /\ [Next]_vars => CommandsInv'
<1> SUFFICES ASSUME CommandsInv, [Next]_vars PROVE CommandsInv'
  OBVIOUS
<1>1. CASE DevPacket /\ UNCHANGED commandVars
  BY <1>1, DevOpenKeeps, DevAckKeeps, DevRequestKeeps DEF DevPacket
<1>2. ASSUME NEW r \in RemoteIds, Service(r), UNCHANGED commandVars PROVE CommandsInv'
  BY <1>2, ServiceKeeps
<1>3. CASE Open
  BY <1>3, OpenKeeps
<1>4. CASE InteractiveShell
  BY <1>4, InteractiveKeeps
<1>5. CASE Abandon \/ CloseDevice
  BY <1>5, StopKeeps
<1>6. CASE Read
  BY <1>6, OpenAnswerKeeps, ReadOutputKeeps, WriteAnswerKeeps, ReadEchoKeeps,
     SyncWriteAnswerKeeps, SyncAnswerKeeps, SyncClosedKeeps, SkipKeeps, StopKeeps DEF Read
<1>7. CASE UNCHANGED vars
  BY <1>7 DEF CommandsInv, TypeOK, WireTypeOK, CommandsTypeOK, WireOK, Said, Asked, Numbered,
     IsSync, StreamsOK, CallOK, Known, Busy, Flow, FlowOf, Piece, OnePiece,
     vars, wireVars, commandVars, plan
<1> QED BY <1>1, <1>2, <1>3, <1>4, <1>5, <1>6, <1>7 DEF Next

THEOREM CommandsInvariant == Spec => []CommandsInv
BY InitCommands, NextCommands, PTL DEF Spec

(* Every variable of the commands and of the wire keeps its type: what the *)
(* host asks and what adbd answers are packets, whatever the calls leave   *)
(* unread (adb/adb_protocol.py, adb/adb_commands.py).                      *)
THEOREM CommandsTypeCorrect == Spec => []TypeOK
<1>1. CommandsInv => TypeOK
  BY DEF CommandsInv
<1> QED BY <1>1, CommandsInvariant, PTL

(* What one call yields is an unbroken piece of the output of a single     *)
(* stream, for any program: every call before it may have raised, been     *)
(* dropped after a yield, or timed out with its answers still to come, and *)
(* Open may take any stream's OKAY (the ids compared in ReadUntil).        *)
THEOREM AlwaysOnePiece == Spec => []OnePiece
<1>1. CommandsInv => OnePiece
  BY DEF CommandsInv
<1> QED BY <1>1, CommandsInvariant, PTL

LEMMA CountOf ==
  ASSUME NEW s, NEW S
  PROVE  /\ None(s, S) => Cardinality({i \in 1..Len(s) : s[i] \in S}) = 0
         /\ Once(s, S) => Cardinality({i \in 1..Len(s) : s[i] \in S}) = 1
<1>1. ASSUME None(s, S) PROVE {i \in 1..Len(s) : s[i] \in S} = {}
  BY <1>1 DEF None
<1>2. ASSUME Once(s, S) PROVE \E i \in 1..Len(s) : {j \in 1..Len(s) : s[j] \in S} = {i}
  BY <1>2 DEF Once
<1> QED BY <1>1, <1>2, FS_EmptySet, FS_Singleton

(* No packet is acknowledged twice, or before it is written, for any       *)
(* program: a stream has one WRTE or OKAY under way at most, and none      *)
(* while it may write (ReadUntil, Okay, and the calls that raise between). *)
THEOREM NeverAckedTwice == Spec => []NoDoubleAck
<1>1. CommandsInv => NoDoubleAck
  <2> SUFFICES ASSUME CommandsInv, NEW r \in RemoteIds
               PROVE  UnderWay(r) <= (IF stream[r].st = "ready" THEN 0 ELSE 1)
    BY DEF NoDoubleAck
  <2>1. \A i \in 1..Len(inp) : inp[i] \in Transfer
    BY InvParts
  <2>2. \A i \in 1..Len(out) : out[i] \in Packet
    BY InvParts
  <2>3. UnreadWrites(r) = {i \in 1..Len(inp) : inp[i] \in WritesOf(r)}
    BY <2>1, InHeaders DEF UnreadWrites, WritesOf
  <2>4. UnreadAcks(r) = {i \in 1..Len(out) : out[i] \in AcksOf(r)}
    BY <2>2, InSent DEF UnreadAcks, AcksOf
  <2>5. /\ None(inp, WritesOf(r)) => Cardinality(UnreadWrites(r)) = 0
        /\ Once(inp, WritesOf(r)) => Cardinality(UnreadWrites(r)) = 1
        /\ None(out, AcksOf(r)) => Cardinality(UnreadAcks(r)) = 0
        /\ Once(out, AcksOf(r)) => Cardinality(UnreadAcks(r)) = 1
    BY <2>3, <2>4, CountOf
  <2> QED BY <2>5 DEF CommandsInv, Flow, FlowOf, UnderWay
<1> QED BY <1>1, CommandsInvariant, PTL

-----------------------------------------------------------------------------
(* Every command that has ended returned or was refused, and the one under *)
(* way, if any, will neither drop its connection nor keep it.              *)
Finished == IF Busy THEN call - 1 ELSE call
InOrder ==
  /\ \A m \in 1..Finished : Tidy(m)
  /\ Busy => cmd[call] \notin {"interactive", "reboot"}

Over(r) == stream[r].st \in {"none", "closed"}
AllOver == \A r \in RemoteIds : Over(r)
OnlyOpen(r) ==
  /\ r \in RemoteIds /\ stream[r].service = <<call, 0>>
  /\ \A q \in RemoteIds \ {r} : Over(q)

(* Of what is over, n CLSE at most are to come or not read.                *)
Closes == {p \in Packet : p.cmd = "CLSE"}
Leaves == {p \in Packet : p.cmd \in {"OKAY", "CLSE"}}
CloseHeaders ==
  {t \in Transfer : t.kind = "header" /\ t.packet.cmd = "CLSE" /\ t.packet.data = NoData}
Left(asked, said, n) ==
  /\ asked \in Seq(Leaves)
  /\ said \in Seq(CloseHeaders)
  /\ \/ None(asked, Closes) /\ Len(said) <= n
     \/ Once(asked, Closes) /\ Len(said) + 1 <= n

(* What the stream r says: nothing comes after its CLSE.                   *)
Follows(said, r, st) ==
  \A i \in 1..Len(said) :
    /\ said[i].packet.arg0 = r
    /\ said[i].packet.cmd \in {"OKAY", "WRTE", "CLSE"}
    /\ said[i].packet.cmd = "CLSE" =>
         said[i] \in CloseHeaders /\ i = Len(said) /\ st = "closed"
    /\ said[i].kind = "payload" =>
         /\ said[i].packet.cmd = "WRTE"
         /\ i = 1 \/ said[i - 1] = Header(said[i].packet)

(* It has sent n packets, and perhaps one more that is not read.           *)
Told(said, r, sent, n) ==
  /\ None(said, WritesOf(r)) => sent = n
  /\ Once(said, WritesOf(r)) => sent = n + 1

OkaysOf(r) == Headers("OKAY", r)
Answered(said, r, st) ==
  /\ said # <<>>
  /\ Head(said) = Header(Pkt("OKAY", r, LocalId, NoData))
  /\ Follows(Tail(said), r, st) /\ None(Tail(said), OkaysOf(r))

(* A request: not yet read by adbd, refused, or accepted, behind n CLSE at *)
(* most of the streams before.                                             *)
Asking(n) ==
  /\ AllOver
  /\ \E s \in Seq(Packet) : out = Append(s, OpenMsg(call)) /\ Left(s, inp, n)
Refusing(n) == AllOver /\ out = <<>> /\ Left(out, inp, n + 1)
Opened(n, r) ==
  /\ OnlyOpen(r) /\ out = <<>> /\ Told(inp, r, stream[r].sent, 0)
  /\ \/ Answered(inp, r, stream[r].st)
     \/ /\ n = 1 /\ inp # <<>> /\ Head(inp) \in CloseHeaders
        /\ Answered(Tail(inp), r, stream[r].st)
Opening(n) == Asking(n) \/ Refusing(n) \/ \E r \in RemoteIds : Opened(n, r)

(* The response is read.                                                   *)
Acks == {p \in Packet : p.cmd = "OKAY"}
Replying ==
  /\ OnlyOpen(remote)
  /\ out \in Seq(Acks)
  /\ Follows(inp, remote, stream[remote].st) /\ None(inp, OkaysOf(remote))
  /\ data[call] = Chunks(remote, Len(data[call]))
  /\ Told(inp, remote, stream[remote].sent, Len(data[call]))

(* A WRTE of the host is under way, or its OKAY, or neither.               *)
PendsOf(r) == Sent("WRTE", r)
Turns(r) == {p \in Packet : p.cmd = "OKAY" \/ (p.cmd = "WRTE" /\ p.arg1 = r)}
Syncing ==
  /\ OnlyOpen(remote)
  /\ out \in Seq(Turns(remote))
  /\ Follows(inp, remote, stream[remote].st)
  /\ \/ None(inp, OkaysOf(remote)) /\ None(out, PendsOf(remote))
     \/ /\ pc = "sync_write"
        /\ \/ Once(inp, OkaysOf(remote)) /\ None(out, PendsOf(remote))
           \/ None(inp, OkaysOf(remote)) /\ Once(out, PendsOf(remote))

(* The answer of the service is taken, and its stream is asked to close.   *)
Parts(r) == {p \in Packet : p.cmd = "OKAY" \/ (p.cmd = "CLSE" /\ p.arg1 = r)}
Closing ==
  \/ AllOver /\ Left(out, inp, 2)
  \/ /\ OnlyOpen(remote) /\ Left(out, inp, 1) /\ inp = <<>> /\ out \in Seq(Parts(remote))
     /\ IsSync(remote) /\ stream[remote].sent # 0

(* No command leaves more than a CLSE behind.                              *)
Phases ==
  /\ service = 0 /\ pc \notin {"write", "echo"}
  /\ pc = "idle" => AllOver /\ Left(out, inp, 1)
  /\ pc = "open" => Opening(1)
  /\ pc = "open_again" => Opening(0)
  /\ pc = "read" => Replying /\ cmd[call] \notin SyncCommands
  /\ pc \in {"sync_write", "sync_read"} => Syncing
  /\ pc = "sync_close" => Closing
  /\ pc \in {"sync_write", "sync_read", "sync_close"} => cmd[call] \in SyncCommands
Orderly == InOrder => Phases

Unfinished == \A n \in Calls : n > Finished => status[n] = "none"
Responses ==
  \A n \in Calls :
    /\ status[n] = "returned" /\ cmd[n] \notin SyncCommands
    /\ \A m \in 1..n : Tidy(m)
    => \E r \in RemoteIds : /\ stream[r].st = "closed" /\ stream[r].service = <<n, 0>>
                            /\ data[n] = Chunks(r, stream[r].sent)

ResponseInv == Orderly /\ Unfinished /\ Responses

-----------------------------------------------------------------------------
LEMMA CloseIs ==
  ASSUME NEW t \in CloseHeaders
  PROVE  /\ t \in Transfer /\ t.kind = "header" /\ t.packet.cmd = "CLSE"
         /\ t.packet.data = NoData
         /\ \A r : t \notin WritesOf(r) /\ t \notin OkaysOf(r)
BY DEF CloseHeaders, WritesOf, OkaysOf, Headers

LEMMA CloseMade ==
  ASSUME NEW a \in Nat, NEW b \in Nat
  PROVE  /\ Pkt("CLSE", a, b, NoData) \in Packet
         /\ Header(Pkt("CLSE", a, b, NoData)) \in CloseHeaders
<1> DEFINE p == Pkt("CLSE", a, b, NoData)
<1>1. p \in Packet /\ p.cmd = "CLSE" /\ p.data = NoData
  BY NoDataType, PacketType
<1> HIDE DEF p
<1>2. Header(p) \in CloseHeaders
  BY <1>1, HeaderType DEF CloseHeaders
<1> QED BY <1>1, <1>2 DEF p

LEMMA SubTypes ==
  ASSUME NEW r
  PROVE  /\ CloseHeaders \subseteq Transfer /\ Leaves \subseteq Packet
         /\ Acks \subseteq Packet /\ Turns(r) \subseteq Packet
         /\ Acks \subseteq Leaves
BY DEF CloseHeaders, Leaves, Acks, Turns

LEMMA OnlyNone ==
  ASSUME NEW E, NEW s \in Seq(E), NEW S, \A e \in E : e \notin S
  PROVE  None(s, S)
BY DEF None

(* Less of what is left is left.                                           *)
LEMMA LeftLess ==
  ASSUME NEW asked, NEW said, NEW n \in Nat, NEW m \in Nat, Left(asked, said, n), n <= m
  PROVE  Left(asked, said, m)
<1>1. Len(said) \in Nat
  BY DEF Left
<1> QED BY <1>1 DEF Left

LEMMA LeftTake ==
  ASSUME NEW asked, NEW said, NEW n \in Nat, Left(asked, said, n), said # <<>>
  PROVE  Left(asked, Tail(said), n - 1)
<1>1. Tail(said) \in Seq(CloseHeaders) /\ Len(said) \in Nat /\ Len(Tail(said)) = Len(said) - 1
  BY TakeItem DEF Left
<1> QED BY <1>1 DEF Left

(* adbd takes the first packet asked.                                      *)
LEMMA LeftAnswer ==
  ASSUME NEW asked, NEW said, NEW said2, NEW n \in Nat, Left(asked, said, n), asked # <<>>,
         \/ said2 = said
         \/ Head(asked).cmd = "CLSE" /\ \E t \in CloseHeaders : said2 = Append(said, t)
  PROVE  Left(Tail(asked), said2, n)
<1>1. /\ asked \in Seq(Leaves) /\ Tail(asked) \in Seq(Leaves) /\ Head(asked) \in Packet
      /\ said \in Seq(CloseHeaders) /\ Len(said) \in Nat
  BY TakeItem, SubTypes DEF Left
<1>2. /\ None(asked, Closes) => None(Tail(asked), Closes)
      /\ Once(asked, Closes) => IF Head(asked) \in Closes THEN None(Tail(asked), Closes)
                                ELSE Once(Tail(asked), Closes)
  BY <1>1, TakeKeeps
<1>3. CASE said2 = said
  BY <1>1, <1>2, <1>3 DEF Left
<1>4. ASSUME NEW t \in CloseHeaders, Head(asked).cmd = "CLSE", said2 = Append(said, t)
      PROVE  Left(Tail(asked), said2, n)
  <2>1. said2 \in Seq(CloseHeaders) /\ Len(said2) = Len(said) + 1
    BY <1>1, <1>4, AddItem
  <2>2. Head(asked) \in Closes
    BY <1>1, <1>4 DEF Closes
  <2>3. ~None(asked, Closes)
    BY <1>1, <2>2, TakeFound
  <2> QED BY <1>1, <1>2, <2>1, <2>2, <2>3 DEF Left
<1> QED BY <1>3, <1>4

-----------------------------------------------------------------------------
(* What follows on a stream, when it is read and when it goes on.          *)
LEMMA FollowsTake ==
  ASSUME NEW said \in Seq(Transfer), said # <<>>, NEW r, NEW st, Follows(said, r, st)
  PROVE  Follows(Tail(said), r, st)
<1> DEFINE t == Tail(said)
<1>1. /\ Len(said) \in Nat /\ Len(t) = Len(said) - 1
      /\ \A i \in 1..Len(t) : t[i] = said[i + 1]
  BY TakeItem
<1> HIDE DEF t
<1>2. ASSUME NEW i \in 1..Len(t)
      PROVE  /\ t[i].packet.arg0 = r
             /\ t[i].packet.cmd \in {"OKAY", "WRTE", "CLSE"}
             /\ t[i].packet.cmd = "CLSE" => t[i] \in CloseHeaders /\ i = Len(t) /\ st = "closed"
             /\ t[i].kind = "payload" =>
                  t[i].packet.cmd = "WRTE" /\ (i = 1 \/ t[i - 1] = Header(t[i].packet))
  <2>1. i + 1 \in 1..Len(said) /\ t[i] = said[i + 1]
    BY <1>1
  <2>2. /\ said[i + 1].packet.arg0 = r
        /\ said[i + 1].packet.cmd \in {"OKAY", "WRTE", "CLSE"}
        /\ said[i + 1].packet.cmd = "CLSE" =>
             said[i + 1] \in CloseHeaders /\ i + 1 = Len(said) /\ st = "closed"
        /\ said[i + 1].kind = "payload" =>
             /\ said[i + 1].packet.cmd = "WRTE"
             /\ i + 1 = 1 \/ said[(i + 1) - 1] = Header(said[i + 1].packet)
    BY <2>1 DEF Follows
  <2>3. i = Len(t) <=> i + 1 = Len(said)
    BY <1>1
  <2>4. i # 1 => t[i - 1] = said[(i + 1) - 1]
    <3>1. i # 1 => i - 1 \in 1..Len(t) /\ (i - 1) + 1 = (i + 1) - 1
      BY <1>1
    <3> QED BY <1>1, <3>1
  <2>5. i + 1 # 1
    OBVIOUS
  <2> QED BY <2>1, <2>2, <2>3, <2>4, <2>5
<1>3. Follows(t, r, st)
  BY <1>2 DEF Follows
<1> QED BY <1>3 DEF t

LEMMA FollowsRead ==
  ASSUME inp \in Seq(Transfer), NEW cmds, Reads(cmds), NEW r, NEW st, Follows(inp, r, st)
  PROVE  Follows(inp', r, st)
<1>1. inp # <<>> /\ (inp' = Tail(inp) \/ (Tail(inp) # <<>> /\ inp' = Tail(Tail(inp))))
  BY ReadTakes
<1>2. Tail(inp) \in Seq(Transfer) /\ Follows(Tail(inp), r, st)
  BY <1>1, TakeItem, FollowsTake
<1> QED BY <1>1, <1>2, FollowsTake

LEMMA AddHeader ==
  ASSUME NEW said \in Seq(Transfer), NEW p \in Packet, NEW more, Adds(said, p, more),
         p.data = NoData
  PROVE  more = Append(said, Header(p))
BY DEF Adds, Transfers

LEMMA AddBehind ==
  ASSUME NEW said \in Seq(Transfer), NEW p \in Packet, NEW more, Adds(said, p, more),
         said # <<>>
  PROVE  /\ more # <<>> /\ Head(more) = Head(said)
         /\ Tail(said) \in Seq(Transfer) /\ Adds(Tail(said), p, Tail(more))
<1>1. Transfers(p) \in Seq(Transfer)
  BY HeaderType DEF Transfers
<1> QED BY <1>1 DEF Adds

LEMMA FollowsAdd ==
  ASSUME NEW said \in Seq(Transfer), NEW p \in Packet, NEW more, Adds(said, p, more),
         NEW r, NEW st, NEW new, Follows(said, r, st), st # "closed",
         p.arg0 = r, p.cmd \in {"OKAY", "WRTE", "CLSE"}, p.cmd # "WRTE" => p.data = NoData,
         p.cmd = "CLSE" => new = "closed"
  PROVE  Follows(more, r, new)
<1> DEFINE h == Header(p)
           l == [kind |-> "payload", packet |-> p]
<1>1. /\ Len(said) \in Nat /\ Len(more) \in Nat
      /\ \A i \in 1..Len(said) : more[i] = said[i]
      /\ more[Len(said) + 1] = h
      /\ IF p.data = NoData THEN Len(more) = Len(said) + 1
         ELSE Len(more) = Len(said) + 2 /\ more[Len(said) + 2] = l
  BY AddTransfers
<1>2. h \in Transfer /\ h.packet = p /\ h.kind = "header" /\ l.packet = p /\ l.kind = "payload"
  BY HeaderType
<1>3. p.cmd = "CLSE" => h \in CloseHeaders
  BY <1>2 DEF CloseHeaders
<1> HIDE DEF h, l
<1>4. ASSUME NEW i \in 1..Len(more)
      PROVE  /\ more[i].packet.arg0 = r
             /\ more[i].packet.cmd \in {"OKAY", "WRTE", "CLSE"}
             /\ more[i].packet.cmd = "CLSE" =>
                  more[i] \in CloseHeaders /\ i = Len(more) /\ new = "closed"
             /\ more[i].kind = "payload" =>
                  more[i].packet.cmd = "WRTE" /\ (i = 1 \/ more[i - 1] = Header(more[i].packet))
  <2>1. CASE i \in 1..Len(said)
    <3>1. /\ said[i].packet.arg0 = r
          /\ said[i].packet.cmd \in {"OKAY", "WRTE"}
          /\ said[i].kind = "payload" =>
               said[i].packet.cmd = "WRTE" /\ (i = 1 \/ said[i - 1] = Header(said[i].packet))
      BY <2>1 DEF Follows
    <3>2. i # 1 => i - 1 \in 1..Len(said)
      BY <2>1
    <3>3. more[i] = said[i] /\ (i # 1 => more[i - 1] = said[i - 1])
      BY <1>1, <2>1, <3>2
    <3> QED BY <3>1, <3>3
  <2>2. CASE i = Len(said) + 1
    <3>1. more[i] = h
      BY <1>1, <2>2
    <3>2. p.cmd = "CLSE" => i = Len(more)
      BY <1>1, <2>2
    <3> QED BY <1>2, <1>3, <3>1, <3>2
  <2>3. CASE i = Len(said) + 2 /\ i \notin 1..Len(said)
    <3>1. p.data # NoData /\ more[i] = l
      BY <1>1, <2>3
    <3>2. more[i - 1] = h
      BY <1>1, <2>3
    <3> QED BY <1>2, <3>1, <3>2 DEF h
  <2> QED BY <1>1, <2>1, <2>2, <2>3
<1> QED BY <1>4 DEF Follows

LEMMA ToldAdd ==
  ASSUME NEW said \in Seq(Transfer), NEW p \in Packet, NEW more, Adds(said, p, more),
         NEW r, NEW sent, NEW new, NEW n, Told(said, r, sent, n),
         None(said, WritesOf(r)) \/ Once(said, WritesOf(r)),
         IF p.cmd = "WRTE" /\ p.arg0 = r THEN None(said, WritesOf(r)) /\ new = sent + 1
         ELSE new = sent
  PROVE  Told(more, r, new, n)
<1>1. CASE p.cmd = "WRTE" /\ p.arg0 = r
  <2>1. Once(more, WritesOf(r))
    BY <1>1, AddTransfersKeeps DEF WritesOf
  <2>2. sent = n /\ new = sent + 1
    BY <1>1 DEF Told
  <2> QED BY <2>1, <2>2, NotBoth DEF Told
<1>2. CASE ~(p.cmd = "WRTE" /\ p.arg0 = r)
  <2>1. /\ None(said, WritesOf(r)) => None(more, WritesOf(r))
        /\ Once(said, WritesOf(r)) => Once(more, WritesOf(r))
    BY <1>2, AddTransfersKeeps DEF WritesOf
  <2> QED BY <1>2, <2>1, NotBoth DEF Told
<1> QED BY <1>1, <1>2

-----------------------------------------------------------------------------
(* What adbd and its services do to the streams and to the pipe.           *)
LEMMA StreamMoves ==
  ASSUME CommandsInv, DevAck \/ DevHostWrite \/ DevCloseRequest
  PROVE  /\ out # <<>> /\ out' = Tail(out) /\ Frame \in Packet /\ Frame.arg1 \in RemoteIds
         /\ \A q \in RemoteIds :
              /\ stream'[q].service = stream[q].service /\ stream'[q].sent = stream[q].sent
              /\ Over(q) => stream'[q].st = stream[q].st
<1>1. /\ out # <<>> /\ out' = Tail(out) /\ Frame.cmd # "OPEN"
      /\ \/ UNCHANGED stream
         \/ /\ stream[Frame.arg1].st = "waitack"
            /\ stream' = [stream EXCEPT ![Frame.arg1].st = "ready"]
         \/ stream' = [stream EXCEPT ![Frame.arg1].got = Append(@, Frame.data)]
         \/ IsOpen(Frame.arg1) /\ stream' = [stream EXCEPT ![Frame.arg1].st = "closed"]
  BY DEF DevAck, DevHostWrite, DevCloseRequest, Receives
<1>2. /\ Frame \in Packet /\ Frame.arg1 \in RemoteIds /\ Frame.data \in Data
      /\ stream[Frame.arg1].st # "none"
  BY <1>1, FrameKnown DEF Known
<1>3. PICK r \in RemoteIds : r = Frame.arg1
  BY <1>2
<1>4. PICK d \in Data : d = Frame.data
  BY <1>2
<1>5. CASE UNCHANGED stream
  BY <1>1, <1>2, <1>5
<1>6. CASE stream[r].st = "waitack" /\ stream' = [stream EXCEPT ![r].st = "ready"]
  <2>1. /\ OnlyChanges(r, [stream[r] EXCEPT !.st = "ready"])
        /\ stream'[r].service = stream[r].service /\ stream'[r].sent = stream[r].sent
    BY <1>6, StatusSet
  <2> QED BY <1>1, <1>2, <1>6, <2>1 DEF OnlyChanges, Over
<1>7. CASE stream' = [stream EXCEPT ![r].got = Append(@, d)]
  <2>1. /\ OnlyChanges(r, [stream[r] EXCEPT !.got = Append(stream[r].got, d)])
        /\ stream'[r].service = stream[r].service /\ stream'[r].sent = stream[r].sent
        /\ stream'[r].st = stream[r].st
    BY <1>7, GotSet
  <2> QED BY <1>1, <1>2, <2>1 DEF OnlyChanges, Over
<1>8. CASE IsOpen(r) /\ stream' = [stream EXCEPT ![r].st = "closed"]
  <2>1. /\ OnlyChanges(r, [stream[r] EXCEPT !.st = "closed"])
        /\ stream'[r].service = stream[r].service /\ stream'[r].sent = stream[r].sent
    BY <1>8, StatusSet
  <2>2. ~Over(r)
    BY <1>8 DEF IsOpen, Over
  <2> QED BY <1>1, <1>2, <2>1, <2>2 DEF OnlyChanges, Over
<1> QED BY <1>1, <1>3, <1>4, <1>5, <1>6, <1>7, <1>8

(* A service writes, or ends its stream.                                   *)
LEMMA ServiceWrites ==
  ASSUME CommandsInv, NEW r \in RemoteIds, Service(r)
  PROVE  /\ UNCHANGED out /\ ~Over(r)
         /\ \A q \in RemoteIds : q # r => stream'[q] = stream[q]
         /\ stream'[r].service = stream[r].service
         /\ \E p \in Packet :
              /\ Adds(inp, p, inp') /\ p.arg0 = r
              /\ \/ /\ p.cmd = "WRTE" /\ stream[r].st = "ready"
                    /\ stream'[r].sent = stream[r].sent + 1
                    /\ IsSync(r) => stream[r].sent = 0
                 \/ /\ p.cmd = "CLSE" /\ p.data = NoData
                    /\ stream'[r].st = "closed" /\ stream'[r].sent = stream[r].sent
<1>1. stream[r].sent \in Nat /\ stream[r].peer \in Nat /\ r \in Nat
  BY StreamType
<1>2. ASSUME NEW k \in Nat, NEW n \in Nat, stream[r].st = "ready", UNCHANGED out,
             n = stream[r].sent + 1, IsSync(r) => stream[r].sent = 0,
             stream' = [stream EXCEPT ![r].st = "waitack", ![r].sent = n],
             DevWrites(Pkt("WRTE", r, stream[r].peer, <<r, k>>))
      PROVE  /\ UNCHANGED out /\ ~Over(r)
             /\ \A q \in RemoteIds : q # r => stream'[q] = stream[q]
             /\ stream'[r].service = stream[r].service
             /\ \E p \in Packet :
                  /\ Adds(inp, p, inp') /\ p.arg0 = r
                  /\ p.cmd = "WRTE" /\ stream[r].st = "ready"
                  /\ stream'[r].sent = stream[r].sent + 1
                  /\ IsSync(r) => stream[r].sent = 0
  <2> DEFINE d == <<r, k>>
             p == Pkt("WRTE", r, stream[r].peer, d)
  <2>1. d \in Data
    BY <1>1, PairType
  <2> HIDE DEF d
  <2>2. p \in Packet /\ p.cmd = "WRTE" /\ p.arg0 = r
    BY <1>1, <2>1, PacketType
  <2>3. Adds(inp, p, inp')
    BY <1>2 DEF Adds, DevWrites, d
  <2> HIDE DEF p
  <2>4. /\ OnlyChanges(r, [stream[r] EXCEPT !.st = "waitack", !.sent = n])
        /\ stream'[r].service = stream[r].service /\ stream'[r].sent = n
    BY <1>2, SentSet
  <2>5. ~Over(r)
    BY <1>2 DEF Over
  <2> QED BY <1>2, <2>2, <2>3, <2>4, <2>5 DEF OnlyChanges
<1>3. CASE IsSync(r) /\ DevSyncAnswer(r)
  <2>1. PICK answer \in {1, 2} : DevWrites(Pkt("WRTE", r, stream[r].peer, <<r, answer>>))
    BY <1>3 DEF DevSyncAnswer
  <2>2. /\ stream[r].st = "ready" /\ stream[r].sent = 0 /\ UNCHANGED out
        /\ stream' = [stream EXCEPT ![r].st = "waitack", ![r].sent = 1]
    BY <1>3 DEF DevSyncAnswer
  <2>3. answer \in Nat /\ 1 \in Nat /\ 1 = stream[r].sent + 1
    BY <2>2
  <2> QED BY <1>2, <2>1, <2>2, <2>3
<1>4. CASE ~IsSync(r) /\ DevStreamWrite(r)
  <2> DEFINE n == stream[r].sent + 1
  <2>1. /\ stream[r].st = "ready" /\ UNCHANGED out
        /\ DevWrites(Pkt("WRTE", r, stream[r].peer, <<r, n>>))
        /\ stream' = [stream EXCEPT ![r].st = "waitack", ![r].sent = n]
    BY <1>4 DEF DevStreamWrite
  <2>2. n \in Nat /\ n = stream[r].sent + 1
    BY <1>1
  <2> HIDE DEF n
  <2> QED BY <1>2, <1>4, <2>1, <2>2
<1>5. CASE DevStreamEnd(r)
  <2> DEFINE p == Pkt("CLSE", r, stream[r].peer, NoData)
  <2>1. p \in Packet /\ p.cmd = "CLSE" /\ p.arg0 = r /\ p.data = NoData
    BY <1>1, NoDataType, PacketType
  <2>2. Adds(inp, p, inp') /\ UNCHANGED out /\ ~Over(r)
    BY <1>5 DEF Adds, DevWrites, DevStreamEnd, IsOpen, Over
  <2> HIDE DEF p
  <2>3. /\ OnlyChanges(r, [stream[r] EXCEPT !.st = "closed"])
        /\ stream'[r].st = "closed"
        /\ stream'[r].service = stream[r].service /\ stream'[r].sent = stream[r].sent
    BY <1>5, StatusSet DEF DevStreamEnd
  <2> QED BY <2>1, <2>2, <2>3 DEF OnlyChanges
<1> QED BY <1>3, <1>4, <1>5 DEF Service

(* Once every stream is over, adbd only answers what is left.              *)
LEMMA SettledAnswer ==
  ASSUME CommandsInv, DevPacket, AllOver, NEW asked, asked # <<>>, NEW n \in Nat,
         Left(asked, inp, n), Frame = Head(asked)
  PROVE  /\ out # <<>> /\ out' = Tail(out) /\ AllOver'
         /\ \A q \in RemoteIds : /\ stream'[q].service = stream[q].service
                                 /\ stream'[q].sent = stream[q].sent
         /\ Left(Tail(asked), inp', n)
<1>1. Frame.cmd \in {"OKAY", "CLSE"}
  BY TakeItem DEF Left, Leaves
<1>2. DevAck \/ DevCloseRequest
  BY <1>1 DEF DevPacket, DevOpen, DevHostWrite, Receives
<1>3. /\ out # <<>> /\ out' = Tail(out) /\ Frame \in Packet /\ Frame.arg1 \in RemoteIds
      /\ \A q \in RemoteIds :
           /\ stream'[q].service = stream[q].service /\ stream'[q].sent = stream[q].sent
           /\ Over(q) => stream'[q].st = stream[q].st
  BY <1>2, StreamMoves
<1>4. AllOver'
  BY <1>3 DEF AllOver, Over
<1>5. inp' = inp \/ (Head(asked).cmd = "CLSE" /\ \E t \in CloseHeaders : inp' = Append(inp, t))
  <2>1. CASE DevAck
    BY <2>1 DEF DevAck
  <2>2. CASE DevCloseRequest /\ ~(UNCHANGED inp)
    <3> DEFINE p == Pkt("CLSE", Frame.arg1, Frame.arg0, NoData)
    <3>1. Frame.arg1 \in Nat /\ Frame.arg0 \in Nat
      BY <1>3, PacketParts
    <3>2. p \in Packet /\ Header(p) \in CloseHeaders /\ p.data = NoData
      BY <3>1, CloseMade, NoDataType, PacketType
    <3>3. Adds(inp, p, inp') /\ Frame.cmd = "CLSE"
      BY <2>2 DEF DevCloseRequest, DevWrites, Adds, Receives
    <3> HIDE DEF p
    <3>4. inp' = Append(inp, Header(p))
      <4>1. inp \in Seq(Transfer)
        BY InvParts
      <4> QED BY <3>2, <3>3, <4>1, AddHeader
    <3> QED BY <3>2, <3>3, <3>4
  <2> QED BY <1>2, <2>1, <2>2
<1>6. Left(Tail(asked), inp', n)
  BY <1>5, LeftAnswer
<1> QED BY <1>3, <1>4, <1>6

LEMMA SettledService ==
  ASSUME CommandsInv, AllOver, NEW r \in RemoteIds
  PROVE  ~Service(r)
BY ServiceWrites DEF AllOver

-----------------------------------------------------------------------------
(* The steps of adbd while a command is opened.                            *)
LEMMA LeftDev ==
  ASSUME CommandsInv, DevPacket, AllOver, NEW n \in Nat, Left(out, inp, n)
  PROVE  AllOver' /\ Left(out', inp', n)
<1>1. out # <<>>
  BY DEF DevPacket, DevOpen, DevAck, DevHostWrite, DevCloseRequest, Receives
<1> QED BY <1>1, SettledAnswer DEF Frame

LEMMA AnsweredOnly ==
  ASSUME NEW r, NEW st, NEW h, h = Header(Pkt("OKAY", r, LocalId, NoData))
  PROVE  Answered(<<h>>, r, st)
<1>1. <<h>> # <<>> /\ Head(<<h>>) = h /\ Tail(<<h>>) = <<>>
  OBVIOUS
<1>2. Follows(<<>>, r, st)
  BY DEF Follows
<1> QED BY <1>1, <1>2, EmptyNone DEF Answered

LEMMA AfterClose ==
  ASSUME NEW said \in Seq(CloseHeaders), Len(said) <= 1, NEW h
  PROVE  \/ Append(said, h) = <<h>>
         \/ /\ Len(said) = 1 /\ Append(said, h) # <<>>
            /\ Head(Append(said, h)) \in CloseHeaders /\ Tail(Append(said, h)) = <<h>>
<1>1. CASE said = <<>>
  BY <1>1
<1>2. CASE said # <<>>
  <2> DEFINE E == CloseHeaders
  <2>1. /\ Tail(said) \in Seq(CloseHeaders) /\ Len(said) = 1 /\ Len(Tail(said)) = 0
        /\ Head(said) \in CloseHeaders
    <3>1. said \in Seq(E)
      OBVIOUS
    <3> HIDE DEF E
    <3>2. /\ Tail(said) \in Seq(E) /\ Head(said) \in E /\ Len(said) \in Nat
          /\ Len(said) >= 1 /\ Len(Tail(said)) = Len(said) - 1
      BY <1>2, <3>1, TakeItem
    <3> QED BY <3>2 DEF E
  <2>2. Tail(said) = <<>>
    BY <2>1, EmptySeq
  <2>3. /\ Append(said, h) # <<>> /\ Head(Append(said, h)) = Head(said)
        /\ Tail(Append(said, h)) = Append(Tail(said), h)
    BY <1>2
  <2>4. Append(<<>>, h) = <<h>>
    OBVIOUS
  <2> QED BY <2>1, <2>2, <2>3, <2>4
<1> QED BY <1>1, <1>2

LEMMA OpenAccepted ==
  ASSUME CommandsInv, AllOver, UNCHANGED call, out' = <<>>,
         NEW n \in 0..1, inp \in Seq(CloseHeaders), Len(inp) <= n,
         NEW r \in RemoteIds,
         stream' = [stream EXCEPT ![r] =
                      [st |-> "ready", peer |-> LocalId, service |-> <<call, 0>>,
                       sent |-> 0, got |-> <<>>]],
         DevWrites(Pkt("OKAY", r, LocalId, NoData))
  PROVE  Opened(n, r)'
<1> DEFINE p == Pkt("OKAY", r, LocalId, NoData)
           h == Header(p)
<1>1. p \in Packet /\ p.cmd = "OKAY" /\ p.data = NoData /\ r \in Nat
  BY StreamType, NoDataType, PacketType DEF LocalId
<1>2. inp \in Seq(Transfer) /\ stream \in [RemoteIds -> Stream] /\ Len(inp) \in Nat
  BY InvParts, StreamType
<1>3. Adds(inp, p, inp')
  BY DEF Adds, DevWrites
<1>4. h = Header(Pkt("OKAY", r, LocalId, NoData))
  OBVIOUS
<1> HIDE DEF p
<1>5. inp' = Append(inp, h)
  BY <1>1, <1>2, <1>3, AddHeader
<1> HIDE DEF h
<1>6. /\ stream'[r].service = <<call, 0>> /\ stream'[r].sent = 0
      /\ \A q \in RemoteIds : q # r => stream'[q] = stream[q]
  BY <1>2
<1>7. OnlyOpen(r)'
  BY <1>6 DEF OnlyOpen, AllOver, Over
<1>8. Told(inp', r, 0, 0)
  <2>1. None(inp, WritesOf(r))
    BY CloseIs, OnlyNone
  <2>2. None(inp', WritesOf(r))
    BY <1>1, <1>2, <1>3, <2>1, AddTransfersKeeps DEF WritesOf
  <2> QED BY <2>2, NotBoth DEF Told
<1>9. Answered(<<h>>, r, stream'[r].st)
  BY <1>4, AnsweredOnly
<1>10. \/ inp' = <<h>>
       \/ n = 1 /\ inp' # <<>> /\ Head(inp') \in CloseHeaders /\ Tail(inp') = <<h>>
  <2>1. n = 1 \/ n = 0
    OBVIOUS
  <2> QED BY <1>2, <1>5, <2>1, AfterClose
<1> QED BY <1>6, <1>7, <1>8, <1>9, <1>10 DEF Opened

LEMMA AskingDev ==
  ASSUME CommandsInv, DevPacket, UNCHANGED call, NEW n \in 0..1, Asking(n)
  PROVE  Opening(n)'
<1> DEFINE m == OpenMsg(call)
<1>1. PICK s \in Seq(Packet) : out = Append(s, m) /\ Left(s, inp, n)
  BY DEF Asking
<1>2. m \in Packet /\ m.cmd = "OPEN" /\ m.arg0 = LocalId /\ m.data = <<call, 0>>
  BY InvParts, MsgTypes
<1>3. AllOver /\ n \in Nat
  BY DEF Asking
<1>4. CASE s # <<>>
  <2>1. Head(out) = Head(s) /\ Tail(out) = Append(Tail(s), m) /\ Tail(s) \in Seq(Packet)
    BY <1>1, <1>2, <1>4
  <2>2. out' = Tail(out) /\ AllOver' /\ Left(Tail(s), inp', n)
    BY <1>1, <1>3, <1>4, <2>1, SettledAnswer DEF Frame
  <2>3. Asking(n)'
    BY <2>1, <2>2 DEF Asking
  <2> QED BY <2>3 DEF Opening
<1>5. CASE s = <<>>
  <2>1. Frame = m /\ Tail(out) = <<>>
    BY <1>1, <1>5 DEF Frame
  <2>2. DevOpen /\ out' = <<>>
    BY <1>2, <2>1 DEF DevPacket, DevOpen, DevAck, DevHostWrite, DevCloseRequest, Receives
  <2>3. inp \in Seq(CloseHeaders) /\ Len(inp) <= n /\ Len(inp) \in Nat
    BY <1>1, <1>5 DEF Left, Once
  <2> HIDE DEF m
  <2>4. ASSUME NEW r \in RemoteIds,
               stream' = [stream EXCEPT ![r] =
                 [st |-> "ready", peer |-> Frame.arg0, service |-> Frame.data,
                  sent |-> 0, got |-> <<>>]],
               DevWrites(Pkt("OKAY", r, Frame.arg0, NoData))
        PROVE  Opened(n, r)'
    BY <1>2, <1>3, <2>1, <2>2, <2>3, <2>4, OpenAccepted
  <2>5. ASSUME DevWrites(Pkt("CLSE", 0, Frame.arg0, NoData)), UNCHANGED stream
        PROVE  Refusing(n)'
    <3> DEFINE p == Pkt("CLSE", 0, LocalId, NoData)
    <3>1. p \in Packet /\ Header(p) \in CloseHeaders /\ p.data = NoData
      BY CloseMade, NoDataType, PacketType DEF LocalId
    <3>2. Adds(inp, p, inp')
      BY <1>2, <2>1, <2>5 DEF DevWrites, Adds
    <3> HIDE DEF p
    <3>3. inp' = Append(inp, Header(p))
      BY <3>1, <3>2, AddHeader, InvParts
    <3>4. inp' \in Seq(CloseHeaders) /\ Len(inp') <= n + 1
      BY <2>3, <3>1, <3>3
    <3>5. Left(<<>>, inp', n + 1)
      BY <3>4, EmptyNone DEF Left
    <3>6. AllOver'
      BY <1>3, <2>5 DEF AllOver, Over
    <3> QED BY <2>2, <3>5, <3>6 DEF Refusing
  <2> QED BY <2>2, <2>4, <2>5 DEF DevOpen, Opening
<1> QED BY <1>4, <1>5

-----------------------------------------------------------------------------
(* The steps of adbd while a stream is open.                               *)
LEMMA FollowsStill ==
  ASSUME NEW said, NEW r, NEW st, NEW new, Follows(said, r, st), st = "closed" => new = "closed"
  PROVE  Follows(said, r, new)
BY DEF Follows

LEMMA AnsweredAdd ==
  ASSUME NEW said \in Seq(Transfer), NEW p \in Packet, NEW more, Adds(said, p, more),
         NEW r, NEW st, NEW new, Answered(said, r, st), st # "closed",
         p.arg0 = r, p.cmd \in {"WRTE", "CLSE"},
         p.cmd = "CLSE" => p.data = NoData /\ new = "closed"
  PROVE  Answered(more, r, new)
<1>1. /\ said # <<>> /\ Head(said) = Header(Pkt("OKAY", r, LocalId, NoData))
      /\ Follows(Tail(said), r, st) /\ None(Tail(said), OkaysOf(r))
  BY DEF Answered
<1>2. /\ more # <<>> /\ Head(more) = Head(said) /\ Adds(Tail(said), p, Tail(more))
      /\ Tail(said) \in Seq(Transfer)
  BY <1>1, AddBehind
<1>3. p.cmd \in {"OKAY", "WRTE", "CLSE"} /\ (p.cmd # "WRTE" => p.data = NoData)
  OBVIOUS
<1>4. Follows(Tail(more), r, new)
  BY <1>1, <1>2, <1>3, FollowsAdd
<1>5. None(Tail(more), OkaysOf(r))
  <2>1. p.cmd # "OKAY"
    OBVIOUS
  <2> QED BY <1>1, <1>2, <2>1, AddTransfersKeeps DEF OkaysOf
<1> QED BY <1>1, <1>2, <1>4, <1>5 DEF Answered

(* What a service adds to what its stream said.                            *)
LEMMA ServiceAdds ==
  ASSUME CommandsInv, NEW q \in RemoteIds, Service(q), UNCHANGED call, NEW r, OnlyOpen(r)
  PROVE  /\ q = r /\ UNCHANGED out /\ ~Over(r) /\ OnlyOpen(r)'
         /\ stream'[r].service = stream[r].service
         /\ \A n : Told(inp, r, stream[r].sent, n) => Told(inp', r, stream'[r].sent, n)
         /\ \E p \in Packet :
              /\ Adds(inp, p, inp') /\ p.arg0 = r /\ p.cmd \in {"WRTE", "CLSE"}
              /\ p.cmd = "CLSE" => p.data = NoData /\ stream'[r].st = "closed"
                                   /\ stream'[r].sent = stream[r].sent
              /\ IsSync(r) /\ stream[r].sent # 0 => p.cmd = "CLSE"
<1>1. /\ UNCHANGED out /\ ~Over(q)
      /\ \A x \in RemoteIds : x # q => stream'[x] = stream[x]
      /\ stream'[q].service = stream[q].service
  BY ServiceWrites
<1>2. PICK p \in Packet :
        /\ Adds(inp, p, inp') /\ p.arg0 = q
        /\ \/ /\ p.cmd = "WRTE" /\ stream[q].st = "ready"
              /\ stream'[q].sent = stream[q].sent + 1
              /\ IsSync(q) => stream[q].sent = 0
           \/ /\ p.cmd = "CLSE" /\ p.data = NoData
              /\ stream'[q].st = "closed" /\ stream'[q].sent = stream[q].sent
  BY ServiceWrites
<1>3. q = r
  BY <1>1 DEF OnlyOpen
<1>4. OnlyOpen(r)'
  BY <1>1, <1>3 DEF OnlyOpen, Over
<1>5. ASSUME NEW n, Told(inp, r, stream[r].sent, n)
      PROVE  Told(inp', r, stream'[r].sent, n)
  <2>1. /\ None(inp, WritesOf(r)) \/ Once(inp, WritesOf(r))
        /\ stream[r].st = "ready" => None(inp, WritesOf(r))
    BY <1>3 DEF CommandsInv, Flow, FlowOf
  <2>2. inp \in Seq(Transfer)
    BY InvParts
  <2>3. IF p.cmd = "WRTE" /\ p.arg0 = r
          THEN None(inp, WritesOf(r)) /\ stream'[r].sent = stream[r].sent + 1
          ELSE stream'[r].sent = stream[r].sent
    BY <1>2, <1>3, <2>1
  <2> QED BY <1>2, <1>5, <2>1, <2>2, <2>3, ToldAdd
<1> QED BY <1>1, <1>2, <1>3, <1>4, <1>5

LEMMA ServiceFollows ==
  ASSUME CommandsInv, NEW q \in RemoteIds, Service(q), UNCHANGED call, NEW r, OnlyOpen(r),
         Follows(inp, r, stream[r].st)
  PROVE  /\ Follows(inp', r, stream'[r].st)
         /\ None(inp, OkaysOf(r)) => None(inp', OkaysOf(r))
         /\ Once(inp, OkaysOf(r)) => Once(inp', OkaysOf(r))
<1> DEFINE st == stream[r].st
           new == stream'[r].st
<1>1. PICK p \in Packet :
        /\ Adds(inp, p, inp') /\ p.arg0 = r /\ p.cmd \in {"WRTE", "CLSE"}
        /\ p.cmd = "CLSE" => p.data = NoData /\ new = "closed"
  BY ServiceAdds
<1>2. /\ st # "closed" /\ p.cmd \in {"OKAY", "WRTE", "CLSE"} /\ p.cmd # "OKAY"
      /\ p.cmd # "WRTE" => p.data = NoData
      /\ Follows(inp, r, st) /\ inp \in Seq(Transfer)
  BY <1>1, ServiceAdds, InvParts DEF Over
<1> HIDE DEF st, new
<1>3. Follows(inp', r, new)
  BY <1>1, <1>2, FollowsAdd
<1>4. /\ None(inp, OkaysOf(r)) => None(inp', OkaysOf(r))
      /\ Once(inp, OkaysOf(r)) => Once(inp', OkaysOf(r))
  BY <1>1, <1>2, AddTransfersKeeps DEF OkaysOf
<1> QED BY <1>3, <1>4 DEF new

LEMMA OpenedDev ==
  ASSUME CommandsInv, NEW q \in RemoteIds, Service(q), UNCHANGED call, NEW n, NEW r, Opened(n, r)
  PROVE  Opened(n, r)'
<1>1. OnlyOpen(r) /\ out = <<>> /\ Told(inp, r, stream[r].sent, 0)
  BY DEF Opened
<1>2. /\ UNCHANGED out /\ ~Over(r) /\ OnlyOpen(r)' /\ Told(inp', r, stream'[r].sent, 0)
      /\ stream[r].st # "closed"
  BY <1>1, ServiceAdds DEF Over, OnlyOpen
<1>3. PICK p \in Packet :
        /\ Adds(inp, p, inp') /\ p.arg0 = r /\ p.cmd \in {"WRTE", "CLSE"}
        /\ p.cmd = "CLSE" => p.data = NoData /\ stream'[r].st = "closed"
  BY <1>1, ServiceAdds
<1>4. inp \in Seq(Transfer)
  BY InvParts
<1> DEFINE st == stream[r].st
           new == stream'[r].st
<1> HIDE DEF st, new
<1>5. st # "closed" /\ (p.cmd = "CLSE" => p.data = NoData /\ new = "closed")
  BY <1>2, <1>3 DEF st, new
<1>6. CASE Answered(inp, r, st)
  <2>1. Answered(inp', r, new)
    BY <1>3, <1>4, <1>6, <1>5, AnsweredAdd
  <2> QED BY <1>1, <1>2, <2>1 DEF Opened, new
<1>7. CASE /\ n = 1 /\ inp # <<>> /\ Head(inp) \in CloseHeaders
           /\ Answered(Tail(inp), r, st)
  <2>1. /\ inp' # <<>> /\ Head(inp') = Head(inp) /\ Adds(Tail(inp), p, Tail(inp'))
        /\ Tail(inp) \in Seq(Transfer)
    BY <1>3, <1>4, <1>7, AddBehind
  <2>2. Answered(Tail(inp'), r, new)
    BY <1>3, <1>7, <1>5, <2>1, AnsweredAdd
  <2> QED BY <1>1, <1>2, <1>7, <2>1, <2>2 DEF Opened, new
<1> QED BY <1>6, <1>7 DEF Opened, st

LEMMA OnlyOpenStays ==
  ASSUME CommandsInv, DevAck \/ DevHostWrite \/ DevCloseRequest, UNCHANGED call,
         NEW r, OnlyOpen(r)
  PROVE  /\ OnlyOpen(r)' /\ out # <<>> /\ out' = Tail(out) /\ Frame \in Packet
         /\ stream'[r].sent = stream[r].sent /\ stream'[r].service = stream[r].service
         /\ stream[r].st = "closed" => stream'[r].st = "closed"
<1>1. /\ out # <<>> /\ out' = Tail(out) /\ Frame \in Packet
      /\ \A q \in RemoteIds :
           /\ stream'[q].service = stream[q].service /\ stream'[q].sent = stream[q].sent
           /\ Over(q) => stream'[q].st = stream[q].st
  BY StreamMoves
<1> QED BY <1>1 DEF OnlyOpen, Over

LEMMA ReplyingDev ==
  ASSUME CommandsInv, Replying, UNCHANGED <<call, remote, data>>,
         DevPacket \/ \E q \in RemoteIds : Service(q)
  PROVE  Replying'
<1>1. inp \in Seq(Transfer) /\ OnlyOpen(remote)
  BY InvParts DEF Replying
<1>2. CASE DevPacket
  <2>1. out # <<>>
    BY <1>2 DEF DevPacket, DevOpen, DevAck, DevHostWrite, DevCloseRequest, Receives
  <2>2. Frame.cmd = "OKAY" /\ Tail(out) \in Seq(Acks)
    <3>1. Head(out) \in Acks /\ Tail(out) \in Seq(Acks)
      BY <2>1, TakeItem DEF Replying
    <3> QED BY <3>1 DEF Acks, Frame
  <2>3. DevAck
    BY <1>2, <2>2 DEF DevPacket, DevOpen, DevHostWrite, DevCloseRequest, Receives
  <2>4. /\ OnlyOpen(remote)' /\ out' = Tail(out)
        /\ stream'[remote].sent = stream[remote].sent
        /\ stream[remote].st = "closed" => stream'[remote].st = "closed"
    BY <1>1, <2>3, OnlyOpenStays DEF OnlyOpen
  <2>5. inp' = inp
    BY <2>3 DEF DevAck
  <2>6. Follows(inp, remote, stream'[remote].st)
    BY <2>4, FollowsStill DEF Replying
  <2> QED BY <2>2, <2>4, <2>5, <2>6 DEF Replying, Chunks
<1>3. ASSUME NEW q \in RemoteIds, Service(q) PROVE Replying'
  <2>1. /\ Told(inp, remote, stream[remote].sent, Len(data[call]))
        /\ Follows(inp, remote, stream[remote].st) /\ None(inp, OkaysOf(remote))
    BY DEF Replying
  <2>2. /\ UNCHANGED out /\ OnlyOpen(remote)'
        /\ Told(inp', remote, stream'[remote].sent, Len(data[call]))
    BY <1>1, <1>3, <2>1, ServiceAdds DEF OnlyOpen
  <2>3. Follows(inp', remote, stream'[remote].st) /\ None(inp', OkaysOf(remote))
    BY <1>1, <1>3, <2>1, ServiceFollows
  <2> QED BY <2>2, <2>3 DEF Replying, Chunks
<1> QED BY <1>2, <1>3

LEMMA SyncingDev ==
  ASSUME CommandsInv, Syncing, UNCHANGED <<pc, call, remote>>,
         DevPacket \/ \E q \in RemoteIds : Service(q)
  PROVE  Syncing'
<1> DEFINE r == remote
<1>1. /\ inp \in Seq(Transfer) /\ OnlyOpen(r) /\ out \in Seq(Turns(r)) /\ out \in Seq(Packet)
      /\ Follows(inp, r, stream[r].st)
  BY InvParts DEF Syncing
<1> DEFINE Turn(said, asked) ==
             \/ None(said, OkaysOf(r)) /\ None(asked, PendsOf(r))
             \/ /\ pc = "sync_write"
                /\ \/ Once(said, OkaysOf(r)) /\ None(asked, PendsOf(r))
                   \/ None(said, OkaysOf(r)) /\ Once(asked, PendsOf(r))
<1>2. Turn(inp, out)
  BY DEF Syncing
<1>3. SUFFICES /\ OnlyOpen(r)' /\ out' \in Seq(Turns(r))
               /\ Follows(inp', r, stream'[r].st) /\ Turn(inp', out')
  BY DEF Syncing
<1>4. CASE DevPacket
  <2>1. out # <<>>
    BY <1>4 DEF DevPacket, DevOpen, DevAck, DevHostWrite, DevCloseRequest, Receives
  <2>2. Frame \in Turns(r) /\ Tail(out) \in Seq(Turns(r)) /\ Head(out) = Frame
    BY <1>1, <2>1, TakeItem DEF Frame
  <2>3. DevAck \/ (DevHostWrite /\ Frame.arg1 = r)
    <3>1. Frame.cmd = "OKAY" \/ (Frame.cmd = "WRTE" /\ Frame.arg1 = r)
      BY <2>2 DEF Turns
    <3> QED BY <1>4, <3>1 DEF DevPacket, DevOpen, DevAck, DevHostWrite, DevCloseRequest, Receives
  <2>4. /\ OnlyOpen(r)' /\ out' = Tail(out) /\ Frame \in Packet
        /\ stream[r].st = "closed" => stream'[r].st = "closed"
    BY <1>1, <2>3, OnlyOpenStays DEF OnlyOpen
  <2>5. /\ None(out, PendsOf(r)) => None(Tail(out), PendsOf(r))
        /\ Once(out, PendsOf(r)) => IF Frame \in PendsOf(r) THEN None(Tail(out), PendsOf(r))
                                    ELSE Once(Tail(out), PendsOf(r))
        /\ Frame \in PendsOf(r) => ~None(out, PendsOf(r))
    BY <1>1, <2>1, <2>2, TakeKeeps, TakeFound
  <2>6. CASE UNCHANGED inp
    <3>1. Follows(inp, r, stream'[r].st)
      BY <1>1, <2>4, FollowsStill
    <3>2. Turn(inp, Tail(out))
      BY <1>2, <2>5
    <3> QED BY <2>2, <2>4, <2>6, <3>1, <3>2
  <2>7. CASE DevHostWrite /\ Frame.arg1 = r /\ IsOpen(r)
    <3> DEFINE p == Pkt("OKAY", r, Frame.arg0, NoData)
               st == stream[r].st
               new == stream'[r].st
    <3>1. /\ p \in Packet /\ p.cmd = "OKAY" /\ p.arg0 = r /\ p.data = NoData
          /\ p.cmd \in {"OKAY", "WRTE", "CLSE"}
      <4>1. r \in Nat /\ Frame.arg0 \in Nat
        BY <1>1, <2>4, StreamType, PacketParts DEF OnlyOpen
      <4> QED BY <4>1, NoDataType, PacketType
    <3>2. Adds(inp, p, inp') /\ st # "closed" /\ Follows(inp, r, st)
      BY <1>1, <2>7 DEF DevHostWrite, DevWrites, Adds, IsOpen
    <3>3. Frame \in PendsOf(r)
      BY <2>4, <2>7, InSent DEF PendsOf, DevHostWrite, Receives
    <3> HIDE DEF p, st, new, r
    <3>4. Follows(inp', r, new)
      BY <1>1, <3>1, <3>2, FollowsAdd
    <3>5. None(inp, OkaysOf(r)) => Once(inp', OkaysOf(r))
      BY <1>1, <3>1, <3>2, AddTransfersKeeps DEF OkaysOf
    <3>6. Turn(inp', Tail(out))
      BY <1>2, <2>5, <3>3, <3>5
    <3> QED BY <2>2, <2>4, <3>4, <3>6 DEF new
  <2> QED BY <2>3, <2>6, <2>7 DEF DevAck, DevHostWrite
<1>5. ASSUME NEW q \in RemoteIds, Service(q)
      PROVE  /\ OnlyOpen(r)' /\ out' \in Seq(Turns(r))
             /\ Follows(inp', r, stream'[r].st) /\ Turn(inp', out')
  <2>1. UNCHANGED out /\ OnlyOpen(r)'
    BY <1>1, <1>5, ServiceAdds DEF OnlyOpen
  <2>2. /\ Follows(inp', r, stream'[r].st)
        /\ None(inp, OkaysOf(r)) => None(inp', OkaysOf(r))
        /\ Once(inp, OkaysOf(r)) => Once(inp', OkaysOf(r))
    BY <1>1, <1>5, ServiceFollows
  <2> QED BY <1>1, <1>2, <2>1, <2>2
<1> QED BY <1>4, <1>5

LEMMA AddsClose ==
  ASSUME NEW said, NEW t \in CloseHeaders, said = <<t>>, NEW asked, Left(asked, <<>>, 1)
  PROVE  Left(asked, said, 2)
BY DEF Left

LEMMA ClosingDev ==
  ASSUME CommandsInv, Closing, UNCHANGED <<pc, call, remote, cmd>>,
         DevPacket \/ \E q \in RemoteIds : Service(q)
  PROVE  Closing'
<1> DEFINE r == remote
<1>1. CASE AllOver /\ Left(out, inp, 2)
  <2>1. DevPacket
    BY <1>1, SettledService
  <2>2. AllOver' /\ Left(out', inp', 2)
    BY <1>1, <2>1, LeftDev
  <2> QED BY <2>2 DEF Closing
<1>2. CASE /\ ~AllOver /\ OnlyOpen(r) /\ Left(out, inp, 1) /\ inp = <<>>
           /\ out \in Seq(Parts(r)) /\ IsSync(r) /\ stream[r].sent # 0
  <2>1. r \in RemoteIds /\ IsOpen(r) /\ r \in Nat
    BY <1>2, StreamType DEF OnlyOpen, AllOver, Over, IsOpen
  <2>2. ASSUME stream'[r].service = stream[r].service
        PROVE  IsSync(r)'
    BY <1>2, <2>2 DEF IsSync
  <2>3. CASE DevPacket
    <3>1. out # <<>>
      BY <2>3 DEF DevPacket, DevOpen, DevAck, DevHostWrite, DevCloseRequest, Receives
    <3>2. Frame \in Parts(r) /\ Tail(out) \in Seq(Parts(r)) /\ Head(out) = Frame
      BY <1>2, <3>1, TakeItem DEF Frame
    <3>3. Frame.cmd = "OKAY" \/ (Frame.cmd = "CLSE" /\ Frame.arg1 = r)
      BY <3>2 DEF Parts
    <3>4. DevAck \/ (DevCloseRequest /\ Frame.arg1 = r)
      BY <2>3, <3>3 DEF DevPacket, DevOpen, DevAck, DevHostWrite, DevCloseRequest, Receives
    <3>5. /\ OnlyOpen(r)' /\ out' = Tail(out) /\ Frame \in Packet
          /\ stream'[r].sent = stream[r].sent /\ stream'[r].service = stream[r].service
      BY <1>2, <3>4, OnlyOpenStays DEF OnlyOpen
    <3>6. CASE DevAck
      <4>1. inp' = inp
        BY <3>6 DEF DevAck
      <4>2. Left(Tail(out), inp, 1)
        BY <1>2, <3>1, LeftAnswer
      <4> QED BY <1>2, <2>2, <3>2, <3>5, <4>1, <4>2 DEF Closing
    <3>7. CASE DevCloseRequest /\ Frame.arg1 = r
      <4> DEFINE p == Pkt("CLSE", r, Frame.arg0, NoData)
      <4>1. p \in Packet /\ p.data = NoData /\ Header(p) \in CloseHeaders
        BY <2>1, <3>5, PacketParts, CloseMade, NoDataType, PacketType
      <4>2. /\ Adds(inp, p, inp') /\ Frame.cmd = "CLSE"
            /\ stream' = [stream EXCEPT ![r].st = "closed"]
        BY <2>1, <3>7 DEF DevCloseRequest, DevWrites, Adds, Receives
      <4>3. inp \in Seq(Transfer)
        BY InvParts
      <4> HIDE DEF p
      <4>4. inp' = Append(inp, Header(p))
        BY <4>1, <4>2, <4>3, AddHeader
      <4>5. Left(Tail(out), inp', 2)
        <5>1. Head(out).cmd = "CLSE" /\ \E t \in CloseHeaders : inp' = Append(inp, t)
          BY <3>2, <4>1, <4>2, <4>4
        <5>2. Left(Tail(out), inp', 1)
          BY <1>2, <3>1, <5>1, LeftAnswer
        <5> QED BY <5>2, LeftLess
      <4>6. stream'[r].st = "closed"
        BY <2>1, <4>2, StatusSet
      <4>7. AllOver'
        BY <3>5, <4>6 DEF OnlyOpen, AllOver, Over
      <4> QED BY <3>5, <4>5, <4>7 DEF Closing
    <3> QED BY <3>4, <3>6, <3>7
  <2>4. ASSUME NEW q \in RemoteIds, Service(q) PROVE Closing'
    <3>1. PICK p \in Packet : /\ Adds(inp, p, inp') /\ p.cmd = "CLSE" /\ p.data = NoData
                              /\ stream'[r].st = "closed"
      BY <1>2, <2>4, ServiceAdds
    <3>2. UNCHANGED out /\ OnlyOpen(r)'
      BY <1>2, <2>4, ServiceAdds DEF OnlyOpen
    <3>3. AllOver'
      BY <3>1, <3>2 DEF OnlyOpen, AllOver, Over
    <3>4. inp' = Append(<<>>, Header(p))
      BY <1>2, <3>1, AddHeader, InvParts
    <3>5. Header(p) \in CloseHeaders
      BY <3>1, HeaderType DEF CloseHeaders
    <3>6. Left(out, inp', 2)
      BY <1>2, <3>4, <3>5, AddsClose
    <3> QED BY <3>2, <3>3, <3>6 DEF Closing
  <2> QED BY <2>3, <2>4
<1>3. ASSUME AllOver, Left(out, inp, 1) PROVE Left(out, inp, 2)
  BY <1>3, LeftLess
<1> QED BY <1>1, <1>2, <1>3 DEF Closing

(* Each phase lasts whatever adbd does.                                    *)
LEMMA PhasesDev ==
  ASSUME CommandsInv, Phases, UNCHANGED commandVars,
         DevPacket \/ \E q \in RemoteIds : Service(q)
  PROVE  Phases'
<1>1. /\ UNCHANGED <<pc, call, cmd, remote, service, data>>
      /\ DevPacket => out # <<>>
  BY DEF commandVars, DevPacket, DevOpen, DevAck, DevHostWrite, DevCloseRequest, Receives
<1>2. AllOver => DevPacket
  BY SettledService
<1>3. ASSUME pc = "idle" PROVE AllOver' /\ Left(out', inp', 1)
  BY <1>2, <1>3, LeftDev DEF Phases
<1>4. ASSUME NEW n \in 0..1, Opening(n) PROVE Opening(n)'
  <2>1. CASE Asking(n)
    BY <1>1, <1>2, <2>1, AskingDev DEF Asking
  <2>2. CASE Refusing(n)
    BY <1>1, <1>2, <2>2 DEF Refusing
  <2>3. ASSUME NEW r \in RemoteIds, Opened(n, r) PROVE Opened(n, r)'
    <3>1. PICK q \in RemoteIds : Service(q)
      BY <1>1, <2>3 DEF Opened
    <3> QED BY <1>1, <2>3, <3>1, OpenedDev
  <2> QED BY <1>4, <2>1, <2>2, <2>3 DEF Opening
<1>5. Replying => Replying'
  BY <1>1, ReplyingDev
<1>6. Syncing => Syncing'
  BY <1>1, SyncingDev
<1>7. Closing => Closing'
  BY <1>1, ClosingDev
<1> QED BY <1>1, <1>3, <1>4, <1>5, <1>6, <1>7 DEF Phases

-----------------------------------------------------------------------------
(* What has ended stays as it was.                                         *)
LEMMA ClosedStays ==
  ASSUME CommandsInv, DevPacket \/ \E q \in RemoteIds : Service(q),
         NEW r \in RemoteIds, stream[r].st = "closed"
  PROVE  /\ stream'[r].st = "closed" /\ stream'[r].sent = stream[r].sent
         /\ stream'[r].service = stream[r].service
<1>1. Over(r)
  BY DEF Over
<1>2. ASSUME NEW q \in RemoteIds, Service(q) PROVE stream'[r] = stream[r]
  BY <1>1, <1>2, ServiceWrites
<1>3. CASE DevAck \/ DevHostWrite \/ DevCloseRequest
  BY <1>1, <1>3, StreamMoves
<1>4. CASE DevOpen
  <2>1. stream' = stream \/ \E q \in RemoteIds : stream[q].st = "none" /\
          \E new : stream' = [stream EXCEPT ![q] = new]
    BY <1>4 DEF DevOpen, NextRemoteId
  <2>2. stream'[r] = stream[r]
    BY <2>1, StreamType
  <2> QED BY <2>2
<1> QED BY <1>2, <1>3, <1>4 DEF DevPacket

LEMMA ResponseDev ==
  ASSUME CommandsInv, ResponseInv, UNCHANGED commandVars,
         DevPacket \/ \E q \in RemoteIds : Service(q)
  PROVE  ResponseInv'
<1>1. UNCHANGED <<pc, call, cmd, status, data>>
  BY DEF commandVars
<1>2. InOrder' <=> InOrder
  BY <1>1 DEF InOrder, Finished, Busy, Tidy
<1>3. Orderly'
  BY <1>2, PhasesDev DEF ResponseInv, Orderly
<1>4. Unfinished'
  BY <1>1 DEF ResponseInv, Unfinished, Finished, Busy
<1>5. Responses'
  <2> SUFFICES ASSUME NEW n \in Calls, status[n] = "returned", cmd[n] \notin SyncCommands,
                      \A m \in 1..n : Tidy(m)
               PROVE  \E r \in RemoteIds : /\ stream'[r].st = "closed"
                                           /\ stream'[r].service = <<n, 0>>
                                           /\ data[n] = Chunks(r, stream'[r].sent)
    BY <1>1 DEF Responses, Tidy, Chunks
  <2>1. PICK r \in RemoteIds : /\ stream[r].st = "closed" /\ stream[r].service = <<n, 0>>
                               /\ data[n] = Chunks(r, stream[r].sent)
    BY DEF ResponseInv, Responses
  <2>2. /\ stream'[r].st = "closed" /\ stream'[r].sent = stream[r].sent
        /\ stream'[r].service = stream[r].service
    BY <2>1, ClosedStays
  <2> QED BY <2>1, <2>2
<1> QED BY <1>3, <1>4, <1>5 DEF ResponseInv

(* Only the command under way changes what it has yielded and how it ends. *)
LEMMA ResponsesKeep ==
  ASSUME CommandsInv, ResponseInv, UNCHANGED stream,
         \A n \in Calls : n <= call => cmd'[n] = cmd[n],
         \A n \in Calls : n # call \/ ~Busy => status'[n] = status[n] /\ data'[n] = data[n],
         /\ Busy /\ status'[call] = "returned" /\ cmd[call] \notin SyncCommands
         /\ \A m \in 1..call : Tidy(m)'
         => \E r \in RemoteIds : /\ stream[r].st = "closed" /\ stream[r].service = <<call, 0>>
                                 /\ data'[call] = Chunks(r, stream[r].sent)
  PROVE  Responses'
<1> SUFFICES ASSUME NEW n \in Calls, status'[n] = "returned", cmd'[n] \notin SyncCommands,
                    \A m \in 1..n : Tidy(m)'
             PROVE  \E r \in RemoteIds : /\ stream[r].st = "closed"
                                         /\ stream[r].service = <<n, 0>>
                                         /\ data'[n] = Chunks(r, stream[r].sent)
  BY DEF Responses, Chunks
<1>1. call \in Nat /\ n \in Nat /\ \A m \in 1..n : m \in Calls /\ m <= n
  BY InvParts, CommandsAssumption DEF Calls
<1>2. CASE n = call /\ Busy
  BY <1>1, <1>2
<1>3. CASE n # call \/ ~Busy
  <2>1. status[n] = "returned" /\ data'[n] = data[n]
    BY <1>3
  <2>2. n <= Finished
    BY <1>1, <2>1 DEF ResponseInv, Unfinished, Finished
  <2>3. \A m \in 1..n : m <= call /\ (m # call \/ ~Busy)
    BY <1>1, <2>2 DEF Finished
  <2>4. \A m \in 1..n : cmd'[m] = cmd[m] /\ status'[m] = status[m]
    BY <1>1, <2>3
  <2>5. n \in 1..n
    BY <1>1 DEF Calls
  <2>6. cmd[n] \notin SyncCommands /\ \A m \in 1..n : Tidy(m)
    BY <2>4, <2>5 DEF Tidy
  <2> QED BY <2>1, <2>6 DEF ResponseInv, Responses
<1> QED BY <1>2, <1>3

(* The command goes on.                                                    *)
LEMMA Continues ==
  ASSUME CommandsInv, ResponseInv, Busy, UNCHANGED <<stream, call, cmd, status>>,
         pc' \in {"open_again", "read", "echo", "sync_write", "sync_read", "sync_close"},
         \A n \in Calls : n # call => data'[n] = data[n],
         InOrder => Phases'
  PROVE  ResponseInv'
<1>1. Busy' /\ Finished' = Finished
  BY DEF Busy, Finished
<1>2. InOrder' => InOrder
  BY <1>1 DEF InOrder, Tidy
<1>3. Unfinished'
  BY <1>1 DEF ResponseInv, Unfinished
<1>4. call \in Calls /\ call > Finished
  BY InvParts DEF Finished
<1>5. status'[call] = "none"
  BY <1>4 DEF ResponseInv, Unfinished
<1>6. Responses'
  BY <1>5, ResponsesKeep
<1> QED BY <1>2, <1>3, <1>6 DEF ResponseInv, Orderly

(* It ends.                                                                *)
LEMMA EndsSo ==
  ASSUME CommandsInv, ResponseInv, Busy, UNCHANGED <<stream, call, cmd>>,
         NEW how \in Statuses, Ends(how),
         \A n \in Calls : n # call => data'[n] = data[n],
         InOrder /\ how \in {"returned", "refused"} =>
           service' = 0 /\ AllOver /\ Left(out', inp', 1),
         InOrder /\ how = "returned" /\ cmd[call] \notin SyncCommands =>
           \E r \in RemoteIds : /\ stream[r].st = "closed" /\ stream[r].service = <<call, 0>>
                                /\ data'[call] = Chunks(r, stream[r].sent)
  PROVE  ResponseInv'
<1>1. TypeOK /\ call >= 1 /\ call \in Nat
  BY InvParts DEF CallOK
<1>2. /\ pc' = "idle" /\ call \in Calls /\ status'[call] = how
      /\ \A n \in Calls : n # call => status'[n] = status[n]
  BY <1>1, EndsType
<1>3. ~Busy' /\ Finished' = call /\ Finished = call - 1
  BY <1>2 DEF Busy, Finished
<1>4. ASSUME \A m \in 1..call : Tidy(m)'
      PROVE  InOrder /\ how \in {"returned", "refused"}
  <2>1. Tidy(call)' /\ how \in {"returned", "refused"}
    BY <1>1, <1>2, <1>4 DEF Tidy
  <2>2. \A m \in 1..(call - 1) : m \in 1..call /\ m \in Calls /\ m # call
    BY <1>1, <1>2, CommandsAssumption DEF Calls
  <2>3. \A m \in 1..(call - 1) : Tidy(m)
    BY <1>2, <1>4, <2>2 DEF Tidy
  <2> QED BY <1>3, <2>1, <2>3 DEF InOrder, Tidy
<1>5. Orderly'
  <2> SUFFICES ASSUME InOrder' PROVE Phases'
    BY DEF Orderly
  <2>1. service' = 0 /\ AllOver /\ Left(out', inp', 1)
    BY <1>3, <1>4 DEF InOrder
  <2>2. AllOver'
    BY <2>1 DEF AllOver, Over
  <2> QED BY <1>2, <2>1, <2>2 DEF Phases
<1>6. Unfinished'
  <2>1. \A n \in Calls : n > call => n # call /\ n > Finished
    BY <1>1, <1>3 DEF Calls
  <2> QED BY <1>2, <1>3, <2>1 DEF ResponseInv, Unfinished
<1>7. Responses'
  BY <1>2, <1>4, ResponsesKeep
<1> QED BY <1>5, <1>6, <1>7 DEF ResponseInv

-----------------------------------------------------------------------------
(* A call begins with what is left of the last one.                        *)
LEMMA BeginsSo ==
  ASSUME CommandsInv, ResponseInv, UNCHANGED <<stream, status, data>>,
         NEW c, NEW label, Begin(c, label), label \in {"open", "write"},
         InOrder /\ c \notin {"interactive", "reboot"} => Phases'
  PROVE  ResponseInv'
<1>1. /\ call \in Nat /\ call' = call + 1 /\ cmd'[call'] = c
      /\ \A n \in 1..call : n \in Calls /\ cmd'[n] = cmd[n]
      /\ pc = "idle" /\ pc' = label
  BY InvParts, BeginType
<1>2. ~Busy /\ Busy' /\ Finished = call /\ Finished' = call
  BY <1>1 DEF Busy, Finished
<1>3. InOrder' => InOrder /\ c \notin {"interactive", "reboot"}
  BY <1>1, <1>2 DEF InOrder, Tidy
<1>4. Orderly'
  BY <1>3 DEF Orderly
<1>5. Unfinished'
  BY <1>2 DEF ResponseInv, Unfinished
<1>6. \A n \in Calls : n <= call => cmd'[n] = cmd[n]
  BY <1>1 DEF Calls
<1>7. Responses'
  BY <1>2, <1>6, ResponsesKeep
<1> QED BY <1>4, <1>5, <1>7 DEF ResponseInv

LEMMA OpenOrderly == CommandsInv /\ ResponseInv /\ Open => ResponseInv'
<1> SUFFICES ASSUME CommandsInv, ResponseInv, Open PROVE ResponseInv'
  OBVIOUS
<1>1. PICK c \in Commands \ {"interactive"} : Begin(c, "open")
  BY DEF Open
<1>2. Send(OpenMsg(call + 1)) /\ UNCHANGED <<inp, stream, service, status, data>>
  BY DEF Open
<1>3. pc = "idle" /\ pc' = "open" /\ call' = call + 1
  BY <1>1 DEF Begin
<1>4. ASSUME InOrder PROVE Phases'
  <2>1. service = 0 /\ AllOver /\ Left(out, inp, 1)
    BY <1>3, <1>4 DEF ResponseInv, Orderly, Phases
  <2>2. out' = Append(out, OpenMsg(call')) /\ out \in Seq(Packet) /\ Left(out, inp', 1)
    BY <1>2, <1>3, <2>1, InvParts DEF Send
  <2>3. AllOver'
    BY <1>2, <2>1 DEF AllOver, Over
  <2>4. Asking(1)'
    BY <2>2, <2>3 DEF Asking
  <2> QED BY <1>2, <1>3, <2>1, <2>4 DEF Phases, Opening
<1> QED BY <1>1, <1>2, <1>4, BeginsSo

LEMMA InteractiveOrderly == CommandsInv /\ ResponseInv /\ InteractiveShell => ResponseInv'
<1> SUFFICES ASSUME CommandsInv, ResponseInv, InteractiveShell PROVE ResponseInv'
  OBVIOUS
<1>1. /\ Begin("interactive", "open") \/ Begin("interactive", "write")
      /\ UNCHANGED <<stream, status, data>>
  BY DEF InteractiveShell
<1> QED BY <1>1, BeginsSo

-----------------------------------------------------------------------------
(* The answers to OPEN.                                                    *)
LEMMA ReadsHeader ==
  ASSUME CommandsInv, NEW cmds, Reads(cmds), Incoming.data = NoData
  PROVE  /\ inp # <<>> /\ inp' = Tail(inp) /\ Head(inp) = Header(Incoming)
         /\ Incoming \in Packet /\ inp \in Seq(Transfer) /\ Incoming = Head(inp).packet
BY ReadTakes, InvParts DEF Incoming

LEMMA LeftHead ==
  ASSUME NEW asked, NEW n, Left(asked, inp, n), inp # <<>>
  PROVE  Head(inp) \in CloseHeaders /\ Incoming.cmd = "CLSE" /\ Incoming.data = NoData
<1>1. Head(inp) \in CloseHeaders
  BY TakeItem DEF Left
<1> QED BY <1>1, CloseIs DEF Incoming

LEMMA ToldTake ==
  ASSUME NEW said \in Seq(Transfer), said # <<>>, NEW r, Head(said) \notin WritesOf(r),
         None(said, WritesOf(r)) \/ Once(said, WritesOf(r)),
         NEW sent, NEW n, Told(said, r, sent, n)
  PROVE  Told(Tail(said), r, sent, n)
<1>1. /\ None(said, WritesOf(r)) => None(Tail(said), WritesOf(r))
      /\ Once(said, WritesOf(r)) => Once(Tail(said), WritesOf(r))
  BY TakeKeeps
<1> QED BY <1>1, NotBoth DEF Told

LEMMA FlowEither ==
  ASSUME CommandsInv, NEW r \in RemoteIds
  PROVE  None(inp, WritesOf(r)) \/ Once(inp, WritesOf(r))
BY DEF CommandsInv, Flow, FlowOf

(* The first CLSE may be of a stream that is over.                         *)
LEMMA OpenedAgain ==
  ASSUME CommandsInv, UNCHANGED <<out, stream, call>>, NEW cmds, Reads(cmds),
         Incoming.cmd = "CLSE", NEW n \in 0..1, Opening(n)
  PROVE  IF n = 1 THEN Opening(0)' ELSE AllOver /\ Left(out, inp', 1)
<1>1. inp # <<>>
  BY DEF Reads, IsHeader
<1>2. CASE Asking(n)
  <2>1. PICK s \in Seq(Packet) : out = Append(s, OpenMsg(call)) /\ Left(s, inp, n)
    BY <1>2 DEF Asking
  <2>2. inp' = Tail(inp)
    BY <1>1, <2>1, LeftHead, ReadsHeader
  <2>3. Left(s, Tail(inp), n - 1)
    BY <1>1, <2>1, LeftTake
  <2>4. n = 1
    BY <1>1, <2>1, EmptySeq DEF Left
  <2>5. AllOver'
    BY <1>2 DEF Asking, AllOver, Over
  <2>6. Asking(0)'
    BY <2>1, <2>2, <2>3, <2>4, <2>5 DEF Asking
  <2> QED BY <2>4, <2>6 DEF Opening
<1>3. CASE Refusing(n)
  <2>1. AllOver /\ out = <<>> /\ Left(out, inp, n + 1)
    BY <1>3 DEF Refusing
  <2>2. inp' = Tail(inp)
    BY <1>1, <2>1, LeftHead, ReadsHeader
  <2>3. Left(out, inp', n)
    BY <1>1, <2>1, <2>2, LeftTake
  <2>4. AllOver'
    BY <2>1 DEF AllOver, Over
  <2>5. CASE n = 1
    BY <2>1, <2>3, <2>4, <2>5 DEF Refusing, Opening
  <2>6. CASE n = 0
    BY <2>1, <2>3, <2>6, LeftLess
  <2> QED BY <2>5, <2>6
<1>4. ASSUME NEW r \in RemoteIds, Opened(n, r) PROVE n = 1 /\ Opened(0, r)'
  <2>1. ~Answered(inp, r, stream[r].st)
    <3>1. Pkt("OKAY", r, LocalId, NoData).cmd = "OKAY"
      BY DEF Pkt
    <3> QED BY <3>1 DEF Answered, Header, Incoming
  <2>2. n = 1 /\ Head(inp) \in CloseHeaders /\ Answered(Tail(inp), r, stream[r].st)
    BY <1>4, <2>1 DEF Opened
  <2>3. Incoming.data = NoData /\ Head(inp) \notin WritesOf(r)
    BY <2>2, CloseIs DEF Incoming
  <2>4. inp' = Tail(inp) /\ inp \in Seq(Transfer)
    BY <2>3, ReadsHeader
  <2>5. Told(Tail(inp), r, stream[r].sent, 0)
    <3>1. Told(inp, r, stream[r].sent, 0)
      BY <1>4 DEF Opened
    <3> QED BY <1>1, <2>3, <2>4, <3>1, FlowEither, ToldTake
  <2>6. OnlyOpen(r)' /\ out' = <<>>
    BY <1>4 DEF Opened, OnlyOpen, Over
  <2> QED BY <2>2, <2>4, <2>5, <2>6 DEF Opened
<1> QED BY <1>2, <1>3, <1>4 DEF Opening

(* The first OKAY is that of the request.                                  *)
LEMMA OpenedNow ==
  ASSUME CommandsInv, NEW cmds, Reads(cmds), Incoming.cmd = "OKAY", NEW n \in 0..1, Opening(n)
  PROVE  \E r \in RemoteIds :
           /\ r = Incoming.arg0 /\ OnlyOpen(r) /\ out = <<>>
           /\ Told(inp', r, stream[r].sent, 0)
           /\ Follows(inp', r, stream[r].st) /\ None(inp', OkaysOf(r))
<1>1. inp # <<>>
  BY DEF Reads, IsHeader
<1>2. ~Asking(n) /\ ~Refusing(n)
  BY <1>1, LeftHead DEF Asking, Refusing
<1>3. PICK r \in RemoteIds : Opened(n, r)
  BY <1>2 DEF Opening
<1>4. Head(inp) \notin CloseHeaders
  BY CloseIs DEF Incoming
<1>5. Answered(inp, r, stream[r].st)
  BY <1>3, <1>4 DEF Opened
<1>6. Incoming = Pkt("OKAY", r, LocalId, NoData)
  BY <1>5 DEF Answered, Incoming, Header
<1>7. Incoming.arg0 = r /\ Incoming.data = NoData
  BY <1>6 DEF Pkt
<1>8. inp' = Tail(inp) /\ inp \in Seq(Transfer) /\ Head(inp) \in Transfer
  BY <1>1, <1>7, ReadsHeader, TakeItem
<1>9. Head(inp) \notin WritesOf(r)
  BY <1>8, InHeaders DEF WritesOf, Incoming
<1>10. Told(inp', r, stream[r].sent, 0)
  <2>1. Told(inp, r, stream[r].sent, 0)
    BY <1>3 DEF Opened
  <2> QED BY <1>1, <1>8, <1>9, <2>1, FlowEither, ToldTake
<1> QED BY <1>3, <1>5, <1>7, <1>8, <1>10 DEF Opened, Answered

LEMMA OpenAnswerOrderly == CommandsInv /\ ResponseInv /\ OpenAnswer => ResponseInv'
<1> SUFFICES ASSUME CommandsInv, ResponseInv, OpenAnswer PROVE ResponseInv'
  OBVIOUS
<1>1. /\ pc \in {"open", "open_again"} /\ Reads({"CLSE", "OKAY"})
      /\ UNCHANGED <<stream, call, cmd, data>> /\ Busy
  BY DEF OpenAnswer, Busy
<1>2. /\ InOrder => service = 0 /\ cmd[call] \notin {"interactive", "reboot"}
      /\ InOrder /\ pc = "open" => Opening(1)
      /\ InOrder /\ pc = "open_again" => Opening(0)
  BY <1>1 DEF ResponseInv, Orderly, Phases, InOrder
<1>3. CASE Incoming.cmd = "OKAY"
  <2> DEFINE r == Incoming.arg0
  <2>1. Connected(r)
    BY <1>3 DEF OpenAnswer
  <2>2. CASE cmd[call] = "reboot"
    <3>1. Ends("returned") /\ "returned" \in Statuses
      BY <2>1, <2>2 DEF Connected, Statuses, SyncCommands
    <3> QED BY <1>1, <1>2, <2>2, <3>1, EndsSo
  <2>3. CASE cmd[call] = "interactive"
    <3>1. pc' = "write" /\ UNCHANGED status
      BY <2>1, <2>3 DEF Connected, SyncCommands
    <3>2. ~InOrder' /\ Busy' /\ Finished' = Finished
      BY <1>1, <2>3, <3>1 DEF InOrder, Busy, Finished
    <3>3. Orderly' /\ Unfinished'
      BY <3>1, <3>2 DEF ResponseInv, Orderly, Unfinished
    <3>4. status'[call] = "none"
      BY <1>1, <3>1, InvParts DEF ResponseInv, Unfinished, Finished
    <3>5. Responses'
      BY <1>1, <3>1, <3>4, ResponsesKeep
    <3> QED BY <3>3, <3>5 DEF ResponseInv
  <2>4. CASE cmd[call] \notin {"reboot", "interactive"}
    <3>1. /\ remote' = r /\ UNCHANGED <<service, status>>
          /\ IF cmd[call] \in SyncCommands
               THEN pc' = "sync_write" /\ Send(WriteMsg(call, 1, r))
               ELSE pc' = "read" /\ UNCHANGED out
      BY <2>1, <2>4 DEF Connected
    <3>2. ASSUME InOrder PROVE Phases'
      <4>1. PICK n \in 0..1 : Opening(n)
        BY <1>1, <1>2, <3>2
      <4>2. /\ r \in RemoteIds /\ OnlyOpen(r) /\ out = <<>>
            /\ Told(inp', r, stream[r].sent, 0)
            /\ Follows(inp', r, stream[r].st) /\ None(inp', OkaysOf(r))
        BY <1>1, <1>3, <4>1, OpenedNow
      <4>3. OnlyOpen(remote)'
        BY <1>1, <3>1, <4>2 DEF OnlyOpen, Over
      <4>4. CASE cmd[call] \in SyncCommands
        <5> DEFINE p == WriteMsg(call, 1, r)
        <5>1. p \in Packet /\ p.cmd = "WRTE" /\ p.arg1 = r
          <6>1. call \in Nat /\ 1 \in Nat /\ r \in Nat
            BY <4>2, InvParts, StreamType
          <6> QED BY <6>1, MsgTypes
        <5>2. out' = Append(<<>>, p)
          BY <3>1, <4>2, <4>4 DEF Send
        <5> HIDE DEF p
        <5>3. p \in Turns(r) /\ p \in PendsOf(r)
          BY <5>1, InSent DEF Turns, PendsOf
        <5>4. out' \in Seq(Turns(r)) /\ Once(out', PendsOf(r))
          <6>1. <<>> \in Seq(Turns(r))
            OBVIOUS
          <6> QED BY <5>2, <5>3, <6>1, AddItem, AddKeeps, EmptyNone
        <5>5. Syncing'
          BY <1>1, <3>1, <4>2, <4>3, <4>4, <5>4 DEF Syncing
        <5> QED BY <1>1, <1>2, <3>1, <3>2, <4>4, <5>5 DEF Phases
      <4>5. CASE cmd[call] \notin SyncCommands
        <5>1. data[call] = <<>> /\ Len(<<>>) = 0
          BY <1>1, InvParts DEF CallOK
        <5>2. Chunks(r, 0) = <<>>
          BY DEF Chunks
        <5>3. out' = <<>>
          BY <3>1, <4>2, <4>5
        <5>4. Replying'
          BY <1>1, <3>1, <4>2, <4>3, <5>1, <5>2, <5>3 DEF Replying, Chunks
        <5> QED BY <1>1, <1>2, <3>1, <3>2, <4>5, <5>4 DEF Phases
      <4> QED BY <4>4, <4>5
    <3> QED BY <1>1, <3>1, <3>2, Continues
  <2> QED BY <2>2, <2>3, <2>4
<1>4. CASE Incoming.cmd = "CLSE" /\ pc = "open_again"
  <2>1. UNCHANGED <<out, service>> /\ \E how \in {"returned", "refused"} :
          Ends(how) /\ (cmd[call] # "reboot" => how = "refused")
    BY <1>4 DEF OpenAnswer, Refused
  <2>2. PICK how \in Statuses : Ends(how) /\ (cmd[call] # "reboot" => how = "refused")
    BY <2>1 DEF Statuses
  <2>3. InOrder => service' = 0 /\ AllOver /\ Left(out', inp', 1) /\ how # "returned"
    <3> SUFFICES ASSUME InOrder
                 PROVE  service' = 0 /\ AllOver /\ Left(out', inp', 1) /\ how # "returned"
      OBVIOUS
    <3>1. service = 0 /\ cmd[call] # "reboot" /\ Opening(0) /\ 0 \in 0..1
      BY <1>2, <1>4
    <3>2. AllOver /\ Left(out, inp', 1)
      BY <1>1, <1>4, <2>1, <3>1, OpenedAgain
    <3> QED BY <2>1, <2>2, <3>1, <3>2
  <2> QED BY <1>1, <2>2, <2>3, EndsSo
<1>5. CASE Incoming.cmd = "CLSE" /\ pc = "open"
  <2>1. pc' = "open_again" /\ UNCHANGED <<out, service, status>>
    BY <1>5 DEF OpenAnswer
  <2>2. ASSUME InOrder PROVE Phases'
    <3>1. Opening(1) /\ 1 \in 0..1 /\ service = 0
      BY <1>2, <1>5, <2>2
    <3>2. Opening(0)'
      BY <1>1, <1>5, <2>1, <3>1, OpenedAgain
    <3> QED BY <2>1, <3>1, <3>2 DEF Phases
  <2> QED BY <1>1, <2>1, <2>2, Continues
<1>6. Incoming.cmd \in {"CLSE", "OKAY"}
  BY <1>1 DEF Reads
<1> QED BY <1>1, <1>3, <1>4, <1>5, <1>6

-----------------------------------------------------------------------------
(* The response is read.                                                   *)
LEMMA ChunksAdd ==
  ASSUME NEW r \in Nat, NEW k \in Nat
  PROVE  Append(Chunks(r, k), <<r, k + 1>>) = Chunks(r, k + 1) /\ Len(Chunks(r, k)) = k
<1> DEFINE s == Chunks(r, k)
           e == <<r, k + 1>>
           t == Chunks(r, k + 1)
<1>1. s \in Seq(Data) /\ e \in Data /\ t \in Seq(Data) /\ Len(s) = k /\ Len(t) = k + 1
  BY DEF Chunks, Data
<1>2. \A i \in 1..k : s[i] = <<r, i>>
  BY DEF Chunks
<1>3. \A i \in 1..(k + 1) : t[i] = <<r, i>>
  BY DEF Chunks
<1>4. e = <<r, k + 1>>
  OBVIOUS
<1> HIDE DEF s, e, t
<1>5. /\ Append(s, e) \in Seq(Data) /\ Len(Append(s, e)) = k + 1
      /\ \A i \in 1..k : Append(s, e)[i] = s[i]
      /\ Append(s, e)[k + 1] = e
  BY <1>1, AddItem
<1>6. \A i \in 1..(k + 1) : Append(s, e)[i] = t[i]
  <2>1. \A i \in 1..(k + 1) : i \in 1..k \/ i = k + 1
    OBVIOUS
  <2> QED BY <1>2, <1>3, <1>4, <1>5, <2>1
<1>7. Append(s, e) = t
  BY <1>1, <1>5, <1>6, SeqEqual
<1> QED BY <1>1, <1>7 DEF s, e, t

(* A CLSE of the stream comes last, when all of it is read.                *)
LEMMA ReadsClose ==
  ASSUME CommandsInv, NEW cmds, Reads(cmds), Incoming.cmd = "CLSE", NEW r, NEW st,
         Follows(inp, r, st)
  PROVE  inp' = <<>> /\ st = "closed" /\ \A q : None(inp, WritesOf(q))
<1>1. /\ inp \in Seq(Transfer) /\ inp # <<>> /\ Len(inp) \in Nat /\ Len(inp) >= 1
      /\ inp[1] = Head(inp) /\ Head(inp).packet.cmd = "CLSE"
  BY InvParts, ReadTakes, TakeItem DEF Incoming
<1>2. 1 \in 1..Len(inp)
  BY <1>1
<1>3. inp[1] \in CloseHeaders /\ 1 = Len(inp) /\ st = "closed"
  BY <1>1, <1>2 DEF Follows
<1>4. inp' = Tail(inp)
  BY <1>1, <1>3, CloseIs, ReadsHeader DEF Incoming
<1>5. Len(Tail(inp)) = 0 /\ Tail(inp) \in Seq(Transfer)
  BY <1>1, <1>3, TakeItem
<1>6. inp' = <<>>
  BY <1>4, <1>5, EmptySeq
<1>7. ASSUME NEW q PROVE None(inp, WritesOf(q))
  <2>1. inp[1] \notin WritesOf(q)
    BY <1>3, CloseIs
  <2>2. Len(inp) = 1
    BY <1>3
  <2>3. \A i \in 1..Len(inp) : i = 1
    BY <2>2
  <2> QED BY <2>1, <2>3 DEF None
<1> QED BY <1>3, <1>6, <1>7

(* One CLSE of the host is added to its acknowledgements.                  *)
LEMMA LeftClose ==
  ASSUME NEW asked \in Seq(Acks), NEW p \in Packet, p.cmd = "CLSE",
         NEW said \in Seq(CloseHeaders)
  PROVE  Left(Append(asked, p), said, Len(said) + 1)
<1>1. asked \in Seq(Leaves) /\ p \in Leaves /\ p \in Closes
  BY SubTypes, SeqWithin DEF Leaves, Closes
<1>2. None(asked, Closes)
  BY OnlyNone DEF Acks, Closes
<1>3. Append(asked, p) \in Seq(Leaves) /\ Once(Append(asked, p), Closes)
  BY <1>1, <1>2, AddItem, AddKeeps
<1> QED BY <1>3 DEF Left

LEMMA ReadOutputOrderly == CommandsInv /\ ResponseInv /\ ReadOutput => ResponseInv'
<1> SUFFICES ASSUME CommandsInv, ResponseInv, ReadOutput PROVE ResponseInv'
  OBVIOUS
<1>1. /\ pc = "read" /\ Reads({"CLSE", "WRTE"}) /\ Busy
      /\ UNCHANGED <<stream, call, cmd, remote, service>>
  BY DEF ReadOutput, Busy
<1>2. /\ Known(remote) /\ remote \in RemoteIds /\ remote \in Nat
      /\ call \in Calls /\ inp \in Seq(Transfer)
  BY <1>1, InvParts, StreamType DEF CallOK, Known
<1>3. InOrder => service = 0 /\ Replying /\ cmd[call] \notin SyncCommands
  BY <1>1 DEF ResponseInv, Orderly, Phases
<1>4. CASE ~Matches(remote)
  <2>1. Ends("raised") /\ "raised" \in Statuses /\ UNCHANGED data
    BY <1>4 DEF ReadOutput, Statuses
  <2> QED BY <1>1, <2>1, EndsSo
<1>5. CASE Matches(remote) /\ Incoming.cmd = "CLSE"
  <2>1. Ends("returned") /\ "returned" \in Statuses /\ UNCHANGED data /\ Send(Close(remote))
    BY <1>5 DEF ReadOutput, Statuses
  <2>2. ASSUME InOrder
        PROVE  /\ service' = 0 /\ AllOver /\ Left(out', inp', 1)
               /\ stream[remote].st = "closed" /\ stream[remote].service = <<call, 0>>
               /\ data'[call] = Chunks(remote, stream[remote].sent)
    <3>1. /\ OnlyOpen(remote) /\ out \in Seq(Acks)
          /\ Follows(inp, remote, stream[remote].st)
          /\ data[call] = Chunks(remote, Len(data[call]))
          /\ Told(inp, remote, stream[remote].sent, Len(data[call]))
      BY <1>3, <2>2 DEF Replying
    <3>2. inp' = <<>> /\ stream[remote].st = "closed" /\ None(inp, WritesOf(remote))
      BY <1>1, <1>5, <3>1, ReadsClose
    <3>3. AllOver
      BY <3>1, <3>2 DEF AllOver, OnlyOpen, Over
    <3>4. Left(out', inp', 1)
      <4>1. Close(remote) \in Packet /\ Close(remote).cmd = "CLSE"
        BY <1>2, InvParts, MsgTypes
      <4>2. <<>> \in Seq(CloseHeaders) /\ Len(<<>>) + 1 = 1
        OBVIOUS
      <4>3. Left(Append(out, Close(remote)), <<>>, 1)
        BY <3>1, <4>1, <4>2, LeftClose
      <4> QED BY <2>1, <3>2, <4>3 DEF Send
    <3>5. stream[remote].sent = Len(data[call])
      BY <3>1, <3>2 DEF Told
    <3> QED BY <1>1, <1>3, <2>1, <2>2, <3>1, <3>2, <3>3, <3>4, <3>5 DEF OnlyOpen
  <2> QED BY <1>1, <1>2, <2>1, <2>2, EndsSo
<1>6. CASE Matches(remote) /\ Incoming.cmd = "WRTE"
  <2>1. /\ Send(Okay(remote)) /\ UNCHANGED <<pc, status>>
        /\ data' = [data EXCEPT ![call] = Append(@, Incoming.data)]
    BY <1>6 DEF ReadOutput, AckIfWrite
  <2>2. ASSUME InOrder PROVE Phases'
    <3> DEFINE k == Len(data[call])
    <3>1. /\ OnlyOpen(remote) /\ out \in Seq(Acks)
          /\ Follows(inp, remote, stream[remote].st) /\ None(inp, OkaysOf(remote))
          /\ data[call] = Chunks(remote, k)
          /\ Told(inp, remote, stream[remote].sent, k)
      BY <1>3, <2>2 DEF Replying
    <3>2. /\ Incoming.arg0 = remote /\ Incoming.data \in Data /\ Incoming.data[1] = remote
          /\ Numbered(Incoming)
          /\ Once(inp, WritesOf(remote)) /\ None(inp', WritesOf(remote))
      BY <1>1, <1>2, <1>6, TakesWrite
    <3>3. data \in [Calls -> Seq(Data)] /\ k \in Nat
      BY <1>2, InvParts DEF CommandsTypeOK
    <3>4. stream[remote].sent = k + 1
      BY <3>1, <3>2 DEF Told
    <3>5. ~IsSync(remote)
      BY <1>3, <2>2, <3>1 DEF OnlyOpen, IsSync
    <3>6. Incoming.data = <<remote, k + 1>>
      <4>1. Incoming.data[2] = k + 1
        BY <3>2, <3>4, <3>5 DEF Numbered
      <4> QED BY <3>2, <4>1 DEF Data
    <3>7. data'[call] = Chunks(remote, k + 1) /\ Len(data'[call]) = k + 1
      <4>1. data'[call] = Append(data[call], Incoming.data)
        BY <1>2, <2>1, <3>3
      <4>2. k + 1 \in Nat
        BY <3>3
      <4> HIDE DEF k
      <4>3. Append(Chunks(remote, k), <<remote, k + 1>>) = Chunks(remote, k + 1)
        BY <1>2, <3>3, ChunksAdd
      <4>4. Len(Chunks(remote, k + 1)) = k + 1
        BY <1>2, <4>2, ChunksAdd
      <4> QED BY <3>1, <3>6, <4>1, <4>3, <4>4
    <3>8. out' \in Seq(Acks)
      <4>1. Okay(remote) \in Acks
        BY <1>2, InvParts, MsgTypes DEF Acks
      <4> QED BY <2>1, <3>1, <4>1, AddItem DEF Send
    <3>9. Follows(inp', remote, stream[remote].st) /\ None(inp', OkaysOf(remote))
      BY <1>1, <1>2, <3>1, FollowsRead, ReadKeeps
    <3>10. Told(inp', remote, stream[remote].sent, k + 1)
      BY <3>2, <3>4, NotBoth DEF Told
    <3>11. OnlyOpen(remote)'
      BY <1>1, <3>1 DEF OnlyOpen, Over
    <3> HIDE DEF k
    <3>12. Replying'
      BY <1>1, <3>7, <3>8, <3>9, <3>10, <3>11 DEF Replying, Chunks
    <3> QED BY <1>1, <1>3, <2>1, <2>2, <3>12 DEF Phases
  <2>3. \A n \in Calls : n # call => data'[n] = data[n]
    BY <2>1, InvParts DEF CommandsTypeOK
  <2>4. pc' \in {"open_again", "read", "echo", "sync_write", "sync_read", "sync_close"}
    BY <1>1, <2>1
  <2> QED BY <1>1, <2>1, <2>2, <2>3, <2>4, Continues
<1>7. Incoming.cmd \in {"CLSE", "WRTE"}
  BY <1>1 DEF Reads
<1> QED BY <1>4, <1>5, <1>6, <1>7

-----------------------------------------------------------------------------
(* The calls of the sync service.                                          *)
LEMMA SyncWriteOrderly == CommandsInv /\ ResponseInv /\ SyncWriteAnswer => ResponseInv'
<1> SUFFICES ASSUME CommandsInv, ResponseInv, SyncWriteAnswer PROVE ResponseInv'
  OBVIOUS
<1> DEFINE r == remote
<1>1. /\ pc = "sync_write" /\ Reads({"OKAY"}) /\ Busy
      /\ UNCHANGED <<stream, call, cmd, remote, service, data>>
  BY DEF SyncWriteAnswer, Busy
<1>2. /\ r \in RemoteIds /\ r \in Nat
      /\ call \in Calls /\ call \in Nat /\ inp \in Seq(Transfer) /\ out \in Seq(Packet)
  BY <1>1, InvParts, StreamType DEF CallOK, Known
<1>3. CASE ~Matches(r)
  <2>1. Ends("raised") /\ "raised" \in Statuses
    BY <1>3 DEF SyncWriteAnswer, Statuses
  <2> QED BY <1>1, <2>1, EndsSo
<1>4. CASE Matches(r)
  <2>1. /\ UNCHANGED status
        /\ \/ pc' = "sync_write" /\ Send(WriteMsg(call, written + 1, r))
           \/ pc' = "sync_read" /\ UNCHANGED out
    BY <1>1, <1>4 DEF SyncWriteAnswer
  <2>2. ASSUME InOrder PROVE Phases'
    <3>1. /\ service = 0 /\ Syncing /\ cmd[call] \in SyncCommands
      BY <1>1, <2>2 DEF ResponseInv, Orderly, Phases
    <3>2. OnlyOpen(r) /\ out \in Seq(Turns(r)) /\ Follows(inp, r, stream[r].st)
      BY <3>1 DEF Syncing
    <3>3. inp # <<>> /\ Head(inp) \in OkaysOf(r)
      <4>1. /\ inp # <<>> /\ Head(inp) = inp[1] /\ Head(inp) \in Transfer
            /\ Len(inp) \in Nat /\ Len(inp) >= 1
        BY <1>1, <1>2, ReadTakes, TakeItem
      <4>2. 1 \in 1..Len(inp)
        BY <4>1
      <4>3. Head(inp).packet.arg0 = r
        BY <3>2, <4>1, <4>2 DEF Follows
      <4> QED BY <1>1, <4>1, <4>3, InHeaders DEF OkaysOf, Reads, IsHeader, Incoming
    <3>4. Once(inp, OkaysOf(r)) /\ None(out, PendsOf(r))
      BY <1>2, <3>1, <3>3, TakeFound DEF Syncing
    <3>5. Follows(inp', r, stream[r].st) /\ None(inp', OkaysOf(r))
      BY <1>1, <1>2, <3>2, <3>3, <3>4, FollowsRead, ReadKeeps
    <3>6. out' \in Seq(Turns(r)) /\ IF pc' = "sync_write" THEN Once(out', PendsOf(r))
                                                          ELSE None(out', PendsOf(r))
      <4>1. CASE pc' = "sync_write" /\ Send(WriteMsg(call, written + 1, r))
        <5> DEFINE k == written + 1
                   p == WriteMsg(call, k, r)
        <5>1. p \in Packet /\ p.cmd = "WRTE" /\ p.arg1 = r
          <6>1. k \in Nat /\ call \in Nat /\ r \in Nat
            BY <1>2, InvParts DEF CommandsTypeOK
          <6> HIDE DEF k, r
          <6> QED BY <6>1, MsgTypes
        <5>2. out' = Append(out, p)
          BY <4>1 DEF Send
        <5> HIDE DEF p, r
        <5>3. p \in Turns(r) /\ p \in PendsOf(r)
          BY <5>1, InSent DEF Turns, PendsOf
        <5> QED BY <3>2, <3>4, <4>1, <5>2, <5>3, AddItem, AddKeeps
      <4>2. CASE pc' = "sync_read" /\ UNCHANGED out
        BY <3>2, <3>4, <4>2
      <4> QED BY <2>1, <4>1, <4>2
    <3>7. OnlyOpen(remote)'
      BY <1>1, <3>2 DEF OnlyOpen, Over
    <3>8. Syncing'
      BY <1>1, <2>1, <3>5, <3>6, <3>7 DEF Syncing
    <3> QED BY <1>1, <2>1, <3>1, <3>8 DEF Phases
  <2> QED BY <1>1, <2>1, <2>2, Continues
<1> QED BY <1>3, <1>4

LEMMA LeftClosing ==
  ASSUME NEW asked \in Seq(Acks), NEW p \in Packet, p.cmd = "CLSE",
         NEW more, more = Append(asked, p), NEW said \in Seq(CloseHeaders)
  PROVE  Left(more, said, Len(said) + 1)
BY LeftClose

LEMMA SeqOf ==
  ASSUME NEW E, NEW s \in Seq(E), NEW S, \A i \in 1..Len(s) : s[i] \in S
  PROVE  s \in Seq(S)
OBVIOUS

(* After its answer a service has at most a CLSE to send.                  *)
LEMMA AnswerLast ==
  ASSUME CommandsInv, NEW cmds, Reads(cmds), Incoming.cmd = "WRTE", NEW r \in RemoteIds,
         NEW st, Follows(inp, r, st), None(inp, OkaysOf(r)), None(inp', WritesOf(r)),
         Once(inp, WritesOf(r)), Head(inp) \in WritesOf(r), Incoming.data # NoData
  PROVE  inp' \in Seq(CloseHeaders) /\ Len(inp') <= 1 /\ (inp' # <<>> => st = "closed")
<1>1. /\ inp \in Seq(Transfer) /\ inp # <<>> /\ Len(inp) \in Nat /\ Len(inp) >= 1
      /\ inp' = SubSeq(inp, 3, Len(inp)) /\ Head(inp) = inp[1]
      /\ \A i \in 1..Len(inp) : inp[i] \in Transfer
  BY InvParts, ReadTakes DEF Reads, Transfers
<1>2. 1 \in 1..Len(inp) /\ \A j \in 1..Len(inp) : inp[j] \in WritesOf(r) => j = 1
  BY <1>1 DEF Once
<1>3. ASSUME NEW i \in 3..Len(inp)
      PROVE  inp[i] \in CloseHeaders /\ i = Len(inp) /\ st = "closed"
  <2>1. /\ i \in 1..Len(inp) /\ i - 1 \in 1..Len(inp) /\ i # 1 /\ i - 1 # 1
    BY <1>1
  <2>2. /\ inp[i].packet.arg0 = r
        /\ inp[i].packet.cmd \in {"OKAY", "WRTE", "CLSE"}
        /\ inp[i].packet.cmd = "CLSE" => inp[i] \in CloseHeaders /\ i = Len(inp) /\ st = "closed"
        /\ inp[i].kind = "payload" =>
             inp[i].packet.cmd = "WRTE" /\ inp[i - 1] = Header(inp[i].packet)
    BY <2>1 DEF Follows
  <2>3. inp[i] \in Transfer /\ inp[i - 1] \in Transfer /\ inp[i].packet \in Packet
        /\ inp[i].kind \in {"header", "payload"}
    BY <1>1, <2>1, TransferParts
  <2>4. inp[i].kind # "payload"
    <3> SUFFICES ASSUME inp[i].kind = "payload" PROVE FALSE
      OBVIOUS
    <3>1. inp[i - 1].kind = "header" /\ inp[i - 1].packet = inp[i].packet
      BY <2>2, <2>3, HeaderType
    <3>2. inp[i - 1] \in WritesOf(r)
      BY <2>2, <2>3, <3>1, InHeaders DEF WritesOf
    <3> QED BY <1>2, <2>1, <3>2
  <2>5. inp[i].packet.cmd # "WRTE"
    BY <1>2, <2>1, <2>2, <2>3, <2>4, InHeaders DEF WritesOf
  <2>6. inp[i].packet.cmd # "OKAY"
    BY <2>1, <2>2, <2>3, <2>4, InHeaders DEF None, OkaysOf
  <2> QED BY <2>2, <2>5, <2>6
<1>4. CASE Len(inp) <= 2
  <2>1. inp' = <<>>
    BY <1>1, <1>4, SubSeqEmpty
  <2> QED BY <2>1
<1>5. CASE Len(inp) >= 3
  <2>1. Len(inp) = 3 /\ inp[3] \in CloseHeaders /\ st = "closed"
    <3>1. 3 \in 3..Len(inp)
      BY <1>5
    <3> QED BY <1>3, <3>1
  <2>2. Len(inp') = 1 /\ inp' \in Seq(Transfer) /\ inp'[1] = inp[3]
    BY <1>1, <2>1, SubSeqProperties
  <2>3. inp' \in Seq(CloseHeaders)
    <3>1. \A i \in 1..Len(inp') : inp'[i] \in CloseHeaders
      BY <2>1, <2>2
    <3> QED BY <2>2, <3>1, SeqOf
  <2> QED BY <2>1, <2>2, <2>3
<1> QED BY <1>1, <1>4, <1>5

LEMMA SyncAnswerOrderly == CommandsInv /\ ResponseInv /\ SyncAnswer => ResponseInv'
<1> SUFFICES ASSUME CommandsInv, ResponseInv, SyncAnswer PROVE ResponseInv'
  OBVIOUS
<1> DEFINE r == remote
<1>1. /\ pc = "sync_read" /\ Reads({"WRTE"}) /\ Busy
      /\ UNCHANGED <<stream, call, cmd, remote, service>>
  BY DEF SyncAnswer, Busy
<1>2. /\ Known(r) /\ r \in RemoteIds /\ r \in Nat
      /\ call \in Calls /\ call \in Nat /\ inp \in Seq(Transfer) /\ out \in Seq(Packet)
  BY <1>1, InvParts, StreamType DEF CallOK, Known
<1>3. \A n \in Calls : n # call => data'[n] = data[n]
  BY InvParts DEF SyncAnswer, CommandsTypeOK
<1>4. CASE ~Matches(r) \/ ~IsSuccess
  <2>1. Ends("raised") /\ "raised" \in Statuses
    BY <1>4 DEF SyncAnswer, Statuses
  <2> QED BY <1>1, <1>3, <2>1, EndsSo
<1>5. CASE Matches(r) /\ IsSuccess
  <2>1. /\ UNCHANGED status /\ pc' = "sync_close"
        /\ out' = out \o <<Okay(r), Close(r)>>
    BY <1>5 DEF SyncAnswer
  <2>2. ASSUME InOrder PROVE Phases'
    <3>1. service = 0 /\ Syncing /\ cmd[call] \in SyncCommands
      BY <1>1, <2>2 DEF ResponseInv, Orderly, Phases
    <3>2. /\ OnlyOpen(r) /\ out \in Seq(Turns(r)) /\ Follows(inp, r, stream[r].st)
          /\ None(inp, OkaysOf(r)) /\ None(out, PendsOf(r))
      BY <1>1, <3>1 DEF Syncing
    <3>3. /\ Incoming.arg0 = r /\ Numbered(Incoming) /\ Incoming.cmd = "WRTE"
          /\ Once(inp, WritesOf(r)) /\ None(inp', WritesOf(r))
      <4>1. Incoming.cmd = "WRTE"
        BY <1>1 DEF Reads
      <4> QED BY <1>1, <1>2, <1>5, <4>1, TakesWrite
    <3>4. Incoming.data # NoData /\ IsSync(r) /\ stream[r].sent = 1
      BY <1>2, <1>5, <3>3 DEF IsSuccess, NoData, Numbered
    <3>5. Head(inp) \in WritesOf(r)
      <4>1. Head(inp) \in Transfer
        BY <1>1, <1>2, ReadTakes
      <4> QED BY <1>1, <3>3, <4>1, InHeaders DEF WritesOf, Reads, IsHeader, Incoming
    <3>6. /\ inp' \in Seq(CloseHeaders) /\ Len(inp') <= 1
          /\ inp' # <<>> => stream[r].st = "closed"
      BY <1>1, <1>2, <3>2, <3>3, <3>4, <3>5, AnswerLast
    <3>7. out \in Seq(Acks)
      <4>1. \A i \in 1..Len(out) : out[i] \in Acks
        BY <3>2 DEF None, Turns, Acks, PendsOf, Sent
      <4> QED BY <1>2, <4>1, SeqOf
    <3> DEFINE asked == Append(out, Okay(r))
    <3>8. /\ Okay(r) \in Acks /\ Close(r) \in Packet /\ Close(r).cmd = "CLSE"
          /\ Okay(r) \in Parts(r) /\ Close(r) \in Parts(r)
      BY <1>2, MsgTypes DEF Acks, Parts
    <3>9. asked \in Seq(Acks) /\ out' = Append(asked, Close(r))
      BY <2>1, <3>7, <3>8
    <3>10. out' \in Seq(Parts(r))
      <4>1. Acks \subseteq Parts(r)
        BY DEF Acks, Parts
      <4> QED BY <3>8, <3>9, <4>1, SeqWithin, AddItem
    <3> HIDE DEF asked, r
    <3>11. Left(out', inp', Len(inp') + 1)
      BY <3>6, <3>8, <3>9, LeftClosing
    <3>12. OnlyOpen(r)' /\ IsSync(r)' /\ stream'[r] = stream[r]
      BY <1>1, <3>2, <3>4 DEF OnlyOpen, Over, IsSync, r
    <3>13. CASE stream[r].st = "closed"
      <4>1. AllOver'
        BY <1>1, <3>2, <3>13 DEF AllOver, OnlyOpen, Over
      <4>2. Left(out', inp', 2)
        BY <3>6, <3>11, LeftLess
      <4> QED BY <2>1, <3>1, <4>1, <4>2, <1>1 DEF Phases, Closing
    <3>14. CASE inp' = <<>>
      <4>1. Left(out', inp', 1)
        BY <3>11, <3>14
      <4>2. stream[r].sent # 0
        BY <3>4
      <4> QED BY <1>1, <2>1, <3>1, <3>10, <3>12, <3>14, <4>1, <4>2 DEF Phases, Closing, r
    <3> QED BY <3>6, <3>13, <3>14
  <2> QED BY <1>1, <1>3, <2>1, <2>2, Continues
<1> QED BY <1>4, <1>5

LEMMA SyncClosedOrderly == CommandsInv /\ ResponseInv /\ SyncClosed => ResponseInv'
<1> SUFFICES ASSUME CommandsInv, ResponseInv, SyncClosed PROVE ResponseInv'
  OBVIOUS
<1>1. /\ pc = "sync_close" /\ Reads({"CLSE"}) /\ Busy
      /\ UNCHANGED <<out, stream, call, cmd, remote, service, data>>
  BY DEF SyncClosed, Busy
<1>2. PICK how \in Statuses : Ends(how)
  BY DEF SyncClosed, Statuses
<1>3. ASSUME InOrder
      PROVE  service = 0 /\ AllOver /\ Left(out, inp', 1) /\ cmd[call] \in SyncCommands
  <2>1. service = 0 /\ Closing /\ cmd[call] \in SyncCommands
    BY <1>1, <1>3 DEF ResponseInv, Orderly, Phases
  <2>2. inp # <<>>
    BY <1>1 DEF Reads, IsHeader
  <2>3. AllOver /\ Left(out, inp, 2)
    BY <2>1, <2>2 DEF Closing
  <2>4. inp' = Tail(inp)
    BY <1>1, <2>2, <2>3, LeftHead, ReadsHeader
  <2>5. Left(out, inp', 2 - 1)
    BY <2>2, <2>3, <2>4, LeftTake
  <2> QED BY <2>1, <2>3, <2>5
<1> QED BY <1>1, <1>2, <1>3, EndsSo

-----------------------------------------------------------------------------
(* The persistent connection, which is not used in an orderly program.     *)
LEMMA EchoOrderly == CommandsInv /\ ResponseInv /\ (WriteAnswer \/ ReadEcho) => ResponseInv'
<1> SUFFICES ASSUME CommandsInv, ResponseInv, WriteAnswer \/ ReadEcho PROVE ResponseInv'
  OBVIOUS
<1>1. /\ pc \in {"write", "echo"} /\ Busy /\ UNCHANGED <<stream, call, cmd, service>>
      /\ \A n \in Calls : n # call => data'[n] = data[n]
  BY InvParts DEF WriteAnswer, ReadEcho, Busy, CommandsTypeOK
<1>2. ~InOrder
  BY <1>1 DEF ResponseInv, Orderly, Phases
<1>3. \/ \E how \in Statuses : Ends(how)
      \/ pc' = "echo" /\ UNCHANGED status
  BY DEF WriteAnswer, ReadEcho, Statuses
<1> QED BY <1>1, <1>2, <1>3, EndsSo, Continues

(* No packet is skipped but those read before the OKAY of a WRTE.          *)
LEMMA SkipOrderly == CommandsInv /\ ResponseInv /\ SkipPacket => ResponseInv'
<1> SUFFICES ASSUME CommandsInv, ResponseInv, SkipPacket PROVE ResponseInv'
  OBVIOUS
<1>1. /\ Reading /\ Skips(ExpectedCmds)
      /\ UNCHANGED <<out, stream, pc, call, cmd, remote, service, status, data>>
  BY DEF SkipPacket, commandVars
<1>2. /\ inp \in Seq(Transfer) /\ inp # <<>> /\ Head(inp) \in Transfer
      /\ Head(inp).kind = "header" /\ Incoming.cmd \notin ExpectedCmds /\ inp' = Tail(inp)
      /\ Head(inp) = inp[1] /\ 1 \in 1..Len(inp) /\ Head(inp).packet = Incoming
  BY <1>1, InvParts, SkipTakes, TakeItem DEF Skips, IsHeader, Incoming
<1>3. InOrder' <=> InOrder
  BY <1>1 DEF InOrder, Finished, Busy, Tidy
<1>4. ASSUME NEW r, NEW st, Follows(inp, r, st)
      PROVE  Incoming.arg0 = r /\ Incoming.cmd \in {"OKAY", "WRTE", "CLSE"}
  BY <1>2, <1>4 DEF Follows
<1>5. ASSUME InOrder PROVE Phases'
  <2>1. Phases
    BY <1>5 DEF ResponseInv, Orderly
  <2>2. ASSUME NEW n \in 0..1, Opening(n) PROVE Incoming.cmd \in {"CLSE", "OKAY"}
    <3>1. CASE Asking(n) \/ Refusing(n)
      BY <1>2, <3>1, LeftHead DEF Asking, Refusing
    <3>2. ASSUME NEW r \in RemoteIds, Opened(n, r) PROVE Incoming.cmd \in {"CLSE", "OKAY"}
      <4>1. Pkt("OKAY", r, LocalId, NoData).cmd = "OKAY"
        BY DEF Pkt
      <4>2. Answered(inp, r, stream[r].st) => Incoming.cmd = "OKAY"
        BY <4>1 DEF Answered, Header, Incoming
      <4>3. Head(inp) \in CloseHeaders => Incoming.cmd = "CLSE"
        BY CloseIs DEF Incoming
      <4> QED BY <3>2, <4>2, <4>3 DEF Opened
    <3> QED BY <2>2, <3>1, <3>2 DEF Opening
  <2>3. pc \notin {"open", "open_again"}
    BY <1>2, <2>1, <2>2 DEF Phases, ExpectedCmds
  <2>4. pc # "read"
    <3> SUFFICES ASSUME pc = "read" PROVE FALSE
      OBVIOUS
    <3>1. Follows(inp, remote, stream[remote].st) /\ None(inp, OkaysOf(remote))
      BY <2>1 DEF Phases, Replying
    <3>2. Incoming.cmd = "OKAY" /\ Incoming.arg0 = remote
      BY <1>2, <1>4, <3>1 DEF ExpectedCmds
    <3>3. Head(inp) \in OkaysOf(remote)
      BY <1>2, <3>2, InHeaders DEF OkaysOf
    <3> QED BY <1>2, <3>1, <3>3, TakeFound
  <2>5. pc # "sync_close"
    <3> SUFFICES ASSUME pc = "sync_close" PROVE FALSE
      OBVIOUS
    <3>1. Left(out, inp, 2)
      BY <1>2, <2>1 DEF Phases, Closing
    <3> QED BY <1>2, <3>1, LeftHead DEF ExpectedCmds
  <2>6. ASSUME pc \in {"sync_write", "sync_read"} PROVE Syncing'
    <3>1. Syncing
      BY <2>1, <2>6 DEF Phases
    <3>2. /\ Follows(Tail(inp), remote, stream[remote].st)
          /\ None(inp, OkaysOf(remote)) => None(Tail(inp), OkaysOf(remote))
      BY <1>2, <3>1, FollowsTake, TakeKeeps DEF Syncing
    <3>3. pc = "sync_write" /\ Once(inp, OkaysOf(remote)) => Once(Tail(inp), OkaysOf(remote))
      <4>1. pc = "sync_write" => Head(inp) \notin OkaysOf(remote)
        BY <1>2, InHeaders DEF OkaysOf, ExpectedCmds
      <4> QED BY <1>2, <4>1, TakeKeeps
    <3>4. OnlyOpen(remote)'
      BY <1>1, <3>1 DEF Syncing, OnlyOpen, Over
    <3> QED BY <1>1, <1>2, <3>1, <3>2, <3>3, <3>4 DEF Syncing
  <2>7. pc # "idle"
    BY <1>1 DEF Reading, ExpectedCmds
  <2> QED BY <1>1, <2>1, <2>3, <2>4, <2>5, <2>6, <2>7 DEF Phases
<1>6. Unfinished'
  BY <1>1 DEF ResponseInv, Unfinished, Finished, Busy
<1>7. Responses'
  BY <1>1 DEF ResponseInv, Responses, Tidy, Chunks
<1> QED BY <1>3, <1>5, <1>6, <1>7 DEF ResponseInv, Orderly

(* The handle is closed.                                                   *)
LEMMA ClosesSo ==
  ASSUME CommandsInv, ResponseInv, pc \in {"idle", "closing"},
         UNCHANGED <<stream, call, cmd, status, data>>,
         pc' \in {"closing", "closed"}, service' \in {0, service}
  PROVE  ResponseInv'
<1>1. ~Busy /\ ~Busy' /\ Finished' = Finished
  BY DEF Busy, Finished
<1>2. InOrder' <=> InOrder
  BY <1>1 DEF InOrder, Tidy
<1>3. InOrder => Phases'
  BY DEF ResponseInv, Orderly, Phases
<1>4. Unfinished'
  BY <1>1 DEF ResponseInv, Unfinished
<1>5. Responses'
  BY DEF ResponseInv, Responses, Tidy, Chunks
<1> QED BY <1>2, <1>3, <1>4, <1>5 DEF ResponseInv, Orderly

LEMMA StopOrderly ==
  CommandsInv /\ ResponseInv /\ (Abandon \/ CloseDevice \/ CloseAnswer \/ Misread \/ ReadTimeout)
  => ResponseInv'
<1> SUFFICES ASSUME CommandsInv, ResponseInv,
                    Abandon \/ CloseDevice \/ CloseAnswer \/ Misread \/ ReadTimeout
             PROVE  ResponseInv'
  OBVIOUS
<1>1. UNCHANGED <<stream, call, cmd, data>>
  BY DEF Abandon, CloseDevice, CloseAnswer, Misread, ReadTimeout, wireVars, plan
<1>2. CASE Abandon
  <2>1. Busy /\ Ends("abandoned") /\ "abandoned" \in Statuses
    BY <1>2 DEF Abandon, Busy, Statuses
  <2> QED BY <1>1, <2>1, EndsSo
<1>3. CASE CloseDevice \/ CloseAnswer
  BY <1>1, <1>3, ClosesSo DEF CloseDevice, CloseAnswer
<1>4. CASE Misread \/ ReadTimeout
  <2>1. Reading /\ Fails /\ UNCHANGED service
    BY <1>4 DEF Misread, ReadTimeout
  <2>2. CASE pc = "closing"
    <3>1. pc' = "closed" /\ UNCHANGED status
      BY <2>1, <2>2 DEF Fails
    <3> QED BY <1>1, <2>1, <2>2, <3>1, ClosesSo
  <2>3. CASE pc # "closing"
    <3>1. Busy /\ Ends("raised") /\ "raised" \in Statuses
      BY <2>1, <2>3 DEF Fails, Busy, Reading, ExpectedCmds, Statuses
    <3> QED BY <1>1, <3>1, EndsSo
  <2> QED BY <2>2, <2>3
<1> QED BY <1>2, <1>3, <1>4

-----------------------------------------------------------------------------
LEMMA InitOrderly == Init => ResponseInv
<1> SUFFICES ASSUME Init PROVE ResponseInv
  OBVIOUS
<1>1. /\ out = <<>> /\ inp = <<>> /\ stream = [r \in RemoteIds |-> NoStream]
      /\ pc = "idle" /\ service = 0 /\ \A n \in Calls : status[n] = "none"
  BY DEF Init, WireInit
<1>2. AllOver
  BY <1>1 DEF AllOver, Over, NoStream
<1>3. Left(<<>>, <<>>, 1)
  BY EmptyNone DEF Left
<1>4. Orderly
  BY <1>1, <1>2, <1>3 DEF Orderly, Phases
<1> QED BY <1>1, <1>4 DEF ResponseInv, Unfinished, Responses

LEMMA NextOrderly == CommandsInv /\ ResponseInv /\ [Next]_vars => ResponseInv'
<1> SUFFICES ASSUME CommandsInv, ResponseInv, [Next]_vars PROVE ResponseInv'
  OBVIOUS
<1>1. CASE (DevPacket \/ \E r \in RemoteIds : Service(r)) /\ UNCHANGED commandVars
  BY <1>1, ResponseDev
<1>2. CASE Open
  BY <1>2, OpenOrderly
<1>3. CASE InteractiveShell
  BY <1>3, InteractiveOrderly
<1>4. CASE Abandon \/ CloseDevice
  BY <1>4, StopOrderly
<1>5. CASE Read
  BY <1>5, OpenAnswerOrderly, ReadOutputOrderly, EchoOrderly, SyncWriteOrderly,
     SyncAnswerOrderly, SyncClosedOrderly, SkipOrderly, StopOrderly DEF Read
<1>6. CASE UNCHANGED vars
  <2>1. UNCHANGED <<out, inp, stream, pc, call, cmd, remote, service, status, data>>
    BY <1>6 DEF vars, wireVars, commandVars, plan
  <2>2. (InOrder' <=> InOrder) /\ (AllOver' <=> AllOver)
    BY <2>1 DEF InOrder, Finished, Busy, Tidy, AllOver, Over
  <2>3. \A r : (OnlyOpen(r)' <=> OnlyOpen(r)) /\ (IsSync(r)' <=> IsSync(r))
    BY <2>1 DEF OnlyOpen, Over, IsSync
  <2>4. \A n : Opening(n)' <=> Opening(n)
    BY <2>1, <2>2, <2>3 DEF Opening, Asking, Refusing, Opened
  <2>5. (Replying' <=> Replying) /\ (Syncing' <=> Syncing) /\ (Closing' <=> Closing)
    BY <2>1, <2>2, <2>3 DEF Replying, Syncing, Closing, Chunks
  <2>6. Orderly'
    BY <2>1, <2>2, <2>4, <2>5 DEF ResponseInv, Orderly, Phases
  <2>7. Unfinished' /\ Responses'
    BY <2>1 DEF ResponseInv, Unfinished, Finished, Busy, Responses, Tidy, Chunks
  <2> QED BY <2>6, <2>7 DEF ResponseInv
<1> QED BY <1>1, <1>2, <1>3, <1>4, <1>5, <1>6 DEF Next

(* "Returns: The response from the service" (the docstring of Command),    *)
(* for any program: a Shell that returns has the whole output of the       *)
(* service it asked for, when no command before it raised, was dropped, or *)
(* left a stream open, though Open takes any stream's OKAY and a device    *)
(* may close every stream twice.                                           *)
THEOREM ReturnsItsResponse == Spec => []ResponseFromService
<1>1. ResponseInv => ResponseFromService
  BY DEF ResponseInv, Responses, ResponseFromService, Response
<1>2. CommandsInv /\ CommandsInv' /\ ResponseInv /\ [Next]_vars => ResponseInv'
  BY NextOrderly
<1> QED BY <1>1, <1>2, InitOrderly, CommandsInvariant, PTL DEF Spec

-----------------------------------------------------------------------------
(* In s, the first element of A comes before all of S; the last of S is in A. *)
First(s, A, S) == \E i \in 1..Len(s) : s[i] \in A /\ \A j \in 1..i-1 : s[j] \notin S
Latest(s, A, S) == \E i \in 1..Len(s) : s[i] \in A /\ \A j \in i+1..Len(s) : s[j] \notin S
NoneAhead(s, i, S) == \A j \in 1..i-1 : s[j] \notin S
OnceAhead(s, i, S) == \A j, k \in 1..i-1 : s[j] \in S /\ s[k] \in S => j = k

(* An installed package was pushed.  Whole(n) has no packet of an          *)
(* InteractiveShell, which is the only command that writes before its      *)
(* last packet was answered.                                               *)
InteractiveOf(r) == {p \in PendsOf(r) : p.data[2] = 0}
Plain(r) == \A j \in 1..Len(stream[r].got) : stream[r].got[j][2] # 0
OneAsked(r) ==
  \/ /\ None(inp, OkaysOf(r))
     /\ \/ None(out, PendsOf(r))
        \/ Once(out, PendsOf(r))
        \/ First(out, InteractiveOf(r), PendsOf(r))
  \/ Once(inp, OkaysOf(r)) /\ None(out, PendsOf(r))
Asks(r) ==
  /\ stream[r].st = "none" => None(inp, OkaysOf(r)) /\ None(out, PendsOf(r))
  /\ IsOpen(r) /\ Plain(r) => OneAsked(r)
AskedOnce == \A r \in RemoteIds : Asks(r)

Kept ==
  service # 0 =>
    \/ stream[service].st = "closed"
    \/ ~Plain(service)
    \/ First(out, InteractiveOf(service), PendsOf(service))

(* The answer of a sync service that has received a whole request: at most *)
(* one OKAY of its stream comes before it.                                 *)
Success(r) == {t \in WritesOf(r) : t.packet.data = <<r, 1>>}
SuccessBehind(r) ==
  IsSync(r) => \A i \in 1..Len(inp) : inp[i] \in Success(r) => OnceAhead(inp, i, OkaysOf(r))
SuccessOnce == \A r \in RemoteIds : SuccessBehind(r)

(* Where the last packet is that a call of the sync service has written.   *)
Writing == pc \in {"sync_write", "sync_read"}
Number == IF pc = "sync_read" THEN written - 1 ELSE written
Written(r) == {p \in PendsOf(r) : p.data = <<call, Number>>}
Arrived(r) == None(out, PendsOf(r)) /\ stream[r].got # <<>> /\ Last(stream[r].got) = <<call, Number>>
OnItsWay(r) == Latest(out, Written(r), PendsOf(r))
AllWritten(r) ==
  Number = Writes(cmd[call]) /\ stream[r].got = Whole(call) /\ None(out, PendsOf(r))

LastWritten ==
  Writing =>
    /\ Number \in 1..Writes(cmd[call])
    /\ pc = "sync_read" => Number = Writes(cmd[call])
    /\ IsOpen(remote) => Arrived(remote) \/ OnItsWay(remote)
    /\ pc = "sync_read" /\ IsOpen(remote) /\ Plain(remote) =>
         None(inp, OkaysOf(remote)) /\ None(out, PendsOf(remote))
SuccessOwn ==
  Writing /\ IsSync(remote) =>
    \A i \in 1..Len(inp) : inp[i] \in Success(remote) =>
      AllWritten(remote) \/ (pc = "sync_write" /\ NoneAhead(inp, i, OkaysOf(remote)))

(* What a stream has received stays when a CLSE comes before any WRTE.     *)
Sealed(r) == stream[r].st = "closed" \/ First(out, Sent("CLSE", r), PendsOf(r))
Pushed(n) == \E q \in RemoteIds : stream[q].got = Whole(n) /\ Sealed(q)

Rest == {<<>>, <<"push", "push">>, <<"push">>, <<"pm_install", "rm">>, <<"rm">>}
Installing ==
  /\ pc = "sync_close" => Pushed(call)
  /\ pending \in Rest
  /\ pending = <<"pm_install", "rm">> =>
       /\ call \in Calls /\ cmd[call] = "push"
       /\ pc \in {"idle", "open", "open_again", "sync_write", "sync_read", "sync_close"}
       /\ pc = "idle" => Pushed(call)
  /\ \A n \in 1..call : cmd[n] = "pm_install" => n > 1 /\ Pushed(n - 1)
  /\ pc \in {"sync_write", "sync_read", "sync_close"} => cmd[call] \in SyncCommands

PushInv == AskedOnce /\ Kept /\ SuccessOnce /\ LastWritten /\ SuccessOwn /\ Installing

-----------------------------------------------------------------------------
(* What is taken from the front of a sequence, and what is added.          *)
Drops(t, s) ==
  \E k \in Nat : /\ Len(t) + k = Len(s)
                 /\ \A i \in 1..Len(t) : t[i] = s[i + k]
DropsOne(t, s) ==
  \E k \in Nat \ {0} : /\ Len(t) + k = Len(s)
                       /\ \A i \in 1..Len(t) : t[i] = s[i + k]
Extends(t, s, S) ==
  /\ Len(t) >= Len(s)
  /\ \A i \in 1..Len(s) : t[i] = s[i]
  /\ \A i \in Len(s) + 1..Len(t) : t[i] \notin S

LEMMA DropsKeeps ==
  ASSUME NEW E, NEW s \in Seq(E), NEW t \in Seq(E), Drops(t, s), NEW S
  PROVE  /\ None(s, S) => None(t, S)
         /\ Once(s, S) => None(t, S) \/ Once(t, S)
<1>0. Len(s) \in Nat /\ Len(t) \in Nat
  OBVIOUS
<1>1. PICK k \in Nat : Len(t) + k = Len(s) /\ \A i \in 1..Len(t) : t[i] = s[i + k]
  BY DEF Drops
<1>2. \A i \in 1..Len(t) : i + k \in 1..Len(s)
  BY <1>0, <1>1
<1>3. ASSUME None(s, S) PROVE None(t, S)
  BY <1>1, <1>2, <1>3 DEF None
<1>4. ASSUME Once(s, S), ~None(t, S) PROVE Once(t, S)
  <2>1. PICK i \in 1..Len(t) : t[i] \in S
    BY <1>4 DEF None
  <2>2. \A j \in 1..Len(t) : t[j] \in S => j = i
    BY <1>0, <1>1, <1>2, <1>4, <2>1 DEF Once
  <2> QED BY <2>1, <2>2 DEF Once
<1> QED BY <1>3, <1>4

LEMMA DropsAhead ==
  ASSUME NEW E, NEW s \in Seq(E), NEW t \in Seq(E), Drops(t, s), NEW S, NEW A
  PROVE  \A i \in 1..Len(t) : t[i] \in A =>
           \E n \in 1..Len(s) :
             /\ s[n] \in A
             /\ NoneAhead(s, n, S) => NoneAhead(t, i, S)
             /\ OnceAhead(s, n, S) => OnceAhead(t, i, S)
<1>0. Len(s) \in Nat /\ Len(t) \in Nat
  OBVIOUS
<1>1. PICK k \in Nat : Len(t) + k = Len(s) /\ \A i \in 1..Len(t) : t[i] = s[i + k]
  BY DEF Drops
<1>2. \A i \in 1..Len(t) : i + k \in 1..Len(s)
  BY <1>0, <1>1
<1> TAKE i \in 1..Len(t)
<1> HAVE t[i] \in A
<1>3. s[i + k] \in A
  BY <1>1
<1>4. \A j \in 1..i-1 : j \in 1..Len(t) /\ j + k \in 1..(i + k)-1 /\ t[j] = s[j + k]
  BY <1>0, <1>1
<1>5. NoneAhead(s, i + k, S) => NoneAhead(t, i, S)
  BY <1>4 DEF NoneAhead
<1>6. ASSUME OnceAhead(s, i + k, S) PROVE OnceAhead(t, i, S)
  <2>1. \A j, l \in 1..i-1 : t[j] \in S /\ t[l] \in S => j + k = l + k
    BY <1>4, <1>6 DEF OnceAhead
  <2> QED BY <2>1 DEF OnceAhead
<1> QED BY <1>2, <1>3, <1>5, <1>6

(* The first element is what comes once.                                   *)
LEMMA DropsFirst ==
  ASSUME NEW E, NEW s \in Seq(E), NEW t \in Seq(E), DropsOne(t, s), NEW S, NEW A,
         Head(s) \in S
  PROVE  /\ Once(s, S) => None(t, S)
         /\ \A i \in 1..Len(t) : t[i] \in A =>
              \E n \in 1..Len(s) :
                /\ s[n] \in A
                /\ OnceAhead(s, n, S) => NoneAhead(t, i, S)
                /\ ~NoneAhead(s, n, S)
<1>0. Len(s) \in Nat /\ Len(t) \in Nat
  OBVIOUS
<1>1. PICK k \in Nat \ {0} : Len(t) + k = Len(s) /\ \A i \in 1..Len(t) : t[i] = s[i + k]
  BY DEF DropsOne
<1>2. \A i \in 1..Len(t) : i + k \in 1..Len(s) /\ i + k # 1
  BY <1>0, <1>1
<1>3. Len(s) >= 1 /\ s # <<>> /\ s[1] \in S
  BY <1>0, <1>1
<1>4. ASSUME Once(s, S) PROVE None(t, S)
  <2>1. \A j \in 1..Len(s) : s[j] \in S => j = 1
    BY <1>0, <1>3, <1>4 DEF Once
  <2> QED BY <1>1, <1>2, <2>1 DEF None
<1>5. ASSUME NEW i \in 1..Len(t), t[i] \in A
      PROVE  /\ s[i + k] \in A
             /\ OnceAhead(s, i + k, S) => NoneAhead(t, i, S)
             /\ ~NoneAhead(s, i + k, S)
  <2>1. 1 \in 1..(i + k) - 1
    BY <1>0, <1>1
  <2>2. \A j \in 1..i-1 : j \in 1..Len(t) /\ j + k \in 1..(i + k)-1 /\ t[j] = s[j + k] /\ j + k # 1
    BY <1>0, <1>1
  <2>3. s[i + k] \in A
    BY <1>1, <1>5
  <2>4. ~NoneAhead(s, i + k, S)
    BY <1>3, <2>1 DEF NoneAhead
  <2>5. OnceAhead(s, i + k, S) => NoneAhead(t, i, S)
    BY <1>3, <2>1, <2>2 DEF OnceAhead, NoneAhead
  <2> QED BY <2>3, <2>4, <2>5
<1>6. \A i \in 1..Len(t) : t[i] \in A =>
        \E n \in 1..Len(s) : /\ s[n] \in A
                             /\ OnceAhead(s, n, S) => NoneAhead(t, i, S)
                             /\ ~NoneAhead(s, n, S)
  BY <1>2, <1>5
<1> QED BY <1>4, <1>6

LEMMA ExtendsKeeps ==
  ASSUME NEW E, NEW s \in Seq(E), NEW t \in Seq(E), NEW S, Extends(t, s, S)
  PROVE  /\ None(s, S) => None(t, S)
         /\ Once(s, S) => Once(t, S)
         /\ \A A : Latest(s, A, S) => Latest(t, A, S)
<1>1. /\ Len(s) \in Nat /\ Len(t) \in Nat /\ Len(t) >= Len(s)
      /\ \A i \in 1..Len(s) : i \in 1..Len(t) /\ t[i] = s[i]
      /\ \A i \in 1..Len(t) : i \in 1..Len(s) \/ i \in Len(s) + 1..Len(t)
      /\ \A i \in Len(s) + 1..Len(t) : t[i] \notin S
  BY DEF Extends
<1>2. ASSUME None(s, S) PROVE None(t, S)
  BY <1>1, <1>2 DEF None
<1>3. ASSUME Once(s, S) PROVE Once(t, S)
  <2>1. PICK i \in 1..Len(s) : s[i] \in S /\ \A j \in 1..Len(s) : s[j] \in S => j = i
    BY <1>3 DEF Once
  <2>2. i \in 1..Len(t) /\ t[i] \in S /\ \A j \in 1..Len(t) : t[j] \in S => j = i
    BY <1>1, <2>1
  <2> QED BY <2>2 DEF Once
<1>4. ASSUME NEW A, Latest(s, A, S) PROVE Latest(t, A, S)
  <2>1. PICK i \in 1..Len(s) : s[i] \in A /\ \A j \in i+1..Len(s) : s[j] \notin S
    BY <1>4 DEF Latest
  <2>2. \A j \in i+1..Len(t) : j \in i+1..Len(s) \/ j \in Len(s) + 1..Len(t)
    BY <1>1
  <2>3. \A j \in i+1..Len(s) : j \in 1..Len(s)
    BY <1>1
  <2>4. \A j \in i+1..Len(t) : t[j] \notin S
    BY <1>1, <2>1, <2>2, <2>3
  <2> QED BY <1>1, <2>1, <2>4 DEF Latest
<1> QED BY <1>2, <1>3, <1>4

(* What is added leaves the elements before it as they are.                *)
LEMMA ExtendsAhead ==
  ASSUME NEW E, NEW s \in Seq(E), NEW t \in Seq(E), NEW A, Extends(t, s, A), NEW S
  PROVE  /\ First(s, A, S) => First(t, A, S)
         /\ \A i \in 1..Len(t) : t[i] \in A =>
              /\ i \in 1..Len(s) /\ s[i] \in A
              /\ NoneAhead(s, i, S) => NoneAhead(t, i, S)
              /\ OnceAhead(s, i, S) => OnceAhead(t, i, S)
<1>1. /\ Len(s) \in Nat /\ Len(t) \in Nat /\ Len(t) >= Len(s)
      /\ \A i \in 1..Len(s) : i \in 1..Len(t) /\ t[i] = s[i]
      /\ \A i \in 1..Len(t) : i \in 1..Len(s) \/ i \in Len(s) + 1..Len(t)
      /\ \A i \in Len(s) + 1..Len(t) : t[i] \notin A
  BY DEF Extends
<1>2. \A i \in 1..Len(s) : \A j \in 1..i-1 : j \in 1..Len(s)
  BY <1>1
<1>3. First(s, A, S) => First(t, A, S)
  BY <1>1, <1>2 DEF First
<1>4. \A i \in 1..Len(t) : t[i] \in A =>
              /\ i \in 1..Len(s) /\ s[i] \in A
              /\ NoneAhead(s, i, S) => NoneAhead(t, i, S)
              /\ OnceAhead(s, i, S) => OnceAhead(t, i, S)
  BY <1>1, <1>2 DEF NoneAhead, OnceAhead
<1> QED BY <1>3, <1>4

LEMMA FirstStays ==
  ASSUME NEW E, NEW s \in Seq(E), NEW t \in Seq(E), Len(t) >= Len(s),
         \A i \in 1..Len(s) : t[i] = s[i], NEW A, NEW S, First(s, A, S)
  PROVE  First(t, A, S)
<1>1. Len(s) \in Nat /\ Len(t) \in Nat
  OBVIOUS
<1>2. PICK i \in 1..Len(s) : s[i] \in A /\ \A j \in 1..i-1 : s[j] \notin S
  BY DEF First
<1>3. i \in 1..Len(t) /\ \A j \in 1..i-1 : j \in 1..Len(s)
  BY <1>1
<1> QED BY <1>2, <1>3 DEF First

LEMMA FirstAdded ==
  ASSUME NEW E, NEW s \in Seq(E), NEW e \in E, NEW A, NEW S, None(s, S), e \in A
  PROVE  First(Append(s, e), A, S)
<1> DEFINE t == Append(s, e)
<1>1. /\ Len(s) \in Nat /\ Len(t) = Len(s) + 1 /\ t[Len(s) + 1] = e
      /\ \A i \in 1..Len(s) : t[i] = s[i]
  BY AddItem
<1> HIDE DEF t
<1>2. Len(s) + 1 \in 1..Len(t) /\ \A j \in 1..(Len(s) + 1)-1 : j \in 1..Len(s)
  BY <1>1
<1>3. First(t, A, S)
  BY <1>1, <1>2 DEF First, None
<1> QED BY <1>3 DEF t

LEMMA FirstTake ==
  ASSUME NEW E, NEW s \in Seq(E), s # <<>>, NEW A, NEW S, First(s, A, S), Head(s) \notin A
  PROVE  First(Tail(s), A, S) /\ Head(s) \notin S
<1> DEFINE t == Tail(s)
<1>1. /\ Len(s) \in Nat /\ Len(s) >= 1 /\ Len(t) = Len(s) - 1 /\ Head(s) = s[1]
      /\ \A i \in 1..Len(t) : t[i] = s[i + 1]
  BY TakeItem
<1> HIDE DEF t
<1>2. PICK i \in 1..Len(s) : s[i] \in A /\ \A j \in 1..i-1 : s[j] \notin S
  BY DEF First
<1>3. i # 1 /\ i - 1 \in 1..Len(t) /\ t[i - 1] = s[i] /\ 1 \in 1..i-1
  BY <1>1, <1>2
<1>4. \A j \in 1..(i - 1)-1 : j \in 1..Len(t) /\ j + 1 \in 1..i-1
  BY <1>1, <1>3
<1>5. First(t, A, S)
  BY <1>1, <1>2, <1>3, <1>4 DEF First
<1> QED BY <1>1, <1>2, <1>3, <1>5 DEF t

LEMMA LatestAdded ==
  ASSUME NEW E, NEW s \in Seq(E), NEW e \in E, NEW A, NEW S, e \in A
  PROVE  Latest(Append(s, e), A, S)
<1> DEFINE t == Append(s, e)
<1>1. Len(s) \in Nat /\ Len(t) = Len(s) + 1 /\ t[Len(s) + 1] = e
  BY AddItem
<1> HIDE DEF t
<1>2. Len(s) + 1 \in 1..Len(t) /\ \A j \in (Len(s) + 1)+1..Len(t) : FALSE
  BY <1>1
<1>3. Latest(t, A, S)
  BY <1>1, <1>2 DEF Latest
<1> QED BY <1>3 DEF t

LEMMA LatestTake ==
  ASSUME NEW E, NEW s \in Seq(E), s # <<>>, NEW A, NEW S, Latest(s, A, S)
  PROVE  Latest(Tail(s), A, S) \/ (Head(s) \in A /\ None(Tail(s), S))
<1> DEFINE t == Tail(s)
<1>1. /\ Len(s) \in Nat /\ Len(s) >= 1 /\ Len(t) = Len(s) - 1 /\ Head(s) = s[1]
      /\ \A i \in 1..Len(t) : t[i] = s[i + 1]
  BY TakeItem
<1> HIDE DEF t
<1>2. PICK i \in 1..Len(s) : s[i] \in A /\ \A j \in i+1..Len(s) : s[j] \notin S
  BY DEF Latest
<1>3. CASE i = 1
  <2>1. \A j \in 1..Len(t) : j + 1 \in i+1..Len(s)
    BY <1>1, <1>3
  <2>2. None(t, S)
    BY <1>1, <1>2, <2>1 DEF None
  <2> QED BY <1>1, <1>2, <1>3, <2>2 DEF t
<1>4. CASE i # 1
  <2>1. i - 1 \in 1..Len(t) /\ t[i - 1] = s[i]
    BY <1>1, <1>4
  <2>2. \A j \in (i - 1)+1..Len(t) : j \in 1..Len(t) /\ j + 1 \in i+1..Len(s)
    BY <1>1, <1>4
  <2>3. Latest(t, A, S)
    BY <1>1, <1>2, <2>1, <2>2 DEF Latest
  <2> QED BY <2>3 DEF t
<1> QED BY <1>3, <1>4

-----------------------------------------------------------------------------
(* What a step of the host does to the wire.                               *)
LEMMA ReadDrops ==
  ASSUME inp \in Seq(Transfer), NEW cmds, Reads(cmds)
  PROVE  inp' \in Seq(Transfer) /\ DropsOne(inp', inp) /\ Drops(inp', inp)
<1> DEFINE t == Tail(inp)
<1>1. /\ inp # <<>>
      /\ inp' = t \/ (t # <<>> /\ inp' = Tail(t))
  BY ReadTakes
<1>2. /\ t \in Seq(Transfer) /\ Len(inp) \in Nat /\ Len(t) = Len(inp) - 1
      /\ \A i \in 1..Len(t) : t[i] = inp[i + 1]
  BY <1>1, TakeItem
<1> HIDE DEF t
<1>3. CASE inp' = t
  <2>1. 1 \in Nat \ {0} /\ Len(t) + 1 = Len(inp)
    BY <1>2
  <2> QED BY <1>2, <1>3, <2>1 DEF Drops, DropsOne
<1>4. CASE t # <<>> /\ inp' = Tail(t)
  <2>1. /\ inp' \in Seq(Transfer) /\ Len(inp') = Len(t) - 1
        /\ \A i \in 1..Len(inp') : inp'[i] = t[i + 1]
    BY <1>2, <1>4, TakeItem
  <2>2. \A i \in 1..Len(inp') : i + 1 \in 1..Len(t) /\ (i + 1) + 1 = i + 2
    BY <1>2, <2>1
  <2>3. 2 \in Nat \ {0} /\ Len(inp') + 2 = Len(inp) /\ \A i \in 1..Len(inp') : inp'[i] = inp[i + 2]
    BY <1>2, <2>1, <2>2
  <2> QED BY <2>1, <2>3 DEF Drops, DropsOne
<1> QED BY <1>1, <1>3, <1>4

LEMMA TailDrops ==
  ASSUME NEW s \in Seq(Transfer), s # <<>>
  PROVE  Tail(s) \in Seq(Transfer) /\ DropsOne(Tail(s), s) /\ Drops(Tail(s), s)
<1> DEFINE t == Tail(s)
<1>1. /\ t \in Seq(Transfer) /\ Len(s) \in Nat /\ Len(t) = Len(s) - 1
      /\ \A i \in 1..Len(t) : t[i] = s[i + 1]
  BY TakeItem
<1> HIDE DEF t
<1>2. 1 \in Nat \ {0} /\ Len(t) + 1 = Len(s)
  BY <1>1
<1>3. t \in Seq(Transfer) /\ DropsOne(t, s) /\ Drops(t, s)
  BY <1>1, <1>2 DEF Drops, DropsOne
<1> QED BY <1>3 DEF t

LEMMA SameDrops ==
  ASSUME NEW s \in Seq(Transfer)
  PROVE  Drops(s, s)
<1>1. 0 \in Nat /\ Len(s) + 0 = Len(s) /\ \A i \in 1..Len(s) : s[i] = s[i + 0]
  OBVIOUS
<1> QED BY <1>1 DEF Drops

LEMMA SameExtends ==
  ASSUME NEW E, NEW s \in Seq(E), NEW S
  PROVE  Extends(s, s, S)
<1>1. Len(s) \in Nat /\ Len(s) >= Len(s) /\ \A i \in Len(s) + 1..Len(s) : FALSE
  OBVIOUS
<1> QED BY <1>1 DEF Extends

LEMMA AddExtends ==
  ASSUME NEW E, NEW s \in Seq(E), NEW e \in E
  PROVE  /\ Append(s, e) \in Seq(E)
         /\ \A S : e \notin S => Extends(Append(s, e), s, S)
         /\ Len(Append(s, e)) >= Len(s) /\ \A i \in 1..Len(s) : Append(s, e)[i] = s[i]
<1> DEFINE t == Append(s, e)
<1>1. /\ t \in Seq(E) /\ Len(s) \in Nat /\ Len(t) = Len(s) + 1 /\ t[Len(s) + 1] = e
      /\ \A i \in 1..Len(s) : t[i] = s[i]
  BY AddItem
<1> HIDE DEF t
<1>2. Len(t) >= Len(s) /\ \A i \in Len(s) + 1..Len(t) : i = Len(s) + 1
  BY <1>1
<1>3. \A S : e \notin S => Extends(t, s, S)
  BY <1>1, <1>2 DEF Extends
<1> QED BY <1>1, <1>2, <1>3 DEF t

LEMMA ExtendsTwice ==
  ASSUME NEW E, NEW s \in Seq(E), NEW t \in Seq(E), NEW u \in Seq(E), NEW S,
         Extends(t, s, S), Extends(u, t, S)
  PROVE  Extends(u, s, S)
<1>1. /\ Len(s) \in Nat /\ Len(t) \in Nat /\ Len(u) \in Nat
      /\ Len(t) >= Len(s) /\ Len(u) >= Len(t)
  BY DEF Extends
<1>2. \A i \in 1..Len(s) : i \in 1..Len(t)
  BY <1>1
<1>3. \A i \in Len(s) + 1..Len(u) :
        (i \in Len(s) + 1..Len(t) /\ i \in 1..Len(t)) \/ i \in Len(t) + 1..Len(u)
  BY <1>1
<1> QED BY <1>1, <1>2, <1>3 DEF Extends

-----------------------------------------------------------------------------
(* A step of the host that writes no WRTE.                                 *)
LEMMA AsksQuiet ==
  ASSUME CommandsInv, AskedOnce, UNCHANGED stream, inp' \in Seq(Transfer), out' \in Seq(Packet),
         Drops(inp', inp), NEW r \in RemoteIds, Extends(out', out, PendsOf(r))
  PROVE  Asks(r)'
<1>1. inp \in Seq(Transfer) /\ out \in Seq(Packet) /\ Asks(r)
  BY InvParts DEF AskedOnce
<1>2. /\ None(inp, OkaysOf(r)) => None(inp', OkaysOf(r))
      /\ Once(inp, OkaysOf(r)) => None(inp', OkaysOf(r)) \/ Once(inp', OkaysOf(r))
  BY <1>1, DropsKeeps
<1>3. /\ None(out, PendsOf(r)) => None(out', PendsOf(r))
      /\ Once(out, PendsOf(r)) => Once(out', PendsOf(r))
  BY <1>1, ExtendsKeeps
<1>4. ASSUME First(out, InteractiveOf(r), PendsOf(r))
      PROVE  First(out', InteractiveOf(r), PendsOf(r))
  <2>1. Len(out') >= Len(out) /\ \A i \in 1..Len(out) : out'[i] = out[i]
    BY DEF Extends
  <2> QED BY <1>1, <1>4, <2>1, FirstStays
<1>5. (IsOpen(r)' <=> IsOpen(r)) /\ (Plain(r)' <=> Plain(r)) /\ stream'[r].st = stream[r].st
  BY DEF IsOpen, Plain
<1>6. OneAsked(r) => OneAsked(r)'
  BY <1>2, <1>3, <1>4 DEF OneAsked, OkaysOf, PendsOf, InteractiveOf
<1>7. /\ None(inp, OkaysOf(r)) /\ None(out, PendsOf(r))
        => (None(inp, OkaysOf(r)) /\ None(out, PendsOf(r)))'
  BY <1>2, <1>3 DEF OkaysOf, PendsOf
<1> QED BY <1>1, <1>5, <1>6, <1>7 DEF Asks

LEMMA SuccessHost ==
  ASSUME CommandsInv, SuccessOnce, UNCHANGED stream, call' \in Nat, call' >= call,
         \A n \in 1..call : cmd'[n] = cmd[n], inp' \in Seq(Transfer), Drops(inp', inp)
  PROVE  SuccessOnce'
<1> SUFFICES ASSUME NEW r \in RemoteIds, IsSync(r)'
             PROVE  \A i \in 1..Len(inp') : inp'[i] \in Success(r) => OnceAhead(inp', i, OkaysOf(r))
  BY DEF SuccessOnce, SuccessBehind, Success, OkaysOf, OnceAhead
<1>1. IsSync(r) /\ inp \in Seq(Transfer)
  BY InvParts, HostWire
<1>2. \A i \in 1..Len(inp) : inp[i] \in Success(r) => OnceAhead(inp, i, OkaysOf(r))
  BY <1>1 DEF SuccessOnce, SuccessBehind
<1> QED BY <1>1, <1>2, DropsAhead

LEMMA KeptHost ==
  ASSUME CommandsInv, Kept, UNCHANGED stream, service' \in {0, service},
         out' \in Seq(Packet), Len(out') >= Len(out), \A i \in 1..Len(out) : out'[i] = out[i]
  PROVE  Kept'
<1> SUFFICES ASSUME service' # 0 PROVE Kept'
  BY DEF Kept
<1> DEFINE r == service
<1>1. service' = r /\ r # 0
  OBVIOUS
<1> HIDE DEF r
<1>2. stream[r].st = "closed" \/ ~Plain(r) \/ First(out, InteractiveOf(r), PendsOf(r))
  BY <1>1 DEF Kept, r
<1>3. First(out, InteractiveOf(r), PendsOf(r)) => First(out', InteractiveOf(r), PendsOf(r))
  BY InvParts, FirstStays
<1>4. stream'[r].st = "closed" \/ ~Plain(r)' \/ First(out, InteractiveOf(r), PendsOf(r))'
  BY <1>2, <1>3 DEF Plain, InteractiveOf, PendsOf, r
<1> QED BY <1>1, <1>4 DEF Kept, r

LEMMA PushedHost ==
  ASSUME CommandsInv, UNCHANGED stream, NEW n, cmd'[n] = cmd[n],
         out' \in Seq(Packet), Len(out') >= Len(out), \A i \in 1..Len(out) : out'[i] = out[i],
         Pushed(n)
  PROVE  Pushed(n)'
<1>1. PICK q \in RemoteIds : stream[q].got = Whole(n) /\ Sealed(q)
  BY DEF Pushed
<1>2. First(out, Sent("CLSE", q), PendsOf(q)) => First(out', Sent("CLSE", q), PendsOf(q))
  BY InvParts, FirstStays
<1>3. Sealed(q)'
  BY <1>1, <1>2 DEF Sealed, Sent, PendsOf
<1>4. stream'[q].got = Whole(n)'
  BY <1>1 DEF Whole
<1> QED BY <1>3, <1>4 DEF Pushed

(* The place of a program in an Install when its command goes on or ends.  *)
SyncPc == {"sync_write", "sync_read", "sync_close"}
LEMMA InstallingHost ==
  ASSUME CommandsInv, Installing, UNCHANGED <<stream, call, cmd>>,
         out' \in Seq(Packet), Len(out') >= Len(out), \A i \in 1..Len(out) : out'[i] = out[i],
         pending' \in {pending, <<>>},
         pc' = "sync_close" => Pushed(call)',
         pending' = <<"pm_install", "rm">> =>
           /\ pc' \in {"idle", "open", "open_again"} \cup SyncPc
           /\ pc' = "idle" => Pushed(call),
         pc' \in SyncPc => cmd[call] \in SyncCommands
  PROVE  Installing'
<1>1. pending' \in Rest
  BY DEF Installing, Rest
<1>2. \A n \in 1..call : cmd[n] = "pm_install" => n > 1 /\ Pushed(n - 1)'
  BY PushedHost DEF Installing
<1>3. Pushed(call) => Pushed(call)'
  BY PushedHost
<1>4. pending' = <<"pm_install", "rm">> => call' \in Calls /\ cmd'[call'] = "push"
  BY DEF Installing
<1>5. (pc' = "sync_close" => Pushed(call)') /\ (pc' \in SyncPc => cmd'[call'] \in SyncCommands)
  OBVIOUS
<1>6. pending' = <<"pm_install", "rm">> =>
         /\ pc' \in {"idle", "open", "open_again", "sync_write", "sync_read", "sync_close"}
         /\ pc' = "idle" => Pushed(call)'
  BY <1>3 DEF SyncPc
<1>7. \A n \in 1..call' : cmd'[n] = "pm_install" => n > 1 /\ Pushed(n - 1)'
  BY <1>2
<1> QED BY <1>1, <1>4, <1>5, <1>6, <1>7 DEF Installing, SyncPc

LEMMA HostPush ==
  ASSUME CommandsInv, PushInv, UNCHANGED stream, call' \in Nat, call' >= call,
         \A n \in 1..call : cmd'[n] = cmd[n],
         inp' \in Seq(Transfer), Drops(inp', inp), out' \in Seq(Packet),
         \A r \in RemoteIds : Extends(out', out, PendsOf(r)),
         Len(out') >= Len(out), \A i \in 1..Len(out) : out'[i] = out[i],
         service' \in {0, service}, pc' \notin {"sync_write", "sync_read"}, Installing'
  PROVE  PushInv'
<1>1. AskedOnce'
  BY AsksQuiet DEF AskedOnce, PushInv
<1>2. SuccessOnce'
  BY SuccessHost DEF PushInv
<1>3. Kept'
  BY KeptHost DEF PushInv
<1>4. LastWritten' /\ SuccessOwn'
  BY DEF LastWritten, SuccessOwn, Writing
<1> QED BY <1>1, <1>2, <1>3, <1>4 DEF PushInv

-----------------------------------------------------------------------------
(* The commands of a call, and what is left of them.                       *)
LEMMA TailOfOne == ASSUME NEW a PROVE Head(<<a>>) = a /\ Tail(<<a>>) = <<>>
<1> DEFINE s == <<a>>
<1>1. s \in Seq({a}) /\ s # <<>> /\ Len(s) = 1 /\ s[1] = a
  OBVIOUS
<1> HIDE DEF s
<1>2. Tail(s) \in Seq({a}) /\ Len(Tail(s)) = 0 /\ Head(s) = a
  BY <1>1, TakeItem
<1>3. Tail(s) = <<>>
  BY <1>2, EmptySeq
<1> QED BY <1>2, <1>3 DEF s

LEMMA TailOfTwo == ASSUME NEW a, NEW b PROVE Head(<<a, b>>) = a /\ Tail(<<a, b>>) = <<b>>
OBVIOUS

LEMMA TailOfThree ==
  ASSUME NEW a, NEW b, NEW c PROVE Head(<<a, b, c>>) = a /\ Tail(<<a, b, c>>) = <<b, c>>
OBVIOUS

LEMMA PlanRest ==
  ASSUME NEW x \in DOMAIN Plan
  PROVE  /\ Tail(Plan[x]) \in Rest /\ Head(Plan[x]) # "pm_install"
         /\ Tail(Plan[x]) = <<"pm_install", "rm">> => Head(Plan[x]) = "push"
<1>1. DOMAIN Plan = {"Shell", "StreamingShell", "InteractiveShell", "Reboot", "Push",
                     "PushDirectory", "Pull", "Install"}
  BY DEF Plan
<1>2. /\ Plan["Shell"] = <<"shell">> /\ Plan["StreamingShell"] = <<"streaming">>
      /\ Plan["InteractiveShell"] = <<"interactive">> /\ Plan["Reboot"] = <<"reboot">>
      /\ Plan["Push"] = <<"push">> /\ Plan["PushDirectory"] = <<"mkdir", "push", "push">>
      /\ Plan["Pull"] = <<"pull">> /\ Plan["Install"] = <<"push", "pm_install", "rm">>
  BY DEF Plan
<1> HIDE DEF Plan
<1>3. CASE x = "PushDirectory"
  <2>0. Plan[x] = <<"mkdir", "push", "push">>
    BY <1>2, <1>3
  <2>1. Head(Plan[x]) = "mkdir" /\ Tail(Plan[x]) = <<"push", "push">>
    BY <2>0, TailOfThree
  <2>2. <<"push", "push">>[1] # <<"pm_install", "rm">>[1]
    OBVIOUS
  <2> QED BY <2>1, <2>2 DEF Rest
<1>4. CASE x = "Install"
  <2>0. Plan[x] = <<"push", "pm_install", "rm">>
    BY <1>2, <1>4
  <2>1. Head(Plan[x]) = "push" /\ Tail(Plan[x]) = <<"pm_install", "rm">>
    BY <2>0, TailOfThree
  <2> QED BY <2>1 DEF Rest
<1>5. CASE x \notin {"PushDirectory", "Install"}
  <2>1. \E a : Plan[x] = <<a>> /\ a # "pm_install"
    BY <1>1, <1>2, <1>5
  <2>2. Head(Plan[x]) # "pm_install" /\ Tail(Plan[x]) = <<>>
    BY <2>1, TailOfOne
  <2>3. <<>> # <<"pm_install", "rm">>
    OBVIOUS
  <2> QED BY <2>2, <2>3 DEF Rest
<1> QED BY <1>3, <1>4, <1>5

LEMMA RestOfRest ==
  ASSUME NEW s \in Rest, s # <<>>
  PROVE  /\ Tail(s) \in Rest /\ Tail(s) # <<"pm_install", "rm">>
         /\ Head(s) = "pm_install" => s = <<"pm_install", "rm">>
<1>1. <<>> # <<"pm_install", "rm">> /\ <<"push">> # <<"pm_install", "rm">>
      /\ <<"rm">> # <<"pm_install", "rm">>
  OBVIOUS
<1>2. CASE s = <<"push", "push">>
  BY <1>1, <1>2, TailOfTwo DEF Rest
<1>3. CASE s = <<"push">>
  BY <1>1, <1>3, TailOfOne DEF Rest
<1>4. CASE s = <<"pm_install", "rm">>
  BY <1>1, <1>4, TailOfTwo DEF Rest
<1>5. CASE s = <<"rm">>
  BY <1>1, <1>5, TailOfOne DEF Rest
<1> QED BY <1>2, <1>3, <1>4, <1>5 DEF Rest

LEMMA BeginInstalling ==
  ASSUME CommandsInv, PushInv, UNCHANGED stream, NEW c, NEW label, Begin(c, label),
         label = "open" \/ (label = "write" /\ c = "interactive"),
         out' \in Seq(Packet), Len(out') >= Len(out), \A i \in 1..Len(out) : out'[i] = out[i]
  PROVE  Installing'
<1>1. /\ pending \in Seq(Commands) /\ program \in Seq(DOMAIN Plan) /\ call \in Nat
      /\ pending \in Rest
  BY InvParts DEF CommandsTypeOK, PushInv, Installing
<1>2. /\ pc = "idle" /\ pc' = label /\ Todo # <<>> /\ c = Head(Todo) /\ pending' = Tail(Todo)
  BY DEF Begin
<1>3. /\ call' = call + 1 /\ call' \in Calls /\ cmd'[call + 1] = c
      /\ \A n \in 1..call : cmd'[n] = cmd[n]
  BY InvParts, BeginType
<1>4. /\ Tail(Todo) \in Rest
      /\ Tail(Todo) = <<"pm_install", "rm">> => c = "push"
      /\ c = "pm_install" => pending = <<"pm_install", "rm">>
  <2>1. CASE pending # <<>> \/ program = <<>>
    <3>1. Todo = pending
      BY <2>1 DEF Todo
    <3> QED BY <1>1, <1>2, <3>1, RestOfRest
  <2>2. CASE ~(pending # <<>> \/ program = <<>>)
    <3>1. Todo = Plan[Head(program)] /\ Head(program) \in DOMAIN Plan
      BY <1>1, <2>2, TakeItem DEF Todo
    <3> QED BY <1>2, <3>1, PlanRest
  <2> QED BY <2>1, <2>2
<1>5. ASSUME c = "pm_install" PROVE call >= 1 /\ \A n : n = call => Pushed(n)'
  <2>1. call \in Calls /\ Pushed(call)
    BY <1>2, <1>4, <1>5 DEF PushInv, Installing
  <2>2. call >= 1 /\ cmd'[call] = cmd[call]
    BY <1>3, <2>1 DEF Calls
  <2>3. ASSUME NEW n, n = call PROVE Pushed(n)'
    BY <2>1, <2>2, <2>3, PushedHost
  <2> QED BY <2>2, <2>3
<1>6. ASSUME NEW n \in 1..call', cmd'[n] = "pm_install" PROVE n > 1 /\ Pushed(n - 1)'
  <2>1. CASE n \in 1..call
    <3>1. cmd[n] = "pm_install" /\ n - 1 \in Nat
      BY <1>3, <1>6, <2>1
    <3>2. n > 1 /\ Pushed(n - 1)
      BY <2>1, <3>1 DEF PushInv, Installing
    <3>3. n - 1 \in 1..call
      BY <1>1, <2>1, <3>2
    <3> QED BY <1>3, <3>2, <3>3, PushedHost
  <2>2. CASE n \notin 1..call
    <3>1. n = call + 1 /\ n - 1 = call /\ c = "pm_install"
      BY <1>1, <1>3, <1>6, <2>2
    <3> QED BY <1>1, <1>5, <3>1
  <2> QED BY <2>1, <2>2
<1>7. pending' \in Rest /\ (pending' = <<"pm_install", "rm">> => cmd'[call'] = "push" /\ pc' = "open")
  <2>1. cmd'[call'] = c
    BY <1>3
  <2> QED BY <1>2, <1>4, <2>1
<1>8. pc' \in {"open", "write"}
  BY <1>2
<1> QED BY <1>3, <1>6, <1>7, <1>8 DEF Installing

LEMMA InitPush == Init => PushInv
<1> SUFFICES ASSUME Init PROVE PushInv
  OBVIOUS
<1>1. /\ inp = <<>> /\ out = <<>> /\ pc = "idle" /\ pending = <<>> /\ call = 0 /\ service = 0
      /\ \A r \in RemoteIds : stream[r].st = "none"
  BY DEF Init, WireInit, NoStream
<1>2. AskedOnce /\ Kept /\ SuccessOnce
  <2>1. \A S : None(inp, S) /\ None(out, S)
    BY <1>1, EmptyNone
  <2>2. AskedOnce
    BY <1>1, <2>1 DEF AskedOnce, Asks, IsOpen
  <2>3. \A i \in 1..Len(inp) : FALSE
    BY <1>1
  <2>4. SuccessOnce
    BY <2>3 DEF SuccessOnce, SuccessBehind
  <2> QED BY <1>1, <2>2, <2>4 DEF Kept
<1>3. LastWritten /\ SuccessOwn
  BY <1>1 DEF LastWritten, SuccessOwn, Writing
<1>4. Installing
  <2>1. <<>> # <<"pm_install", "rm">>
    OBVIOUS
  <2>2. \A n \in 1..call : FALSE
    BY <1>1
  <2> QED BY <1>1, <2>1, <2>2 DEF Installing, Rest
<1> QED BY <1>2, <1>3, <1>4 DEF PushInv

(* The host sends no WRTE, and another packet at most.                     *)
Replies == UNCHANGED out \/ \E p \in Packet : p.cmd # "WRTE" /\ Send(p)

LEMMA RepliesExtend ==
  ASSUME CommandsInv, Replies
  PROVE  /\ out' \in Seq(Packet) /\ \A r \in RemoteIds : Extends(out', out, PendsOf(r))
         /\ Len(out') >= Len(out) /\ \A i \in 1..Len(out) : out'[i] = out[i]
<1>0. out \in Seq(Packet) /\ Len(out) \in Nat
  BY InvParts
<1>1. CASE UNCHANGED out
  BY <1>0, <1>1, SameExtends
<1>2. ASSUME NEW p \in Packet, p.cmd # "WRTE", Send(p)
      PROVE  /\ out' \in Seq(Packet) /\ \A r \in RemoteIds : Extends(out', out, PendsOf(r))
             /\ Len(out') >= Len(out) /\ \A i \in 1..Len(out) : out'[i] = out[i]
  <2>1. \A r : p \notin PendsOf(r)
    BY <1>2 DEF PendsOf, Sent
  <2> QED BY <1>0, <1>2, <2>1, AddExtends DEF Send
<1> QED BY <1>1, <1>2 DEF Replies

LEMMA RepliesPush ==
  ASSUME CommandsInv, PushInv, UNCHANGED <<stream, call, cmd>>,
         inp' \in Seq(Transfer), Drops(inp', inp), Replies, service' \in {0, service},
         pc' \notin SyncPc, pending' \in {pending, <<>>},
         pending' = <<"pm_install", "rm">> =>
           /\ pc' \in {"idle", "open", "open_again"}
           /\ pc' = "idle" => Pushed(call)
  PROVE  PushInv'
<1>1. /\ out' \in Seq(Packet) /\ \A r \in RemoteIds : Extends(out', out, PendsOf(r))
      /\ Len(out') >= Len(out) /\ \A i \in 1..Len(out) : out'[i] = out[i]
  BY RepliesExtend
<1>2. Installing'
  BY <1>1, InstallingHost DEF SyncPc, PushInv
<1>3. call \in Nat /\ call >= call
  BY InvParts
<1> QED BY <1>1, <1>2, <1>3, HostPush DEF SyncPc

LEMMA EndsPush ==
  ASSUME CommandsInv, PushInv, Busy, UNCHANGED <<stream, call, cmd>>,
         inp' \in Seq(Transfer), Drops(inp', inp), Replies, service' \in {0, service},
         NEW how \in Statuses, Ends(how),
         how = "returned" /\ pending = <<"pm_install", "rm">> => Pushed(call)
  PROVE  PushInv'
<1>1. pc' = "idle" /\ pending' = (IF how = "returned" THEN pending ELSE <<>>)
  BY DEF Ends
<1>2. <<>> # <<"pm_install", "rm">>
  OBVIOUS
<1> QED BY <1>1, <1>2, RepliesPush DEF SyncPc

(* Where a command of Install that is not the first one cannot be.         *)
LEMMA NotInstalling ==
  ASSUME PushInv, pending = <<"pm_install", "rm">>
  PROVE  /\ pc \notin {"read", "write", "echo", "closing", "closed"} /\ cmd[call] = "push"
         /\ pc \in {"idle", "sync_close"} => Pushed(call)
BY DEF PushInv, Installing

LEMMA OpenPush == CommandsInv /\ PushInv /\ Open => PushInv'
<1> SUFFICES ASSUME CommandsInv, PushInv, Open PROVE PushInv'
  OBVIOUS
<1>1. PICK c \in Commands : Begin(c, "open")
  BY DEF Open
<1>2. /\ Send(OpenMsg(call + 1)) /\ UNCHANGED <<inp, stream, service>>
  BY DEF Open
<1>3. /\ call \in Nat /\ call' = call + 1 /\ pc' = "open"
      /\ \A n \in 1..call : cmd'[n] = cmd[n]
  BY <1>1, InvParts, BeginType
<1>4. Replies
  BY <1>2, <1>3, MsgTypes, 0 \in Nat, call + 1 \in Nat DEF Replies
<1>5. /\ out' \in Seq(Packet) /\ \A r \in RemoteIds : Extends(out', out, PendsOf(r))
      /\ Len(out') >= Len(out) /\ \A i \in 1..Len(out) : out'[i] = out[i]
  BY <1>4, RepliesExtend
<1>6. Installing'
  BY <1>1, <1>2, <1>5, BeginInstalling
<1>7. inp \in Seq(Transfer) /\ Drops(inp, inp)
  BY InvParts, SameDrops
<1> QED BY <1>2, <1>3, <1>5, <1>6, <1>7, HostPush

LEMMA RepliesWith ==
  ASSUME CommandsInv, NEW r \in Nat, UNCHANGED out \/ Send(Okay(r)) \/ Send(Close(r))
  PROVE  Replies
BY MsgTypes, 0 \in Nat DEF Replies

LEMMA RemoteType ==
  ASSUME CommandsInv
  PROVE  remote \in Nat /\ service \in Nat
<1>1. remote \in RemoteIds \cup {0} /\ service \in RemoteIds \cup {0}
  BY InvParts DEF CommandsTypeOK
<1>2. RemoteIds \subseteq Nat
  BY MessageAssumption
<1> QED BY <1>1, <1>2

LEMMA ReadOutputPush == CommandsInv /\ PushInv /\ ReadOutput => PushInv'
<1> SUFFICES ASSUME CommandsInv, PushInv, ReadOutput PROVE PushInv'
  OBVIOUS
<1>1. /\ pc = "read" /\ Reads({"CLSE", "WRTE"}) /\ UNCHANGED <<stream, call, cmd, service>>
      /\ inp' \in Seq(Transfer) /\ Drops(inp', inp)
  BY InvParts, ReadDrops DEF ReadOutput
<1>2. pending # <<"pm_install", "rm">> /\ Busy
  BY <1>1, NotInstalling DEF Busy
<1>3. CASE ~Matches(remote)
  <2>1. Ends("raised") /\ UNCHANGED out
    BY <1>3 DEF ReadOutput
  <2> QED BY <1>1, <1>2, <2>1, EndsPush DEF Replies, Statuses
<1>4. CASE Matches(remote) /\ Incoming.cmd = "CLSE"
  <2>1. Ends("returned") /\ Replies
    BY <1>4, RepliesWith, RemoteType DEF ReadOutput
  <2> QED BY <1>1, <1>2, <2>1, EndsPush DEF Statuses
<1>5. CASE Matches(remote) /\ Incoming.cmd # "CLSE"
  <2>1. AckIfWrite(remote) /\ UNCHANGED <<pc, pending>>
    BY <1>5 DEF ReadOutput
  <2>2. Replies
    BY <2>1, RepliesWith, RemoteType DEF AckIfWrite
  <2> QED BY <1>1, <1>2, <2>1, <2>2, RepliesPush DEF SyncPc
<1> QED BY <1>3, <1>4, <1>5

LEMMA EchoPush == CommandsInv /\ PushInv /\ (WriteAnswer \/ ReadEcho) => PushInv'
<1> SUFFICES ASSUME CommandsInv, PushInv, WriteAnswer \/ ReadEcho PROVE PushInv'
  OBVIOUS
<1>1. /\ pc \in {"write", "echo"} /\ UNCHANGED <<stream, call, cmd, service>>
      /\ inp' \in Seq(Transfer) /\ Drops(inp', inp)
  BY InvParts, ReadDrops DEF WriteAnswer, ReadEcho
<1>2. pending # <<"pm_install", "rm">> /\ Busy
  BY <1>1, NotInstalling DEF Busy
<1>3. Replies
  BY RepliesWith, RemoteType DEF WriteAnswer, ReadEcho, AckIfWrite
<1>4. \/ Ends("raised") \/ Ends("returned")
      \/ pc' = "echo" /\ UNCHANGED pending
  BY DEF WriteAnswer, ReadEcho
<1>5. ASSUME NEW how \in {"raised", "returned"}, Ends(how) PROVE PushInv'
  BY <1>1, <1>2, <1>3, <1>5, EndsPush DEF Statuses
<1>6. CASE pc' = "echo" /\ UNCHANGED pending
  BY <1>1, <1>2, <1>3, <1>6, RepliesPush DEF SyncPc
<1> QED BY <1>4, <1>5, <1>6

LEMMA SyncClosedPush == CommandsInv /\ PushInv /\ SyncClosed => PushInv'
<1> SUFFICES ASSUME CommandsInv, PushInv, SyncClosed PROVE PushInv'
  OBVIOUS
<1>1. /\ pc = "sync_close" /\ UNCHANGED <<out, stream, call, cmd, service>>
      /\ inp' \in Seq(Transfer) /\ Drops(inp', inp)
  BY InvParts, ReadDrops DEF SyncClosed
<1>2. PICK how \in {"raised", "returned"} : Ends(how)
  BY DEF SyncClosed
<1>3. Pushed(call)
  BY <1>1 DEF PushInv, Installing
<1> QED BY <1>1, <1>2, <1>3, EndsPush DEF Replies, Statuses, Busy

LEMMA StopPush ==
  CommandsInv /\ PushInv /\ (Abandon \/ CloseDevice \/ CloseAnswer \/ Misread \/ ReadTimeout)
  => PushInv'
<1> SUFFICES ASSUME CommandsInv, PushInv,
                    Abandon \/ CloseDevice \/ CloseAnswer \/ Misread \/ ReadTimeout
             PROVE  PushInv'
  OBVIOUS
<1>1. UNCHANGED <<stream, call, cmd>>
  BY DEF Abandon, CloseDevice, CloseAnswer, Misread, ReadTimeout, wireVars
<1>2. service' \in {0, service}
  BY DEF Abandon, CloseDevice, CloseAnswer, Misread, ReadTimeout
<1>3. inp' \in Seq(Transfer) /\ Drops(inp', inp)
  <2>1. CASE CloseAnswer
    BY <2>1, InvParts, ReadDrops DEF CloseAnswer
  <2>2. CASE Misread
    BY <2>2, InvParts, TailDrops DEF Misread, Misreads, HalfReads, IsHeader
  <2>3. CASE Abandon \/ CloseDevice \/ ReadTimeout
    BY <2>3, InvParts, SameDrops DEF Abandon, CloseDevice, ReadTimeout, wireVars
  <2> QED BY <2>1, <2>2, <2>3
<1>4. Replies
  <2>1. UNCHANGED out \/ Send(Close(service))
    BY DEF Abandon, CloseDevice, CloseAnswer, Misread, ReadTimeout, wireVars
  <2> QED BY <2>1, RepliesWith, RemoteType
<1>5. <<>> # <<"pm_install", "rm">>
  OBVIOUS
<1>6. CASE Abandon
  <2>1. pc = "read" /\ Ends("abandoned")
    BY <1>6 DEF Abandon
  <2> QED BY <1>1, <1>2, <1>3, <1>4, <2>1, NotInstalling, EndsPush DEF Busy, Statuses
<1>7. CASE CloseDevice
  <2>1. pending = <<>> /\ pending' = pending /\ pc' \in {"closed", "closing"}
    BY <1>7 DEF CloseDevice, plan
  <2> QED BY <1>1, <1>2, <1>3, <1>4, <1>5, <2>1, RepliesPush DEF SyncPc
<1>8. CASE CloseAnswer
  <2>1. pc = "closing" /\ pending' = pending /\ pc' = "closed"
    BY <1>8 DEF CloseAnswer, plan
  <2> QED BY <1>1, <1>2, <1>3, <1>4, <2>1, NotInstalling, RepliesPush DEF SyncPc
<1>9. CASE Misread \/ ReadTimeout
  <2>1. Reading /\ Fails
    BY <1>9 DEF Misread, ReadTimeout
  <2>2. CASE pc = "closing"
    <3>1. pc' = "closed" /\ pending' = pending
      BY <2>1, <2>2 DEF Fails
    <3> QED BY <1>1, <1>2, <1>3, <1>4, <2>2, <3>1, NotInstalling, RepliesPush DEF SyncPc
  <2>3. CASE pc # "closing"
    <3>1. Ends("raised") /\ Busy
      BY <2>1, <2>3 DEF Fails, Reading, ExpectedCmds, Busy
    <3> QED BY <1>1, <1>2, <1>3, <1>4, <3>1, EndsPush DEF Statuses
  <2> QED BY <2>2, <2>3
<1> QED BY <1>6, <1>7, <1>8, <1>9

LEMMA OkayHead ==
  ASSUME CommandsInv, NEW cmds, Reads(cmds), Incoming.cmd \in {"OKAY", "WRTE"}
  PROVE  /\ Known(Incoming.arg0) /\ Incoming.arg0 \in Nat /\ inp \in Seq(Transfer) /\ inp # <<>>
         /\ Incoming.cmd = "OKAY" => Head(inp) \in OkaysOf(Incoming.arg0)
         /\ Incoming.cmd = "WRTE" => Head(inp) \in WritesOf(Incoming.arg0)
         /\ 1 \in 1..Len(inp) /\ inp[1] = Head(inp)
<1>1. inp \in Seq(Transfer) /\ inp \in Seq(Said)
  BY InvParts
<1>2. /\ inp # <<>> /\ Head(inp) \in Transfer /\ Incoming \in Packet
      /\ Head(inp) = Header(Incoming)
  BY <1>1, ReadTakes
<1>3. Head(inp) \in Said
  BY <1>1, <1>2, TakeItem
<1>4. Known(Incoming.arg0) /\ Incoming.arg0 \in Nat
  BY <1>2, <1>3, AnswerKnown, PacketParts
<1>5. Head(inp).kind = "header" /\ Head(inp).packet = Incoming
  BY <1>2, HeaderType
<1>6. /\ Incoming.cmd = "OKAY" => Head(inp) \in OkaysOf(Incoming.arg0)
      /\ Incoming.cmd = "WRTE" => Head(inp) \in WritesOf(Incoming.arg0)
  BY <1>2, <1>5, InHeaders DEF OkaysOf, WritesOf
<1>7. Len(inp) \in Nat /\ Len(inp) >= 1 /\ inp[1] = Head(inp)
  BY <1>1, <1>2, TakeItem
<1> QED BY <1>1, <1>2, <1>4, <1>6, <1>7

LEMMA SyncAnswerPush == CommandsInv /\ PushInv /\ SyncAnswer => PushInv'
<1> SUFFICES ASSUME CommandsInv, PushInv, SyncAnswer PROVE PushInv'
  OBVIOUS
<1>1. /\ pc = "sync_read" /\ Reads({"WRTE"}) /\ UNCHANGED <<stream, call, cmd, service>>
      /\ inp' \in Seq(Transfer) /\ Drops(inp', inp) /\ Busy
  BY InvParts, ReadDrops DEF SyncAnswer, Busy
<1>2. CASE ~(Matches(remote) /\ IsSuccess)
  <2>1. Ends("raised") /\ Replies
    BY <1>2, RepliesWith, RemoteType DEF SyncAnswer
  <2> QED BY <1>1, <2>1, EndsPush DEF Statuses
<1>3. CASE Matches(remote) /\ IsSuccess
  <2> DEFINE p == Okay(remote)
             q == Close(remote)
             t == Append(out, p)
  <2>1. /\ out' = out \o <<p, q>> /\ pc' = "sync_close" /\ pending' = pending
    BY <1>3 DEF SyncAnswer
  <2>2. p \in Packet /\ p.cmd = "OKAY" /\ q \in Packet /\ q.cmd = "CLSE" /\ q.arg1 = remote
    BY RemoteType, MsgTypes, 0 \in Nat
  <2> HIDE DEF p, q
  <2>3. out \in Seq(Packet)
    BY InvParts
  <2>4. t \in Seq(Packet) /\ out' = Append(t, q)
    BY <2>1, <2>2, <2>3
  <2>5. Incoming.cmd = "WRTE" /\ Incoming.arg0 \in RemoteIds /\ Incoming.arg0 = remote
    <3>1. Incoming.cmd = "WRTE"
      BY <1>1 DEF Reads
    <3>2. Known(Incoming.arg0) /\ Incoming.arg0 \in Nat
      BY <1>1, <3>1, OkayHead
    <3>3. Incoming.arg0 \in RemoteIds /\ Incoming.arg0 # 0
      BY <3>2, MessageAssumption DEF Known
    <3> QED BY <1>3, <3>1, <3>3 DEF Matches
  <2>6. inp[1] \in Success(remote) /\ 1 \in 1..Len(inp) /\ IsSync(remote)
    <3>1. inp[1] \in WritesOf(remote) /\ 1 \in 1..Len(inp) /\ inp[1] = Head(inp)
      BY <1>1, <2>5, OkayHead
    <3> QED BY <1>3, <3>1 DEF Success, IsSuccess, Incoming
  <2>7. AllWritten(remote)
    BY <1>1, <2>6 DEF PushInv, SuccessOwn, Writing
  <2> HIDE DEF t
  <2>8. p \notin PendsOf(remote) /\ q \notin PendsOf(remote)
    BY <2>2 DEF PendsOf, Sent
  <2>9. None(t, PendsOf(remote))
    BY <2>2, <2>3, <2>7, <2>8, AddKeeps DEF AllWritten, t
  <2>10. First(out', Sent("CLSE", remote), PendsOf(remote))
    BY <2>2, <2>4, <2>9, FirstAdded DEF Sent
  <2>11. Pushed(call)'
    BY <1>1, <2>5, <2>7, <2>10 DEF Pushed, Sealed, AllWritten, Whole, Sent, PendsOf
  <2>12. /\ out' \in Seq(Packet) /\ \A r \in RemoteIds : Extends(out', out, PendsOf(r))
         /\ Len(out') >= Len(out) /\ \A i \in 1..Len(out) : out'[i] = out[i]
    <3>1. \A r : p \notin PendsOf(r) /\ q \notin PendsOf(r)
      BY <2>2 DEF PendsOf, Sent
    <3>2. /\ \A r : Extends(t, out, PendsOf(r))
          /\ Len(t) >= Len(out) /\ \A i \in 1..Len(out) : t[i] = out[i]
      BY <2>2, <2>3, <3>1, AddExtends DEF t
    <3>3. /\ out' \in Seq(Packet) /\ \A r : Extends(out', t, PendsOf(r))
          /\ Len(out') >= Len(t) /\ \A i \in 1..Len(t) : out'[i] = t[i]
      BY <2>2, <2>4, <3>1, AddExtends
    <3>4. \A r : Extends(out', out, PendsOf(r))
      BY <2>3, <2>4, <3>2, <3>3, ExtendsTwice
    <3>5. Len(out) \in Nat /\ Len(t) \in Nat /\ Len(out') \in Nat
      BY <2>3, <2>4, <3>3
    <3> QED BY <3>2, <3>3, <3>4, <3>5
  <2>13. cmd[call] \in SyncCommands
    BY <1>1 DEF PushInv, Installing
  <2>14. Installing'
    BY <1>1, <2>1, <2>11, <2>12, <2>13, InstallingHost DEF SyncPc, PushInv
  <2>15. call \in Nat /\ call >= call
    BY InvParts
  <2> QED BY <1>1, <2>1, <2>12, <2>14, <2>15, HostPush
<1> QED BY <1>2, <1>3

(* A packet read while the call writes.                                    *)
LEMMA SkipPush == CommandsInv /\ PushInv /\ SkipPacket => PushInv'
<1> SUFFICES ASSUME CommandsInv, PushInv, SkipPacket PROVE PushInv'
  OBVIOUS
<1>1. /\ UNCHANGED <<out, stream, commandVars>>
      /\ inp # <<>> /\ inp' = Tail(inp)
  BY DEF SkipPacket, Skips, IsHeader
<1>2. UNCHANGED <<pc, pending, call, cmd, written, remote, service>>
  BY <1>1 DEF commandVars, plan
<1>3. inp \in Seq(Transfer) /\ out \in Seq(Packet) /\ inp' \in Seq(Transfer) /\ Drops(inp', inp)
  BY <1>1, InvParts, TailDrops
<1>4. AskedOnce'
  BY <1>1, <1>3, SameExtends, AsksQuiet DEF AskedOnce, PushInv
<1>5. SuccessOnce'
  BY <1>1, <1>2, <1>3, InvParts, SuccessHost DEF PushInv
<1>6. Kept'
  BY <1>1, <1>2 DEF Kept, Plain, PushInv
<1>7. Installing'
  BY <1>1, <1>2 DEF Installing, Pushed, Sealed, Whole, PushInv
<1>8. \A r : None(inp, OkaysOf(r)) => None(inp', OkaysOf(r))
  BY <1>3, DropsKeeps
<1>9. LastWritten'
  BY <1>1, <1>2, <1>8 DEF LastWritten, Writing, Number, Arrived, OnItsWay, Written, IsOpen, Plain, PushInv
<1>10. SuccessOwn'
  <2> SUFFICES ASSUME Writing, IsSync(remote), NEW i \in 1..Len(inp'), inp'[i] \in Success(remote)
               PROVE  AllWritten(remote) \/ (pc = "sync_write" /\ NoneAhead(inp', i, OkaysOf(remote)))
    BY <1>1, <1>2 DEF SuccessOwn, Writing, Number, IsSync, Success, AllWritten, Whole, NoneAhead
  <2>1. PICK n \in 1..Len(inp) : /\ inp[n] \in Success(remote)
                                 /\ NoneAhead(inp, n, OkaysOf(remote)) => NoneAhead(inp', i, OkaysOf(remote))
    BY <1>3, DropsAhead
  <2> QED BY <2>1 DEF SuccessOwn, PushInv
<1> QED BY <1>4, <1>5, <1>6, <1>7, <1>9, <1>10 DEF PushInv

(* A WRTE is written when the OKAY of the one before is read.              *)
LEMMA AnsweredAsks ==
  ASSUME CommandsInv, AskedOnce, NEW r \in RemoteIds, Known(r), Head(inp) \in OkaysOf(r),
         inp # <<>>, inp' \in Seq(Transfer), DropsOne(inp', inp), IsOpen(r), Plain(r)
  PROVE  None(inp', OkaysOf(r)) /\ None(out, PendsOf(r))
<1>1. inp \in Seq(Transfer)
  BY InvParts
<1>2. OneAsked(r)
  BY DEF AskedOnce, Asks
<1>3. ~None(inp, OkaysOf(r))
  BY <1>1, TakeFound
<1>4. Once(inp, OkaysOf(r)) => None(inp', OkaysOf(r))
  BY <1>1, DropsFirst
<1> QED BY <1>2, <1>3, <1>4 DEF OneAsked

LEMMA WritesNext ==
  ASSUME CommandsInv, AskedOnce, UNCHANGED stream, NEW r \in RemoteIds, Known(r),
         inp' \in Seq(Transfer), Drops(inp', inp), NEW p \in PendsOf(r), Send(p),
         IsOpen(r) /\ Plain(r) => None(inp', OkaysOf(r)) /\ None(out, PendsOf(r))
  PROVE  /\ AskedOnce'
         /\ out' \in Seq(Packet) /\ Len(out') >= Len(out) /\ \A i \in 1..Len(out) : out'[i] = out[i]
<1>1. out \in Seq(Packet) /\ p \in Packet
  BY InvParts DEF PendsOf, Sent
<1>2. /\ out' \in Seq(Packet) /\ Len(out') >= Len(out) /\ \A i \in 1..Len(out) : out'[i] = out[i]
      /\ \A S : p \notin S => Extends(out', out, S)
  BY <1>1, AddExtends DEF Send
<1>3. ASSUME NEW q \in RemoteIds, q # r PROVE Asks(q)'
  <2>1. p \notin PendsOf(q)
    BY <1>3 DEF PendsOf, Sent
  <2> QED BY <1>2, <2>1, AsksQuiet
<1>4. Asks(r)'
  <2>1. stream'[r].st # "none"
    BY DEF Known
  <2>2. ASSUME IsOpen(r)', Plain(r)' PROVE OneAsked(r)'
    <3>1. None(inp', OkaysOf(r)) /\ None(out, PendsOf(r))
      BY <2>2 DEF IsOpen, Plain
    <3>2. Once(out', PendsOf(r))
      BY <1>1, <3>1, AddKeeps DEF Send
    <3> QED BY <3>1, <3>2 DEF OneAsked, OkaysOf, PendsOf
  <2> QED BY <2>1, <2>2 DEF Asks
<1> QED BY <1>2, <1>3, <1>4 DEF AskedOnce

LEMMA WriteIs ==
  ASSUME NEW n \in Nat, NEW i \in Nat, NEW r \in Nat
  PROVE  /\ WriteMsg(n, i, r) \in PendsOf(r) /\ WriteMsg(n, i, r).data = <<n, i>>
         /\ i = 0 => WriteMsg(n, i, r) \in InteractiveOf(r)
<1>1. WriteMsg(n, i, r) \in PendsOf(r) /\ WriteMsg(n, i, r).data = <<n, i>>
  BY MsgTypes DEF PendsOf, Sent
<1> QED BY <1>1, PairType DEF InteractiveOf

(* An answer that comes behind the OKAY that is read.                      *)
LEMMA BehindAnswer ==
  ASSUME CommandsInv, PushInv, NEW r \in RemoteIds, IsSync(r), Head(inp) \in OkaysOf(r),
         inp # <<>>, inp' \in Seq(Transfer), DropsOne(inp', inp),
         NEW i \in 1..Len(inp'), inp'[i] \in Success(r)
  PROVE  /\ NoneAhead(inp', i, OkaysOf(r))
         /\ \E n \in 1..Len(inp) : inp[n] \in Success(r) /\ ~NoneAhead(inp, n, OkaysOf(r))
<1>1. inp \in Seq(Transfer)
  BY InvParts
<1>2. PICK n \in 1..Len(inp) :
        /\ inp[n] \in Success(r)
        /\ OnceAhead(inp, n, OkaysOf(r)) => NoneAhead(inp', i, OkaysOf(r))
        /\ ~NoneAhead(inp, n, OkaysOf(r))
  BY <1>1, DropsFirst
<1>3. OnceAhead(inp, n, OkaysOf(r))
  BY <1>2 DEF PushInv, SuccessOnce, SuccessBehind
<1> QED BY <1>2, <1>3

LEMMA ConnectedPush ==
  ASSUME CommandsInv, PushInv, pc \in {"open", "open_again"}, Reads({"CLSE", "OKAY"}),
         Incoming.cmd = "OKAY", Connected(Incoming.arg0), UNCHANGED <<stream, call, cmd>>
  PROVE  PushInv'
<1> DEFINE r == Incoming.arg0
<1>1. /\ Known(r) /\ r \in Nat /\ r \in RemoteIds /\ inp # <<>> /\ Head(inp) \in OkaysOf(r)
      /\ inp' \in Seq(Transfer) /\ Drops(inp', inp) /\ DropsOne(inp', inp)
      /\ call \in Nat /\ call >= call /\ Busy /\ call \in Calls
  BY InvParts, OkayHead, ReadDrops DEF Known, Busy
<1> HIDE DEF r
<1>2. Connected(r)
  BY DEF r
<1>3. remote' = r
  BY <1>2 DEF Connected
<1>4. CASE cmd[call] = "reboot"
  <2>1. Ends("returned") /\ UNCHANGED out /\ service' = service
    BY <1>2, <1>4 DEF Connected, SyncCommands
  <2>2. pending # <<"pm_install", "rm">>
    BY <1>4, NotInstalling
  <2> QED BY <1>1, <2>1, <2>2, EndsPush DEF Replies, Statuses
<1>5. CASE cmd[call] = "interactive"
  <2>1. /\ pc' = "write" /\ Send(WriteMsg(call, 0, r)) /\ pending' = pending /\ service' = r
    BY <1>2, <1>5 DEF Connected, SyncCommands
  <2> DEFINE p == WriteMsg(call, 0, r)
  <2>2. p \in PendsOf(r) /\ p \in InteractiveOf(r) /\ p \in Packet
    BY <1>1, WriteIs, MsgTypes
  <2>3. Send(p)
    BY <2>1
  <2> HIDE DEF p
  <2>4. /\ AskedOnce'
        /\ out' \in Seq(Packet) /\ Len(out') >= Len(out) /\ \A i \in 1..Len(out) : out'[i] = out[i]
    BY <1>1, <2>2, <2>3, WritesNext, AnsweredAsks DEF PushInv
  <2>5. Kept'
    <3>1. ASSUME stream[r].st # "closed", Plain(r)
          PROVE  First(out', InteractiveOf(r), PendsOf(r))
      <4>1. IsOpen(r)
        BY <1>1, <3>1, StreamType DEF IsOpen, Known
      <4>2. None(out, PendsOf(r)) /\ out \in Seq(Packet)
        BY <1>1, <3>1, <4>1, InvParts, AnsweredAsks DEF PushInv
      <4> QED BY <2>2, <2>3, <4>2, FirstAdded DEF Send
    <3> QED BY <2>1, <3>1 DEF Kept, Plain, InteractiveOf, PendsOf
  <2>6. SuccessOnce'
    BY <1>1, SuccessHost DEF PushInv
  <2>7. pending # <<"pm_install", "rm">>
    BY <1>5, NotInstalling
  <2>8. Installing'
    BY <2>1, <2>4, <2>7, InstallingHost DEF SyncPc, PushInv
  <2> QED BY <2>1, <2>4, <2>5, <2>6, <2>8 DEF PushInv, LastWritten, SuccessOwn, Writing
<1>6. CASE cmd[call] \in SyncCommands
  <2>1. /\ pc' = "sync_write" /\ Send(WriteMsg(call, 1, r)) /\ pending' = pending
        /\ written' = 1 /\ service' = service
    BY <1>2, <1>6 DEF Connected, SyncCommands
  <2> DEFINE p == WriteMsg(call, 1, r)
  <2>2. p \in PendsOf(r) /\ p.data = <<call, 1>> /\ p \in Packet
    BY <1>1, WriteIs, MsgTypes
  <2>3. Send(p)
    BY <2>1
  <2> HIDE DEF p
  <2>4. /\ AskedOnce'
        /\ out' \in Seq(Packet) /\ Len(out') >= Len(out) /\ \A i \in 1..Len(out) : out'[i] = out[i]
    BY <1>1, <2>2, <2>3, WritesNext, AnsweredAsks DEF PushInv
  <2>5. Kept'
    BY <2>1, <2>4, KeptHost DEF PushInv
  <2>6. SuccessOnce'
    BY <1>1, SuccessHost DEF PushInv
  <2>7. Installing'
    BY <1>6, <2>1, <2>4, InstallingHost DEF SyncPc, PushInv
  <2>8. LastWritten'
    <3>1. 1 \in 1..Writes(cmd[call])
      BY CommandsAssumption DEF Writes
    <3>2. Latest(out', {x \in PendsOf(r) : x.data = <<call, 1>>}, PendsOf(r))
      BY <2>2, <2>3, InvParts, LatestAdded DEF Send
    <3> QED BY <1>3, <2>1, <3>1, <3>2 DEF LastWritten, Number, OnItsWay, Written, Writes, PendsOf
  <2>9. SuccessOwn'
    <3> SUFFICES ASSUME IsSync(r), NEW i \in 1..Len(inp'), inp'[i] \in Success(r)
                 PROVE  NoneAhead(inp', i, OkaysOf(r))
      BY <1>3, <2>1 DEF SuccessOwn, IsSync, Success, NoneAhead, OkaysOf
    <3> QED BY <1>1, BehindAnswer
  <2> QED BY <2>4, <2>5, <2>6, <2>7, <2>8, <2>9 DEF PushInv
<1>7. CASE cmd[call] \notin SyncCommands \cup {"reboot", "interactive"}
  <2>1. pc' = "read" /\ UNCHANGED <<out, pending>> /\ service' = service
    BY <1>2, <1>7 DEF Connected
  <2>2. pending # <<"pm_install", "rm">>
    BY <1>7, NotInstalling DEF SyncCommands
  <2> QED BY <1>1, <2>1, <2>2, RepliesPush DEF SyncPc, Replies
<1> QED BY <1>4, <1>5, <1>6, <1>7

LEMMA OpenAnswerPush == CommandsInv /\ PushInv /\ OpenAnswer => PushInv'
<1> SUFFICES ASSUME CommandsInv, PushInv, OpenAnswer PROVE PushInv'
  OBVIOUS
<1>1. /\ pc \in {"open", "open_again"} /\ Reads({"CLSE", "OKAY"})
      /\ UNCHANGED <<stream, call, cmd>>
      /\ inp' \in Seq(Transfer) /\ Drops(inp', inp) /\ Busy
  BY InvParts, ReadDrops DEF OpenAnswer, Busy
<1>2. CASE Incoming.cmd = "OKAY"
  <2>1. Connected(Incoming.arg0)
    BY <1>2 DEF OpenAnswer
  <2> QED BY <1>1, <1>2, <2>1, ConnectedPush
<1>3. CASE Incoming.cmd # "OKAY" /\ pc = "open_again"
  <2>1. Refused
    BY <1>3 DEF OpenAnswer
  <2>2. /\ Ends(IF cmd[call] = "reboot" THEN "returned" ELSE "refused")
        /\ UNCHANGED <<out, service>>
    BY <2>1 DEF Refused
  <2>3. CASE cmd[call] = "reboot"
    <3>1. pending # <<"pm_install", "rm">>
      BY <2>3, NotInstalling
    <3> QED BY <1>1, <2>2, <2>3, <3>1, EndsPush DEF Replies, Statuses
  <2>4. CASE cmd[call] # "reboot"
    BY <1>1, <2>2, <2>4, EndsPush DEF Replies, Statuses
  <2> QED BY <2>3, <2>4
<1>4. CASE Incoming.cmd # "OKAY" /\ pc # "open_again"
  <2>1. pc' = "open_again" /\ UNCHANGED <<out, service, pending>>
    BY <1>4 DEF OpenAnswer
  <2> QED BY <1>1, <2>1, RepliesPush DEF Replies, SyncPc
<1> QED BY <1>2, <1>3, <1>4

LEMMA SyncWritePush == CommandsInv /\ PushInv /\ SyncWriteAnswer => PushInv'
<1> SUFFICES ASSUME CommandsInv, PushInv, SyncWriteAnswer PROVE PushInv'
  OBVIOUS
<1> DEFINE r == remote
<1>1. /\ pc = "sync_write" /\ Reads({"OKAY"}) /\ UNCHANGED <<stream, call, cmd, remote, service>>
      /\ inp' \in Seq(Transfer) /\ Drops(inp', inp) /\ DropsOne(inp', inp)
      /\ call \in Nat /\ call >= call /\ Busy /\ call \in Calls
  BY InvParts, ReadDrops DEF SyncWriteAnswer, Busy
<1>2. CASE ~Matches(r)
  <2>1. Ends("raised") /\ UNCHANGED out
    BY <1>2 DEF SyncWriteAnswer
  <2> QED BY <1>1, <2>1, EndsPush DEF Replies, Statuses
<1>3. CASE Matches(r)
  <2>1. /\ Known(r) /\ r \in Nat /\ r \in RemoteIds /\ inp # <<>> /\ Head(inp) \in OkaysOf(r)
    <3>1. Incoming.cmd = "OKAY"
      BY <1>1 DEF Reads
    <3>2. /\ Known(Incoming.arg0) /\ Incoming.arg0 \in Nat /\ inp # <<>>
          /\ Head(inp) \in OkaysOf(Incoming.arg0)
      BY <1>1, <3>1, OkayHead
    <3>3. Incoming.arg0 \in RemoteIds /\ Incoming.arg0 # 0
      BY <3>2, MessageAssumption DEF Known
    <3>4. Incoming.arg0 = r
      BY <1>3, <3>3 DEF Matches
    <3> QED BY <3>2, <3>3, <3>4
  <2>2. /\ written \in 1..Writes(cmd[call]) /\ Writes(cmd[call]) \in Nat /\ Number = written
        /\ cmd[call] \in SyncCommands
        /\ IsOpen(r) => Arrived(r) \/ OnItsWay(r)
    BY <1>1, CommandsAssumption DEF PushInv, LastWritten, Writing, Number, Writes, Installing
  <2>3. pending' = pending /\ written' = written + 1 /\ remote' = r
    BY <1>1, <1>3 DEF SyncWriteAnswer
  <2>4. IsOpen(r) /\ Plain(r) => None(inp', OkaysOf(r)) /\ None(out, PendsOf(r))
    BY <1>1, <2>1, AnsweredAsks DEF PushInv
  <2>5. SuccessOnce'
    BY <1>1, SuccessHost DEF PushInv
  <2>6. ASSUME IsSync(r), NEW i \in 1..Len(inp'), inp'[i] \in Success(r)
        PROVE  AllWritten(r)
    <3>1. PICK n \in 1..Len(inp) : inp[n] \in Success(r) /\ ~NoneAhead(inp, n, OkaysOf(r))
      BY <1>1, <2>1, <2>6, BehindAnswer
    <3> QED BY <1>1, <2>6, <3>1 DEF PushInv, SuccessOwn, Writing
  <2>7. CASE written < Writes(cmd[call])
    <3> DEFINE p == WriteMsg(call, written + 1, r)
    <3>1. pc' = "sync_write" /\ Send(p)
      BY <1>1, <1>3, <2>7 DEF SyncWriteAnswer
    <3>2. p \in PendsOf(r) /\ p.data = <<call, written + 1>>
      BY <1>1, <2>1, <2>2, written + 1 \in Nat, WriteIs
    <3> HIDE DEF p
    <3>3. /\ AskedOnce'
          /\ out' \in Seq(Packet) /\ Len(out') >= Len(out) /\ \A i \in 1..Len(out) : out'[i] = out[i]
      BY <1>1, <2>1, <2>4, <3>1, <3>2, WritesNext DEF PushInv
    <3>4. Kept'
      BY <1>1, <3>3, KeptHost DEF PushInv
    <3>5. Installing'
      BY <1>1, <2>2, <2>3, <3>1, <3>3, InstallingHost DEF SyncPc, PushInv
    <3>6. LastWritten'
      <4>1. written + 1 \in 1..Writes(cmd[call])
        BY <2>2, <2>7
      <4>2. Latest(out', {x \in PendsOf(r) : x.data = <<call, written + 1>>}, PendsOf(r))
        BY <3>1, <3>2, InvParts, LatestAdded DEF Send, PendsOf, Sent
      <4> QED BY <1>1, <2>3, <3>1, <4>1, <4>2
           DEF LastWritten, Number, OnItsWay, Written, Writes, PendsOf
    <3>7. SuccessOwn'
      <4>1. ~AllWritten(r)
        BY <2>2, <2>7 DEF AllWritten
      <4>2. ASSUME IsSync(r), NEW i \in 1..Len(inp'), inp'[i] \in Success(r) PROVE FALSE
        BY <2>6, <4>1, <4>2
      <4> QED BY <1>1, <4>2 DEF SuccessOwn, IsSync, Success
    <3> QED BY <2>5, <3>3, <3>4, <3>5, <3>6, <3>7 DEF PushInv
  <2>8. CASE ~(written < Writes(cmd[call]))
    <3>1. pc' = "sync_read" /\ UNCHANGED out /\ written = Writes(cmd[call]) /\ Number' = Number
      BY <1>1, <1>3, <2>2, <2>3, <2>8 DEF SyncWriteAnswer, Number
    <3>2. /\ out \in Seq(Packet) /\ out' \in Seq(Packet)
          /\ Len(out') >= Len(out) /\ \A i \in 1..Len(out) : out'[i] = out[i]
          /\ \A q : Extends(out', out, PendsOf(q))
      BY <3>1, InvParts, SameExtends
    <3>3. AskedOnce'
      BY <1>1, <3>2, AsksQuiet DEF AskedOnce, PushInv
    <3>4. Kept'
      BY <1>1, <3>2, KeptHost DEF PushInv
    <3>5. Installing'
      BY <1>1, <2>2, <2>3, <3>1, <3>2, InstallingHost DEF SyncPc, PushInv
    <3>6. LastWritten'
      BY <1>1, <2>2, <2>4, <3>1
         DEF LastWritten, OnItsWay, Arrived, Written, Writes, PendsOf, OkaysOf, IsOpen, Plain
    <3>7. SuccessOwn'
      BY <1>1, <2>6, <3>1 DEF SuccessOwn, IsSync, Success, AllWritten, Whole, Writes, PendsOf
    <3> QED BY <2>5, <3>3, <3>4, <3>5, <3>6, <3>7 DEF PushInv
  <2> QED BY <2>7, <2>8
<1> QED BY <1>2, <1>3

LEMMA InteractivePush == CommandsInv /\ PushInv /\ InteractiveShell => PushInv'
<1> SUFFICES ASSUME CommandsInv, PushInv, InteractiveShell PROVE PushInv'
  OBVIOUS
<1>1. UNCHANGED <<inp, stream, service>>
  BY DEF InteractiveShell
<1>2. inp \in Seq(Transfer) /\ Drops(inp, inp)
  BY InvParts, SameDrops
<1>3. CASE service = 0
  <2>1. Begin("interactive", "open") /\ Send(OpenMsg(call + 1))
    BY <1>3 DEF InteractiveShell
  <2>2. /\ call \in Nat /\ call' = call + 1 /\ pc' = "open"
        /\ \A n \in 1..call : cmd'[n] = cmd[n]
    BY <2>1, InvParts, BeginType
  <2>3. Replies
    BY <2>1, <2>2, MsgTypes, 0 \in Nat, call + 1 \in Nat DEF Replies
  <2>4. /\ out' \in Seq(Packet) /\ \A r \in RemoteIds : Extends(out', out, PendsOf(r))
        /\ Len(out') >= Len(out) /\ \A i \in 1..Len(out) : out'[i] = out[i]
    BY <2>3, RepliesExtend
  <2>5. Installing'
    BY <1>1, <2>1, <2>4, BeginInstalling
  <2> QED BY <1>1, <1>2, <2>2, <2>4, <2>5, HostPush
<1>4. CASE service # 0
  <2> DEFINE r == service
             p == WriteMsg(call + 1, 0, r)
  <2>1. Begin("interactive", "write") /\ Send(p)
    BY <1>4 DEF InteractiveShell
  <2>2. /\ call \in Nat /\ call' = call + 1 /\ pc' = "write"
        /\ \A n \in 1..call : cmd'[n] = cmd[n]
    BY <2>1, InvParts, BeginType
  <2>3. Known(r) /\ r \in RemoteIds /\ r \in Nat
    BY <1>4, InvParts, RemoteType DEF CallOK, Known
  <2>4. p \in PendsOf(r)
    BY <2>2, <2>3, WriteIs, call + 1 \in Nat
  <2> HIDE DEF p
  <2>5. out \in Seq(Packet) /\ p \in Packet
    BY <2>4, InvParts DEF PendsOf, Sent
  <2>6. /\ out' \in Seq(Packet) /\ Len(out') >= Len(out) /\ \A i \in 1..Len(out) : out'[i] = out[i]
        /\ \A S : p \notin S => Extends(out', out, S)
    BY <2>1, <2>5, AddExtends DEF Send
  <2>7. ASSUME NEW q \in RemoteIds, q # r PROVE Asks(q)'
    <3>1. p \notin PendsOf(q)
      BY <2>4, <2>7 DEF PendsOf, Sent
    <3> QED BY <1>1, <1>2, <2>6, <3>1, AsksQuiet DEF PushInv
  <2>8. Asks(r)'
    <3>1. stream'[r].st # "none"
      BY <1>1, <2>3 DEF Known
    <3>2. ASSUME IsOpen(r), Plain(r) PROVE OneAsked(r)'
      <4>1. First(out, InteractiveOf(r), PendsOf(r))
        BY <1>4, <3>2 DEF Kept, PushInv, IsOpen
      <4>2. First(out', InteractiveOf(r), PendsOf(r))
        BY <2>5, <2>6, <4>1, FirstStays
      <4>3. ~None(out, PendsOf(r))
        BY <4>1 DEF First, None, InteractiveOf
      <4>4. OneAsked(r)
        BY <2>3, <3>2 DEF PushInv, AskedOnce, Asks
      <4>5. None(inp, OkaysOf(r))
        BY <4>3, <4>4 DEF OneAsked
      <4> QED BY <1>1, <4>2, <4>5 DEF OneAsked, OkaysOf, PendsOf, InteractiveOf
    <3> QED BY <1>1, <3>1, <3>2 DEF Asks, IsOpen, Plain
  <2>9. AskedOnce'
    BY <1>1, <2>7, <2>8 DEF AskedOnce
  <2>10. Kept'
    BY <1>1, <2>6, KeptHost DEF PushInv
  <2>11. SuccessOnce'
    BY <1>1, <1>2, <2>2, SuccessHost DEF PushInv
  <2>12. Installing'
    BY <1>1, <2>1, <2>6, BeginInstalling
  <2> QED BY <2>2, <2>9, <2>10, <2>11, <2>12 DEF PushInv, LastWritten, SuccessOwn, Writing
<1> QED BY <1>3, <1>4

-----------------------------------------------------------------------------
(* What a step of adbd does, for one stream: it takes a WRTE of the host,  *)
(* begins with an OKAY, or goes on as it was.                              *)
Gets(r) ==
  /\ out # <<>> /\ out' = Tail(out)
  /\ Frame \in PendsOf(r) /\ IsOpen(r)
  /\ stream'[r].st = stream[r].st /\ stream'[r].service = stream[r].service
  /\ stream'[r].got = Append(stream[r].got, Frame.data)
  /\ DevWrites(Pkt("OKAY", r, LocalId, NoData))
Starts(r) ==
  /\ out # <<>> /\ out' = Tail(out) /\ Frame \notin PendsOf(r)
  /\ stream[r].st = "none"
  /\ stream'[r].st = "ready" /\ stream'[r].got = <<>>
  /\ DevWrites(Pkt("OKAY", r, LocalId, NoData))
Goes(r) ==
  /\ stream'[r].got = stream[r].got
  /\ stream'[r].st = "none" <=> stream[r].st = "none"
  /\ stream[r].st = "closed" => stream'[r].st = "closed"
  /\ stream[r].st # "none" => stream'[r].service = stream[r].service
  /\ stream[r].st = "none" => stream'[r] = stream[r]
  /\ Extends(inp', inp, OkaysOf(r))
  /\ \/ UNCHANGED out
     \/ /\ out # <<>> /\ out' = Tail(out)
        /\ \/ Frame \notin PendsOf(r) /\ Frame \notin Sent("CLSE", r)
           \/ stream'[r].st = "closed"

(* The service of r says that it has received a whole request.             *)
Succeeds(r) ==
  /\ IsOpen(r) /\ UNCHANGED out
  /\ \E n \in 1..call : stream[r].got = Whole(n)
  /\ \E p \in Packet : DevWrites(p)

Does(r) ==
  /\ Gets(r) \/ Starts(r) \/ Goes(r)
  /\ \/ Extends(inp', inp, Success(r))
     \/ Goes(r) /\ IsSync(r) /\ Succeeds(r)
     \/ stream[r].st # "none" /\ ~IsSync(r)

LEMMA WritesExtend ==
  ASSUME inp \in Seq(Transfer), NEW p \in Packet, DevWrites(p), NEW S,
         \A t \in S : t.kind = "header", Header(p) \notin S
  PROVE  inp' \in Seq(Transfer) /\ Extends(inp', inp, S)
<1>1. /\ inp' \in Seq(Transfer)
      /\ Len(inp) \in Nat /\ Len(inp') \in Nat /\ Len(inp') > Len(inp)
      /\ \A i \in 1..Len(inp) : inp'[i] = inp[i]
      /\ inp'[Len(inp) + 1] = Header(p)
      /\ \A i \in 1..Len(inp') :
           i \in 1..Len(inp) \/ i = Len(inp) + 1 \/ i = Len(inp) + 2
      /\ Len(inp') >= Len(inp) + 2 =>
           inp'[Len(inp) + 2] = [kind |-> "payload", packet |-> p]
  BY WriteAdds
<1>2. [kind |-> "payload", packet |-> p] \notin S
  OBVIOUS
<1>3. \A i \in Len(inp) + 1..Len(inp') :
        i = Len(inp) + 1 \/ (i = Len(inp) + 2 /\ Len(inp') >= Len(inp) + 2)
  BY <1>1
<1> QED BY <1>1, <1>2, <1>3 DEF Extends

LEMMA AnswersExtend ==
  ASSUME CommandsInv, NEW c \in {"OKAY", "CLSE", "WRTE"}, NEW q \in Nat, NEW a \in Nat, NEW d \in Data,
         DevWrites(Pkt(c, q, a, d)), NEW r
  PROVE  /\ c # "OKAY" \/ q # r => Extends(inp', inp, OkaysOf(r))
         /\ c # "WRTE" \/ q # r => Extends(inp', inp, Success(r))
<1> DEFINE p == Pkt(c, q, a, d)
<1>1. p \in Packet /\ p.cmd = c /\ p.arg0 = q /\ inp \in Seq(Transfer)
  BY PacketType, InvParts
<1>2. DevWrites(p)
  OBVIOUS
<1> HIDE DEF p
<1>3. Header(p) \in Transfer /\ Header(p).kind = "header" /\ Header(p).packet = p
  BY <1>1, HeaderType
<1>4. /\ c # "OKAY" \/ q # r => Header(p) \notin OkaysOf(r)
      /\ c # "WRTE" \/ q # r => Header(p) \notin Success(r)
  BY <1>1, <1>3 DEF OkaysOf, Success, WritesOf, Headers
<1>5. (\A t \in OkaysOf(r) : t.kind = "header") /\ (\A t \in Success(r) : t.kind = "header")
  BY DEF OkaysOf, Success, WritesOf, Headers
<1> QED BY <1>1, <1>2, <1>4, <1>5, WritesExtend

LEMMA StreamStays ==
  ASSUME CommandsInv, NEW r \in RemoteIds, stream'[r] = stream[r], Extends(inp', inp, OkaysOf(r)),
         Extends(inp', inp, Success(r)),
         \/ UNCHANGED out
         \/ out # <<>> /\ out' = Tail(out) /\ Frame \notin PendsOf(r) /\ Frame \notin Sent("CLSE", r)
  PROVE  Does(r)
BY DEF Does, Goes

LEMMA OpenDoes ==
  ASSUME CommandsInv, DevOpen, NEW r \in RemoteIds
  PROVE  Does(r)
<1>1. /\ out # <<>> /\ out' = Tail(out) /\ Frame.cmd = "OPEN"
      /\ Frame \notin PendsOf(r) /\ Frame \notin Sent("CLSE", r)
  BY DEF DevOpen, Receives, PendsOf, Sent
<1>2. Frame.arg0 = LocalId /\ LocalId \in Nat
  BY <1>1, OutTaken DEF Asked, LocalId
<1>3. /\ stream \in [RemoteIds -> Stream] /\ RemoteIds \subseteq Nat /\ 0 \notin RemoteIds
      /\ 0 \in Nat /\ NoData \in Data
  BY StreamType, MessageAssumption, NoDataType
<1>4. CASE DevWrites(Pkt("CLSE", 0, Frame.arg0, NoData)) /\ UNCHANGED stream
  <2>1. Extends(inp', inp, OkaysOf(r)) /\ Extends(inp', inp, Success(r))
    BY <1>2, <1>3, <1>4, AnswersExtend
  <2> QED BY <1>1, <1>4, <2>1, StreamStays
<1>5. ASSUME NEW q \in RemoteIds, NextRemoteId(q),
             stream' = [stream EXCEPT ![q] =
               [st |-> "ready", peer |-> Frame.arg0, service |-> Frame.data,
                sent |-> 0, got |-> <<>>]],
             DevWrites(Pkt("OKAY", q, Frame.arg0, NoData))
      PROVE  Does(r)
  <2>1. Extends(inp', inp, Success(r)) /\ (q # r => Extends(inp', inp, OkaysOf(r)))
    BY <1>2, <1>3, <1>5, AnswersExtend
  <2>2. CASE q = r
    <3>1. stream[r].st = "none" /\ stream'[r].st = "ready" /\ stream'[r].got = <<>>
      BY <1>3, <1>5, <2>2 DEF NextRemoteId
    <3>2. DevWrites(Pkt("OKAY", r, LocalId, NoData))
      BY <1>2, <1>5, <2>2
    <3> QED BY <1>1, <2>1, <3>1, <3>2 DEF Does, Starts
  <2>3. CASE q # r
    <3>1. stream'[r] = stream[r]
      BY <1>3, <1>5, <2>3
    <3> QED BY <1>1, <2>1, <2>3, <3>1, StreamStays
  <2> QED BY <2>2, <2>3
<1> QED BY <1>4, <1>5 DEF DevOpen

LEMMA FrameDoes ==
  ASSUME CommandsInv, DevAck \/ DevHostWrite \/ DevCloseRequest, NEW r \in RemoteIds
  PROVE  Does(r)
<1>1. /\ out # <<>> /\ out' = Tail(out) /\ Frame.cmd \in {"OKAY", "WRTE", "CLSE"}
  BY DEF DevAck, DevHostWrite, DevCloseRequest, Receives
<1>2. /\ Frame \in Packet /\ Known(Frame.arg1) /\ Frame.arg1 \in RemoteIds
      /\ Frame.arg0 = LocalId /\ LocalId \in Nat /\ Frame.data \in Data
  BY <1>1, FrameKnown
<1>3. PICK q \in RemoteIds : q = Frame.arg1
  BY <1>2
<1>4. PICK d \in Data : d = Frame.data
  BY <1>2
<1>5. /\ q \in Nat /\ NoData \in Data /\ inp \in Seq(Transfer) /\ stream \in [RemoteIds -> Stream]
      /\ stream[q] \in Stream /\ stream[q].st # "none"
      /\ \A S : Extends(inp, inp, S)
  BY <1>2, <1>3, StreamType, NoDataType, InvParts, SameExtends DEF Known
<1>6. /\ Frame.cmd # "WRTE" \/ q # r => Frame \notin PendsOf(r)
      /\ Frame.cmd # "CLSE" \/ q # r => Frame \notin Sent("CLSE", r)
      /\ Frame.cmd = "WRTE" /\ q = r => Frame \in PendsOf(r)
  BY <1>2, <1>3 DEF PendsOf, Sent
<1>7. CASE DevAck
  <2>1. /\ Frame.cmd = "OKAY" /\ UNCHANGED inp
        /\ stream' = IF stream[q].st = "waitack" THEN [stream EXCEPT ![q].st = "ready"] ELSE stream
    BY <1>3, <1>7 DEF DevAck, Receives
  <2>2. stream'[r] = stream[r] \/ (q = r /\ stream[r].st = "waitack" /\ stream'[r].st = "ready"
                                   /\ stream'[r].got = stream[r].got
                                   /\ stream'[r].service = stream[r].service)
    BY <1>5, <2>1, StatusSet DEF OnlyChanges
  <2> QED BY <1>1, <1>5, <1>6, <2>1, <2>2 DEF Does, Goes
<1>8. CASE DevHostWrite /\ IsOpen(q)
  <2>1. /\ Frame.cmd = "WRTE" /\ stream' = [stream EXCEPT ![q].got = Append(@, d)]
        /\ DevWrites(Pkt("OKAY", q, LocalId, NoData))
    BY <1>2, <1>3, <1>4, <1>8 DEF DevHostWrite, Receives
  <2>2. /\ OnlyChanges(q, [stream[q] EXCEPT !.got = Append(stream[q].got, d)])
        /\ stream'[q].st = stream[q].st /\ stream'[q].service = stream[q].service
        /\ stream'[q].got = Append(stream[q].got, d)
    BY <2>1, GotSet
  <2>3. Extends(inp', inp, Success(r)) /\ (q # r => Extends(inp', inp, OkaysOf(r)))
    BY <1>2, <1>5, <2>1, AnswersExtend
  <2>4. CASE q = r
    <3>1. Gets(r)
      BY <1>1, <1>4, <1>6, <1>8, <2>1, <2>2, <2>4 DEF Gets
    <3> QED BY <2>3, <3>1 DEF Does
  <2>5. CASE q # r
    <3>1. stream'[r] = stream[r]
      BY <2>2, <2>5 DEF OnlyChanges
    <3> QED BY <1>1, <1>6, <2>3, <2>5, <3>1, StreamStays
  <2> QED BY <2>4, <2>5
<1>9. CASE DevHostWrite /\ ~IsOpen(q)
  <2>1. Frame.cmd = "WRTE" /\ UNCHANGED <<stream, inp>> /\ stream[q].st = "closed"
    BY <1>3, <1>5, <1>9, StreamType DEF DevHostWrite, Receives, IsOpen
  <2> QED BY <1>1, <1>5, <1>6, <2>1 DEF Does, Goes
<1>10. CASE DevCloseRequest
  <2>1. /\ Frame.cmd = "CLSE"
        /\ stream' = IF IsOpen(q) THEN [stream EXCEPT ![q].st = "closed"] ELSE stream
        /\ UNCHANGED inp \/ DevWrites(Pkt("CLSE", q, LocalId, NoData))
    BY <1>2, <1>3, <1>10 DEF DevCloseRequest, Receives
  <2>2. Extends(inp', inp, OkaysOf(r)) /\ Extends(inp', inp, Success(r))
    BY <1>2, <1>5, <2>1, AnswersExtend
  <2>3. stream'[r].got = stream[r].got /\ stream'[r].service = stream[r].service
        /\ IF q = r THEN stream'[r].st = "closed" ELSE stream'[r] = stream[r]
    BY <1>5, <2>1, StatusSet, StreamType DEF OnlyChanges, IsOpen
  <2> QED BY <1>1, <1>5, <1>6, <2>1, <2>2, <2>3 DEF Does, Goes
<1> QED BY <1>7, <1>8, <1>9, <1>10

LEMMA ServiceDoes ==
  ASSUME CommandsInv, NEW q \in RemoteIds, Service(q), NEW r \in RemoteIds
  PROVE  Does(r)
<1>1. /\ stream[q].sent \in Nat /\ stream[q].peer \in Nat /\ q \in Nat /\ NoData \in Data
      /\ stream \in [RemoteIds -> Stream]
  BY StreamType, NoDataType
<1>2. CASE IsSync(q) /\ DevSyncAnswer(q)
  <2>1. PICK answer \in {1, 2} :
          /\ answer = 1 => \E n \in 1..call : stream[q].got = Whole(n)
          /\ DevWrites(Pkt("WRTE", q, stream[q].peer, <<q, answer>>))
    BY <1>2 DEF DevSyncAnswer
  <2>2. /\ stream[q].st = "ready" /\ UNCHANGED out
        /\ stream' = [stream EXCEPT ![q].st = "waitack", ![q].sent = 1]
    BY <1>2 DEF DevSyncAnswer
  <2>3. /\ OnlyChanges(q, [stream[q] EXCEPT !.st = "waitack", !.sent = 1])
        /\ stream'[q].st = "waitack" /\ stream'[q].service = stream[q].service
        /\ stream'[q].got = stream[q].got
    BY <2>2, SentSet
  <2>4. answer \in Nat /\ <<q, answer>> \in Data /\ <<q, answer>>[2] = answer
    BY <1>1, PairType
  <2>5. Extends(inp', inp, OkaysOf(r)) /\ (q # r => Extends(inp', inp, Success(r)))
    BY <1>1, <2>1, <2>4, AnswersExtend
  <2>6. Goes(r)
    BY <2>2, <2>3, <2>5 DEF Goes, OnlyChanges
  <2>7. CASE q # r
    BY <2>5, <2>6, <2>7 DEF Does
  <2>8. CASE q = r /\ answer = 1
    <3>1. Pkt("WRTE", q, stream[q].peer, <<q, answer>>) \in Packet
      BY <1>1, <2>4, PacketType
    <3>2. Succeeds(r)
      BY <2>1, <2>2, <2>8, <3>1 DEF Succeeds, IsOpen
    <3> QED BY <1>2, <2>6, <2>8, <3>2 DEF Does
  <2>9. CASE q = r /\ answer # 1
    <3>00. PICK d \in Data : d = <<q, answer>>
      BY <2>4
    <3> DEFINE p == Pkt("WRTE", q, stream[q].peer, d)
    <3>0. p \in Packet /\ p.data = d
      BY <1>1, PacketType
    <3>1. p \in Packet /\ p.data = <<q, answer>> /\ DevWrites(p) /\ inp \in Seq(Transfer)
      BY <2>1, <3>0, <3>00, InvParts
    <3> HIDE DEF p
    <3>2. <<r, 1>>[2] = 1
      OBVIOUS
    <3>3. Header(p) \notin Success(r)
      BY <2>4, <2>9, <3>1, <3>2, HeaderType DEF Success
    <3>4. \A t \in Success(r) : t.kind = "header"
      BY DEF Success, WritesOf, Headers
    <3>5. Extends(inp', inp, Success(r))
      BY <3>1, <3>3, <3>4, WritesExtend
    <3> QED BY <2>6, <3>5 DEF Does
  <2> QED BY <2>7, <2>8, <2>9
<1>3. CASE ~IsSync(q) /\ DevStreamWrite(q)
  <2> DEFINE n == stream[q].sent + 1
  <2>1. /\ stream[q].st = "ready" /\ UNCHANGED out
        /\ DevWrites(Pkt("WRTE", q, stream[q].peer, <<q, n>>))
        /\ stream' = [stream EXCEPT ![q].st = "waitack", ![q].sent = n]
    BY <1>3 DEF DevStreamWrite
  <2>2. n \in Nat
    BY <1>1
  <2> HIDE DEF n
  <2>3. /\ OnlyChanges(q, [stream[q] EXCEPT !.st = "waitack", !.sent = n])
        /\ stream'[q].st = "waitack" /\ stream'[q].service = stream[q].service
        /\ stream'[q].got = stream[q].got
    BY <2>1, <2>2, SentSet
  <2>4. Extends(inp', inp, OkaysOf(r)) /\ (q # r => Extends(inp', inp, Success(r)))
    BY <1>1, <2>1, <2>2, PairType, AnswersExtend
  <2>5. Goes(r)
    BY <2>1, <2>3, <2>4 DEF Goes, OnlyChanges
  <2> QED BY <1>3, <2>1, <2>4, <2>5 DEF Does
<1>4. CASE DevStreamEnd(q)
  <2>1. /\ stream[q].st # "none" /\ UNCHANGED out
        /\ DevWrites(Pkt("CLSE", q, stream[q].peer, NoData))
        /\ stream' = [stream EXCEPT ![q].st = "closed"]
    BY <1>4 DEF DevStreamEnd, IsOpen
  <2>2. /\ OnlyChanges(q, [stream[q] EXCEPT !.st = "closed"])
        /\ stream'[q].st = "closed" /\ stream'[q].service = stream[q].service
        /\ stream'[q].got = stream[q].got
    BY <2>1, StatusSet
  <2>3. Extends(inp', inp, OkaysOf(r)) /\ Extends(inp', inp, Success(r))
    BY <1>1, <2>1, AnswersExtend
  <2>4. Goes(r)
    BY <2>1, <2>2, <2>3 DEF Goes, OnlyChanges
  <2> QED BY <2>3, <2>4 DEF Does
<1> QED BY <1>2, <1>3, <1>4 DEF Service

-----------------------------------------------------------------------------
(* A step of adbd keeps each part.                                         *)
LEMMA ExtendsType ==
  ASSUME CommandsInv, CommandsInv'
  PROVE  inp \in Seq(Transfer) /\ inp' \in Seq(Transfer) /\ out \in Seq(Packet) /\ out' \in Seq(Packet)
BY DEF CommandsInv, TypeOK, WireTypeOK

(* What the pipe to adbd holds of a stream that goes on.                   *)
LEMMA GoesOut ==
  ASSUME CommandsInv, CommandsInv', NEW r \in RemoteIds, Goes(r) \/ Starts(r),
         stream'[r].st # "closed"
  PROVE  /\ None(out, PendsOf(r)) => None(out', PendsOf(r))
         /\ Once(out, PendsOf(r)) => Once(out', PendsOf(r))
         /\ \A A \in SUBSET PendsOf(r) : First(out, A, PendsOf(r)) => First(out', A, PendsOf(r))
<1>1. out \in Seq(Packet)
  BY ExtendsType
<1>2. CASE UNCHANGED out
  BY <1>2
<1>3. CASE out # <<>> /\ out' = Tail(out) /\ Frame \notin PendsOf(r)
  BY <1>1, <1>3, TakeKeeps, FirstTake DEF Frame
<1> QED BY <1>2, <1>3 DEF Goes, Starts

LEMMA InteractiveSub == ASSUME NEW r PROVE InteractiveOf(r) \in SUBSET PendsOf(r)
BY DEF InteractiveOf

LEMMA PlainGrows ==
  ASSUME CommandsInv, NEW r \in RemoteIds, Gets(r)
  PROVE  /\ Plain(r)' => Plain(r) /\ Frame \notin InteractiveOf(r)
<1>1. stream[r].got \in Seq(Data) /\ Frame.data \in Data
  BY StreamType, PacketParts DEF Gets, PendsOf, Sent
<1> DEFINE s == stream[r].got
           t == stream'[r].got
<1>2. /\ Len(s) \in Nat /\ Len(t) = Len(s) + 1 /\ t[Len(s) + 1] = Frame.data
      /\ \A i \in 1..Len(s) : t[i] = s[i]
  BY <1>1, AddItem DEF Gets
<1>3. ASSUME Plain(r)' PROVE Plain(r) /\ Frame \notin InteractiveOf(r)
  <2>1. \A j \in 1..Len(t) : t[j][2] # 0
    BY <1>3 DEF Plain
  <2>2. Len(s) + 1 \in 1..Len(t) /\ \A i \in 1..Len(s) : i \in 1..Len(t)
    BY <1>2
  <2>3. Frame.data[2] # 0
    BY <1>2, <2>1, <2>2
  <2>4. \A j \in 1..Len(s) : s[j][2] # 0
    BY <1>2, <2>1, <2>2
  <2> QED BY <2>3, <2>4 DEF Plain, InteractiveOf
<1> QED BY <1>3

LEMMA AsksDev ==
  ASSUME CommandsInv, CommandsInv', AskedOnce, NEW r \in RemoteIds, Does(r)
  PROVE  Asks(r)'
<1>0. inp \in Seq(Transfer) /\ inp' \in Seq(Transfer) /\ out \in Seq(Packet)
  BY ExtendsType
<1>1. Asks(r)
  BY DEF AskedOnce
<1>2. ASSUME DevWrites(Pkt("OKAY", r, LocalId, NoData))
      PROVE  None(inp, OkaysOf(r)) => Once(inp', OkaysOf(r))
  <2>0. r \in Nat /\ LocalId \in Nat /\ NoData \in Data
    BY StreamType, NoDataType DEF LocalId
  <2>1. /\ Pkt("OKAY", r, LocalId, NoData) \in Packet /\ Pkt("OKAY", r, LocalId, NoData).cmd = "OKAY"
        /\ Pkt("OKAY", r, LocalId, NoData).arg0 = r
    BY <2>0, PacketType
  <2> QED BY <1>0, <1>2, <2>1, WriteKeeps DEF OkaysOf
<1>3. CASE Gets(r)
  <2>1. stream'[r].st # "none"
    BY <1>3 DEF Gets, IsOpen
  <2>2. ASSUME Plain(r)' PROVE OneAsked(r)'
    <3>1. Plain(r) /\ IsOpen(r) /\ Frame \notin InteractiveOf(r) /\ Frame \in PendsOf(r)
          /\ out # <<>> /\ out' = Tail(out)
      BY <1>3, <2>2, PlainGrows DEF Gets
    <3>2. OneAsked(r)
      BY <1>1, <3>1 DEF Asks
    <3>3. ~None(out, PendsOf(r)) /\ ~First(out, InteractiveOf(r), PendsOf(r))
      BY <1>0, <3>1, TakeFound, FirstTake DEF Frame
    <3>4. None(inp, OkaysOf(r)) /\ Once(out, PendsOf(r))
      BY <3>2, <3>3 DEF OneAsked
    <3>5. Once(inp', OkaysOf(r))
      BY <1>2, <1>3, <3>4 DEF Gets
    <3>6. None(out', PendsOf(r))
      BY <1>0, <3>1, <3>4, TakeKeeps DEF Frame
    <3> QED BY <3>5, <3>6 DEF OneAsked, OkaysOf, PendsOf
  <2> QED BY <2>1, <2>2 DEF Asks
<1>4. CASE Starts(r)
  <2>1. None(inp, OkaysOf(r)) /\ None(out, PendsOf(r)) /\ stream'[r].st = "ready"
    BY <1>1, <1>4 DEF Asks, Starts
  <2>2. None(out', PendsOf(r))
    BY <1>4, <2>1, GoesOut
  <2>3. Once(inp', OkaysOf(r))
    BY <1>2, <1>4, <2>1 DEF Starts
  <2> QED BY <2>1, <2>2, <2>3 DEF Asks, OneAsked, OkaysOf, PendsOf
<1>5. CASE Goes(r)
  <2>1. /\ None(inp, OkaysOf(r)) => None(inp', OkaysOf(r))
        /\ Once(inp, OkaysOf(r)) => Once(inp', OkaysOf(r))
    BY <1>0, <1>5, ExtendsKeeps DEF Goes
  <2>2. ASSUME stream'[r].st = "none"
        PROVE  None(inp', OkaysOf(r)) /\ None(out', PendsOf(r))
    <3>1. stream[r].st = "none" /\ stream'[r].st # "closed"
      BY <1>5, <2>2 DEF Goes
    <3> QED BY <1>1, <1>5, <2>1, <3>1, GoesOut DEF Asks
  <2>3. ASSUME IsOpen(r)', Plain(r)' PROVE OneAsked(r)'
    <3>1. stream'[r].st # "closed" /\ Plain(r) /\ IsOpen(r)
      BY <1>5, <2>3, StreamType DEF Goes, IsOpen, Plain
    <3>2. OneAsked(r)
      BY <1>1, <3>1 DEF Asks
    <3>3. /\ None(out, PendsOf(r)) => None(out', PendsOf(r))
          /\ Once(out, PendsOf(r)) => Once(out', PendsOf(r))
          /\ First(out, InteractiveOf(r), PendsOf(r)) => First(out', InteractiveOf(r), PendsOf(r))
      BY <1>5, <3>1, GoesOut, InteractiveSub
    <3> QED BY <2>1, <3>2, <3>3 DEF OneAsked, OkaysOf, PendsOf, InteractiveOf
  <2> QED BY <2>2, <2>3 DEF Asks, OkaysOf, PendsOf
<1> QED BY <1>3, <1>4, <1>5 DEF Does

LEMMA KeptDev ==
  ASSUME CommandsInv, CommandsInv', Kept, UNCHANGED commandVars, \A r \in RemoteIds : Does(r)
  PROVE  Kept'
<1> SUFFICES ASSUME service # 0
             PROVE  \/ stream'[service].st = "closed"
                    \/ ~Plain(service)'
                    \/ First(out', InteractiveOf(service), PendsOf(service))
  BY DEF Kept, commandVars, Plain, InteractiveOf, PendsOf
<1>1. PICK r \in RemoteIds : r = service /\ stream[r].st # "none" /\ Does(r)
  BY InvParts DEF CallOK, Known
<1>2. stream[r].st = "closed" \/ ~Plain(r) \/ First(out, InteractiveOf(r), PendsOf(r))
  BY <1>1 DEF Kept
<1>3. service' = service
  BY DEF commandVars
<1>4. \/ stream'[r].st = "closed"
      \/ ~Plain(r)'
      \/ First(out', InteractiveOf(r), PendsOf(r))
  <2>1. CASE Gets(r)
    <3>1. Plain(r)' => Plain(r) /\ Frame \notin InteractiveOf(r)
      BY <2>1, PlainGrows
    <3>2. stream[r].st # "closed" /\ out # <<>> /\ Frame \in PendsOf(r) /\ out \in Seq(Packet)
      BY <2>1, ExtendsType DEF Gets, IsOpen
    <3>3. First(out, InteractiveOf(r), PendsOf(r)) => Frame \in InteractiveOf(r)
      BY <3>2, FirstTake DEF Frame
    <3> QED BY <1>2, <3>1, <3>2, <3>3
  <2>2. CASE Goes(r)
    <3>1. stream[r].st = "closed" => stream'[r].st = "closed"
      BY <2>2 DEF Goes
    <3>2. Plain(r)' => Plain(r)
      BY <2>2 DEF Goes, Plain
    <3>3. stream'[r].st # "closed" /\ First(out, InteractiveOf(r), PendsOf(r))
          => First(out', InteractiveOf(r), PendsOf(r))
      BY <2>2, GoesOut, InteractiveSub
    <3> QED BY <1>2, <3>1, <3>2, <3>3
  <2>3. CASE Starts(r)
    BY <1>1, <2>3 DEF Starts
  <2> QED BY <1>1, <2>1, <2>2, <2>3 DEF Does
<1> QED BY <1>1, <1>3, <1>4 DEF Plain

LEMMA WholeIs ==
  ASSUME CommandsInv, NEW n
  PROVE  /\ Writes(cmd[n]) \in Nat /\ Writes(cmd[n]) >= 1
         /\ Whole(n) # <<>> /\ Last(Whole(n)) = <<n, Writes(cmd[n])>>
         /\ \A r : stream[r].got = Whole(n) => Plain(r)
<1>1. Writes(cmd[n]) \in Nat /\ Writes(cmd[n]) >= 1
  BY CommandsAssumption DEF Writes
<1> DEFINE k == Writes(cmd[n])
           s == [i \in 1..k |-> <<n, i>>]
<1> HIDE DEF k
<1>2. k \in Nat /\ k >= 1
  BY <1>1 DEF k
<1>3. /\ Len(s) = k /\ s # <<>> /\ s[k] = <<n, k>>
      /\ \A j \in 1..Len(s) : s[j][2] = j
  BY <1>2
<1>4. s = Whole(n)
  BY DEF Whole, k
<1> HIDE DEF s
<1>5. \A r : stream[r].got = s => Plain(r)
  BY <1>2, <1>3 DEF Plain
<1> QED BY <1>1, <1>3, <1>4, <1>5 DEF Last, k

LEMMA SyncDev ==
  ASSUME CommandsInv, UNCHANGED commandVars, NEW r \in RemoteIds, Does(r), stream[r].st # "none"
  PROVE  IsSync(r)' <=> IsSync(r)
<1>1. stream'[r].service = stream[r].service
  BY DEF Does, Gets, Starts, Goes
<1> QED BY <1>1 DEF IsSync, commandVars

(* A service answers once it has received all, and so has acknowledged all. *)
LEMMA SuccessAnswers ==
  ASSUME CommandsInv, CommandsInv', AskedOnce, NEW r \in RemoteIds, Succeeds(r)
  PROVE  /\ OneAsked(r) /\ (\E n \in 1..call : stream[r].got = Whole(n))
         /\ \A i \in 1..Len(inp') : inp'[i] \in Success(r) =>
              \/ /\ i \in 1..Len(inp) /\ inp[i] \in Success(r)
                 /\ \A S : /\ OnceAhead(inp, i, S) => OnceAhead(inp', i, S)
                           /\ NoneAhead(inp, i, S) => NoneAhead(inp', i, S)
              \/ /\ None(inp, OkaysOf(r)) => NoneAhead(inp', i, OkaysOf(r))
                 /\ OnceAhead(inp', i, OkaysOf(r))
<1>1. PICK p \in Packet : DevWrites(p)
  BY DEF Succeeds
<1>2. PICK n \in 1..call : stream[r].got = Whole(n)
  BY DEF Succeeds
<1>3. Plain(r) /\ IsOpen(r)
  BY <1>2, WholeIs DEF Succeeds
<1>4. OneAsked(r)
  BY <1>3 DEF AskedOnce, Asks
<1>5. /\ Len(inp) \in Nat /\ Len(inp') \in Nat
      /\ \A i \in 1..Len(inp) : inp'[i] = inp[i]
      /\ \A i \in 1..Len(inp') :
           i \in 1..Len(inp) \/ i = Len(inp) + 1 \/ i = Len(inp) + 2
      /\ Len(inp') >= Len(inp) + 2 =>
           inp'[Len(inp) + 2] = [kind |-> "payload", packet |-> p]
  BY <1>1, InvParts, WriteAdds
<1>6. None(inp, OkaysOf(r)) \/ Once(inp, OkaysOf(r))
  BY <1>4 DEF OneAsked
<1>7. [kind |-> "payload", packet |-> p] \notin Success(r)
  BY DEF Success, WritesOf, Headers
<1>8. ASSUME NEW i \in 1..Len(inp'), inp'[i] \in Success(r)
      PROVE  \/ /\ i \in 1..Len(inp) /\ inp[i] \in Success(r)
                /\ \A S : /\ OnceAhead(inp, i, S) => OnceAhead(inp', i, S)
                          /\ NoneAhead(inp, i, S) => NoneAhead(inp', i, S)
             \/ /\ None(inp, OkaysOf(r)) => NoneAhead(inp', i, OkaysOf(r))
                /\ OnceAhead(inp', i, OkaysOf(r))
  <2>1. CASE i \in 1..Len(inp)
    <3>1. \A j \in 1..i-1 : inp'[j] = inp[j]
      BY <1>5, <2>1
    <3> QED BY <1>5, <1>8, <2>1, <3>1 DEF OnceAhead, NoneAhead
  <2>2. CASE i = Len(inp) + 1
    <3>1. \A j \in 1..i-1 : j \in 1..Len(inp) /\ inp'[j] = inp[j]
      BY <1>5, <2>2
    <3> QED BY <1>6, <3>1 DEF None, Once, OnceAhead, NoneAhead
  <2>3. CASE i = Len(inp) + 2
    BY <1>5, <1>7, <1>8, <2>3
  <2> QED BY <1>5, <2>1, <2>2, <2>3
<1> QED BY <1>2, <1>4, <1>8

LEMMA NoStreamSaid ==
  ASSUME CommandsInv, NEW r \in RemoteIds, stream[r].st = "none"
  PROVE  \A i \in 1..Len(inp) : inp[i] \notin Success(r)
<1>1. \A i \in 1..Len(inp) : inp[i] \in Said
  BY InvParts
<1> QED BY <1>1 DEF Said, Success, WritesOf, Headers

LEMMA SuccessDev ==
  ASSUME CommandsInv, CommandsInv', AskedOnce, SuccessOnce, UNCHANGED commandVars,
         NEW r \in RemoteIds, Does(r)
  PROVE  SuccessBehind(r)'
<1> SUFFICES ASSUME IsSync(r)', NEW i \in 1..Len(inp'), inp'[i] \in Success(r)
             PROVE  OnceAhead(inp', i, OkaysOf(r))
  BY DEF SuccessBehind, Success, OkaysOf, WritesOf
<1>1. inp \in Seq(Transfer) /\ inp' \in Seq(Transfer)
  BY ExtendsType
<1>2. CASE Extends(inp', inp, Success(r))
  <2>1. /\ i \in 1..Len(inp) /\ inp[i] \in Success(r)
        /\ OnceAhead(inp, i, OkaysOf(r)) => OnceAhead(inp', i, OkaysOf(r))
    BY <1>1, <1>2, ExtendsAhead
  <2>2. IsSync(r)
    BY <2>1, NoStreamSaid, SyncDev
  <2> QED BY <2>1, <2>2 DEF SuccessOnce, SuccessBehind
<1>3. CASE IsSync(r) /\ Succeeds(r)
  <2>1. \/ /\ i \in 1..Len(inp) /\ inp[i] \in Success(r)
           /\ OnceAhead(inp, i, OkaysOf(r)) => OnceAhead(inp', i, OkaysOf(r))
        \/ OnceAhead(inp', i, OkaysOf(r))
    BY <1>3, SuccessAnswers
  <2> QED BY <1>3, <2>1 DEF SuccessOnce, SuccessBehind
<1>4. CASE stream[r].st # "none" /\ ~IsSync(r)
  BY <1>4, SyncDev
<1> QED BY <1>2, <1>3, <1>4 DEF Does

(* What the call under way has written last arrives, and is the last.      *)
LEMMA WrittenDev ==
  ASSUME CommandsInv, CommandsInv', LastWritten, UNCHANGED commandVars,
         \A r \in RemoteIds : Does(r)
  PROVE  LastWritten'
<1> SUFFICES ASSUME Writing PROVE LastWritten'
  BY DEF LastWritten, Writing, commandVars
<1>1. PICK r \in RemoteIds : r = remote /\ stream[r].st # "none" /\ Does(r)
  BY InvParts DEF CallOK, Known, Writing
<1>2. UNCHANGED <<pc, call, cmd, written, remote>>
  BY DEF commandVars
<1>3. /\ Number \in 1..Writes(cmd[call])
      /\ pc = "sync_read" => Number = Writes(cmd[call])
      /\ IsOpen(r) => Arrived(r) \/ OnItsWay(r)
      /\ pc = "sync_read" /\ IsOpen(r) /\ Plain(r) => None(inp, OkaysOf(r)) /\ None(out, PendsOf(r))
  BY <1>1 DEF LastWritten
<1>4. inp \in Seq(Transfer) /\ inp' \in Seq(Transfer) /\ out \in Seq(Packet)
      /\ stream[r].got \in Seq(Data)
  BY ExtendsType, StreamType
<1>5. CASE Gets(r)
  <2>1. /\ out # <<>> /\ out' = Tail(out) /\ Frame \in PendsOf(r) /\ IsOpen(r)
        /\ stream'[r].got = Append(stream[r].got, Frame.data) /\ Frame.data \in Data
    BY <1>5, PacketParts DEF Gets, PendsOf, Sent
  <2>2. ~None(out, PendsOf(r))
    BY <1>4, <2>1, TakeFound DEF Frame
  <2>3. Latest(out, Written(r), PendsOf(r))
    BY <1>3, <2>1, <2>2 DEF Arrived, OnItsWay
  <2>4. Latest(out', Written(r), PendsOf(r)) \/ (Frame \in Written(r) /\ None(out', PendsOf(r)))
    BY <1>4, <2>1, <2>3, LatestTake DEF Frame
  <2>5. stream'[r].got # <<>> /\ Last(stream'[r].got) = Frame.data
    <3>1. Len(stream'[r].got) = Len(stream[r].got) + 1 /\ Len(stream[r].got) \in Nat
          /\ stream'[r].got[Len(stream[r].got) + 1] = Frame.data
      BY <1>4, <2>1, AddItem
    <3>2. stream'[r].got \in Seq(Data)
      BY <1>4, <2>1, AddItem
    <3> QED BY <3>1, <3>2 DEF Last
  <2>6. Arrived(r)' \/ OnItsWay(r)'
    BY <1>2, <2>4, <2>5 DEF Arrived, OnItsWay, Written, Number, PendsOf
  <2>7. ~(pc = "sync_read" /\ Plain(r)')
    BY <1>3, <1>5, <2>1, <2>2, PlainGrows
  <2> QED BY <1>1, <1>2, <1>3, <2>6, <2>7 DEF LastWritten, Number, Writes
<1>6. CASE Goes(r)
  <2>1. IsOpen(r)' => IsOpen(r) /\ stream'[r].st # "closed"
    BY <1>1, <1>6, StreamType DEF Goes, IsOpen
  <2>2. ASSUME stream'[r].st # "closed"
        PROVE  /\ None(out, PendsOf(r)) => None(out', PendsOf(r))
               /\ OnItsWay(r) => OnItsWay(r)'
    <3>1. None(out, PendsOf(r)) => None(out', PendsOf(r))
      BY <1>6, <2>2, GoesOut
    <3>2. Latest(out, Written(r), PendsOf(r)) => Latest(out', Written(r), PendsOf(r))
      <4>1. CASE UNCHANGED out
        BY <4>1
      <4>2. CASE out # <<>> /\ out' = Tail(out) /\ Frame \notin PendsOf(r)
        <5>1. Frame \notin Written(r)
          BY <4>2 DEF Written
        <5> QED BY <1>4, <4>2, <5>1, LatestTake DEF Frame
      <4> QED BY <1>6, <2>2, <4>1, <4>2 DEF Goes
    <3> QED BY <1>2, <3>1, <3>2 DEF OnItsWay, Written, Number, PendsOf
  <2>3. stream'[r].got = stream[r].got
    BY <1>6 DEF Goes
  <2>4. IsOpen(r)' => Arrived(r)' \/ OnItsWay(r)'
    BY <1>2, <1>3, <2>1, <2>2, <2>3 DEF Arrived, Number, PendsOf
  <2>5. None(inp, OkaysOf(r)) => None(inp', OkaysOf(r))
    BY <1>4, <1>6, ExtendsKeeps DEF Goes
  <2>6. pc = "sync_read" /\ IsOpen(r)' /\ Plain(r)' =>
          None(inp', OkaysOf(r)) /\ None(out', PendsOf(r))
    BY <1>3, <2>1, <2>2, <2>3, <2>5 DEF Plain
  <2> QED BY <1>1, <1>2, <1>3, <2>4, <2>6 DEF LastWritten, Number, Writes, PendsOf, OkaysOf
<1>7. CASE Starts(r)
  BY <1>1, <1>7 DEF Starts
<1> QED BY <1>1, <1>5, <1>6, <1>7 DEF Does

(* A service that has received all and says so serves the call under way.  *)
LEMMA AnswersCall ==
  ASSUME CommandsInv, CommandsInv', PushInv, Writing, IsSync(remote), Succeeds(remote)
  PROVE  AllWritten(remote) \/ (pc = "sync_write" /\ None(inp, OkaysOf(remote)))
<1>1. PICK r \in RemoteIds : r = remote
  BY InvParts DEF CallOK, Known, Writing
<1>2. PICK n \in 1..call : stream[r].got = Whole(n)
  BY <1>1, SuccessAnswers DEF PushInv
<1>3. OneAsked(r) /\ IsOpen(r) /\ Plain(r)
  BY <1>1, <1>2, SuccessAnswers, WholeIs DEF PushInv, Succeeds
<1>4. ASSUME pc = "sync_read" \/ ~None(inp, OkaysOf(r))
      PROVE  AllWritten(r)
  <2>1. None(out, PendsOf(r))
    BY <1>1, <1>3, <1>4 DEF OneAsked, PushInv, LastWritten
  <2>2. ~OnItsWay(r)
    BY <2>1 DEF OnItsWay, Latest, None, Written
  <2>3. Last(stream[r].got) = <<call, Number>>
    BY <1>1, <1>3, <2>2 DEF PushInv, LastWritten, Arrived
  <2>4. <<n, Writes(cmd[n])>> = <<call, Number>>
    BY <1>2, <2>3, WholeIs
  <2>5. n = call /\ Number = Writes(cmd[n])
    BY <2>4
  <2> QED BY <1>2, <2>1, <2>5 DEF AllWritten
<1>5. pc \in {"sync_write", "sync_read"}
  BY DEF Writing
<1> QED BY <1>1, <1>4, <1>5

LEMMA OwnDev ==
  ASSUME CommandsInv, CommandsInv', PushInv, UNCHANGED commandVars,
         \A r \in RemoteIds : Does(r)
  PROVE  SuccessOwn'
<1> SUFFICES ASSUME Writing, IsSync(remote)', NEW i \in 1..Len(inp'), inp'[i] \in Success(remote)
             PROVE  \/ AllWritten(remote)'
                    \/ pc = "sync_write" /\ NoneAhead(inp', i, OkaysOf(remote))
  BY DEF SuccessOwn, Writing, commandVars, Success, OkaysOf, WritesOf
<1>1. PICK r \in RemoteIds : r = remote /\ stream[r].st # "none" /\ Does(r)
  BY InvParts DEF CallOK, Known, Writing
<1>2. UNCHANGED <<pc, call, cmd, written, remote>>
  BY DEF commandVars
<1>3. IsSync(r)
  BY <1>1, <1>2, SyncDev DEF IsSync
<1>4. AllWritten(r) => AllWritten(r)'
  <2> SUFFICES ASSUME AllWritten(r) PROVE AllWritten(r)'
    OBVIOUS
  <2>1. None(out, PendsOf(r)) /\ out \in Seq(Packet)
    BY ExtendsType DEF AllWritten
  <2>2. Goes(r)
    BY <1>1, <2>1, TakeFound DEF Does, Gets, Starts, Frame
  <2>3. stream'[r].got = stream[r].got
    BY <2>2 DEF Goes
  <2>4. None(out', PendsOf(r))
    BY <2>1, <2>2, TakeKeeps DEF Goes
  <2> QED BY <1>2, <2>3, <2>4 DEF AllWritten, Number, Whole, Writes, PendsOf
<1>5. \/ AllWritten(r) \/ (pc = "sync_write" /\ NoneAhead(inp', i, OkaysOf(r)))
  <2>1. inp \in Seq(Transfer) /\ inp' \in Seq(Transfer)
    BY ExtendsType
  <2>2. ASSUME i \in 1..Len(inp), inp[i] \in Success(r)
        PROVE  AllWritten(r) \/ (pc = "sync_write" /\ NoneAhead(inp, i, OkaysOf(r)))
    BY <1>1, <1>3, <2>2 DEF PushInv, SuccessOwn
  <2>3. CASE Extends(inp', inp, Success(r))
    <3>1. /\ i \in 1..Len(inp) /\ inp[i] \in Success(r)
          /\ NoneAhead(inp, i, OkaysOf(r)) => NoneAhead(inp', i, OkaysOf(r))
      BY <1>1, <2>1, <2>3, ExtendsAhead
    <3> QED BY <2>2, <3>1
  <2>4. CASE Succeeds(r)
    <3>1. \/ /\ i \in 1..Len(inp) /\ inp[i] \in Success(r)
             /\ NoneAhead(inp, i, OkaysOf(r)) => NoneAhead(inp', i, OkaysOf(r))
          \/ None(inp, OkaysOf(r)) => NoneAhead(inp', i, OkaysOf(r))
      BY <1>1, <2>4, SuccessAnswers DEF PushInv
    <3>2. AllWritten(r) \/ (pc = "sync_write" /\ None(inp, OkaysOf(r)))
      BY <1>1, <1>3, <2>4, AnswersCall
    <3> QED BY <2>2, <3>1, <3>2
  <2> QED BY <1>1, <1>3, <2>3, <2>4 DEF Does
<1> QED BY <1>1, <1>2, <1>4, <1>5

(* What was pushed stays as it is.                                         *)
LEMMA PushedDev ==
  ASSUME CommandsInv, CommandsInv', UNCHANGED commandVars, \A r \in RemoteIds : Does(r),
         NEW n, Pushed(n)
  PROVE  Pushed(n)'
<1>1. PICK q \in RemoteIds : stream[q].got = Whole(n) /\ Sealed(q)
  BY DEF Pushed
<1>2. stream[q].st # "none"
  <2>1. stream[q].got # <<>>
    BY <1>1, WholeIs
  <2> QED BY <2>1 DEF CommandsInv, StreamsOK, NoStream
<1>3. out \in Seq(Packet)
  BY ExtendsType
<1>4. \A p \in Sent("CLSE", q) : p \notin PendsOf(q)
  BY DEF PendsOf, Sent
<1>5. Goes(q)
  <2>1. ~Gets(q)
    <3> SUFFICES ASSUME Gets(q) PROVE FALSE
      OBVIOUS
    <3>1. /\ out # <<>> /\ Frame \in PendsOf(q) /\ stream[q].st # "closed"
      BY DEF Gets, IsOpen
    <3>2. First(out, Sent("CLSE", q), PendsOf(q)) /\ Frame \notin Sent("CLSE", q)
      BY <1>1, <1>4, <3>1 DEF Sealed
    <3> QED BY <1>3, <3>1, <3>2, FirstTake DEF Frame
  <2> QED BY <1>2, <2>1 DEF Does, Starts
<1>6. stream'[q].got = Whole(n)'
  BY <1>1, <1>5 DEF Goes, Whole, commandVars
<1>7. Sealed(q)'
  <2>1. CASE stream[q].st = "closed"
    BY <1>5, <2>1 DEF Goes, Sealed
  <2>2. CASE First(out, Sent("CLSE", q), PendsOf(q))
    <3>1. stream'[q].st = "closed" \/ First(out', Sent("CLSE", q), PendsOf(q))
      <4>1. CASE UNCHANGED out
        BY <2>2, <4>1
      <4>2. CASE out # <<>> /\ out' = Tail(out) /\ Frame \notin Sent("CLSE", q)
        BY <1>3, <2>2, <4>2, FirstTake DEF Frame
      <4> QED BY <1>5, <4>1, <4>2 DEF Goes
    <3> QED BY <3>1 DEF Sealed, Sent, PendsOf
  <2> QED BY <1>1, <2>1, <2>2 DEF Sealed
<1> QED BY <1>6, <1>7 DEF Pushed

LEMMA DevPush ==
  ASSUME CommandsInv, CommandsInv', PushInv, UNCHANGED commandVars,
         DevPacket \/ \E q \in RemoteIds : Service(q)
  PROVE  PushInv'
<1>1. ASSUME NEW r \in RemoteIds PROVE Does(r)
  BY OpenDoes, FrameDoes, ServiceDoes DEF DevPacket
<1>2. AskedOnce'
  BY <1>1, AsksDev DEF AskedOnce, PushInv
<1>3. SuccessOnce'
  BY <1>1, SuccessDev DEF SuccessOnce, PushInv
<1>4. Kept' /\ LastWritten' /\ SuccessOwn'
  BY <1>1, KeptDev, WrittenDev, OwnDev DEF PushInv
<1>5. Installing'
  <2>1. UNCHANGED <<pc, pending, call, cmd>>
    BY DEF commandVars, plan
  <2>2. \A n : Pushed(n) => Pushed(n)'
    BY <1>1, PushedDev
  <2>3. Pushed(call) => Pushed(call)'
    BY <2>1, <2>2
  <2>4. \A n \in 1..call : cmd[n] = "pm_install" => n > 1 /\ Pushed(n - 1)'
    BY <2>2 DEF PushInv, Installing
  <2> QED BY <2>1, <2>3, <2>4 DEF PushInv, Installing, Rest
<1> QED BY <1>2, <1>3, <1>4, <1>5 DEF PushInv

LEMMA NextPush == CommandsInv /\ CommandsInv' /\ PushInv /\ [Next]_vars => PushInv'
<1> SUFFICES ASSUME CommandsInv, CommandsInv', PushInv, [Next]_vars PROVE PushInv'
  OBVIOUS
<1>1. CASE (DevPacket \/ \E r \in RemoteIds : Service(r)) /\ UNCHANGED commandVars
  BY <1>1, DevPush
<1>2. CASE Open \/ InteractiveShell
  BY <1>2, OpenPush, InteractivePush
<1>3. CASE Abandon \/ CloseDevice
  BY <1>3, StopPush
<1>4. CASE Read
  BY <1>4, OpenAnswerPush, ReadOutputPush, EchoPush, SyncWritePush, SyncAnswerPush,
     SyncClosedPush, SkipPush, StopPush DEF Read
<1>5. CASE UNCHANGED vars
  <2>1. UNCHANGED <<inp, out, stream, pc, pending, call, cmd, written, remote, service>>
    BY <1>5 DEF vars, wireVars, commandVars, plan
  <2>2. AskedOnce' /\ Kept'
    BY <2>1 DEF PushInv, AskedOnce, Asks, OneAsked, Plain, IsOpen, OkaysOf, PendsOf,
       InteractiveOf, Kept
  <2>3. SuccessOnce'
    BY <2>1 DEF PushInv, SuccessOnce, SuccessBehind, Success, IsSync, OnceAhead, OkaysOf, WritesOf
  <2>4. LastWritten'
    BY <2>1 DEF PushInv, LastWritten, Writing, Number, Arrived, OnItsWay, Written, IsOpen, Plain,
       OkaysOf, PendsOf, Writes
  <2>5. SuccessOwn'
    BY <2>1 DEF PushInv, SuccessOwn, Writing, Number, IsSync, Success, AllWritten, Whole, Writes,
       NoneAhead, OkaysOf, WritesOf, PendsOf
  <2>6. Installing'
    BY <2>1 DEF PushInv, Installing, Pushed, Sealed, Whole, Writes, Sent, PendsOf
  <2> QED BY <2>2, <2>3, <2>4, <2>5, <2>6 DEF PushInv
<1> QED BY <1>1, <1>2, <1>3, <1>4, <1>5 DEF Next

(* Install asks for "pm install" only when a sync service has received the *)
(* whole apk, in one stream and in order, for any program and any number   *)
(* of packets in a push: whatever the calls before it left in the pipe, a  *)
(* push that returns was answered by the service it wrote all of it to     *)
(* (Install, FilesyncProtocol.Push, and the answer Open takes).            *)
THEOREM InstalledAfterPush == Spec => []InstalledIsPushed
<1>1. Init => PushInv
  BY InitPush
<1>2. CommandsInv /\ PushInv => InstalledIsPushed
  <2> SUFFICES ASSUME CommandsInv, PushInv, NEW r \in RemoteIds, NEW n \in Calls,
                      stream[r].service = <<n, 0>>, cmd[n] = "pm_install"
               PROVE  \E q \in RemoteIds : stream[q].got = Whole(n - 1)
    BY DEF InstalledIsPushed
  <2>1. stream[r].st # "none"
    <3>1. n # 0
      BY DEF Calls
    <3>2. NoStream.service = <<0, 0>>
      BY DEF NoStream, NoData
    <3> QED BY <3>1, <3>2 DEF CommandsInv, StreamsOK
  <2>2. PICK m \in 1..call : stream[r].service = <<m, 0>>
    BY <2>1 DEF CommandsInv, StreamsOK
  <2>3. n \in 1..call
    BY <2>2
  <2>4. Pushed(n - 1)
    BY <2>3 DEF PushInv, Installing
  <2> QED BY <2>4 DEF Pushed
<1> QED BY <1>1, <1>2, NextPush, CommandsInvariant, PTL DEF Spec
=============================================================================
