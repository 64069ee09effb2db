--------------------------- MODULE ReliableOutput ---------------------------
(***************************************************************************)
(* What libadb promises of the output of shell commands: each call reads   *)
(* one stream of its own, chunk after chunk in the order written, and is   *)
(* told the end only when it has read everything.                          *)
(***************************************************************************)
EXTENDS Naturals, Sequences

CONSTANTS
  Readers,     \* the calls
  Streams      \* ids of the streams, numbers other than 0

VARIABLES
  written,     \* chunks written on each stream
  ended,       \* the streams whose writer has finished, some before the calls
  source,      \* the stream of each reader, 0 before it has one
  got,         \* what each reader has read
  complete     \* the readers that were told the end

outputVars == <<written, ended, source, got, complete>>

Init ==
  /\ written \in [Streams -> Nat]
  /\ ended \subseteq Streams
  /\ source = [c \in Readers |-> 0]
  /\ got = [c \in Readers |-> <<>>]
  /\ complete = {}

Write(s) ==
  /\ s \notin ended
  /\ written' = [written EXCEPT ![s] = @ + 1]
  /\ UNCHANGED <<ended, source, got, complete>>

End(S) ==
  /\ ended' = ended \cup S
  /\ UNCHANGED <<written, source, got, complete>>

Connect(c, s) ==
  /\ source[c] = 0
  /\ \A d \in Readers : source[d] # s
  /\ source' = [source EXCEPT ![c] = s]
  /\ UNCHANGED <<written, ended, got, complete>>

Read(c) ==
  /\ source[c] # 0
  /\ c \notin complete
  /\ Len(got[c]) < written[source[c]]
  /\ got' = [got EXCEPT ![c] = Append(@, <<source[c], Len(@) + 1>>)]
  /\ UNCHANGED <<written, ended, source, complete>>

Finish(c) ==
  /\ source[c] \in ended
  /\ Len(got[c]) = written[source[c]]
  /\ complete' = complete \cup {c}
  /\ UNCHANGED <<written, ended, source, got>>

Next ==
  \/ \E s \in Streams : Write(s)
  \/ \E S \in SUBSET Streams : End(S)
  \/ \E c \in Readers, s \in Streams : Connect(c, s)
  \/ \E c \in Readers : Read(c) \/ Finish(c)

Spec == Init /\ [][Next]_outputVars
=============================================================================
