----------------------------- MODULE TcpTransport -----------------------------
(***************************************************************************)
(* The TCP transporter of the lookup client.  One transporter, and so one  *)
(* socketChannel field, serves every query of a resolver instance, on the  *)
(* threads of all its clients, without a lock.  A lookup sends a frame, a  *)
(* length field of two bytes and a message, and takes the next frame that  *)
(* comes for its reply; it looks at no identifier.                         *)
(*                                                                         *)
(* A channel is named by the lookup that opened it, at most one each.  A   *)
(* frame is the sequence of its bytes <<q, 1>>, <<q, 2>>, ...: byte i of   *)
(* the frame sent for, or in reply to, lookup q.                           *)
(***************************************************************************)
EXTENDS Integers, Sequences, FiniteSets

CONSTANTS Lookups,
          BodyLen,     \* bytes of a message
          MaxLen,      \* bound: the length read from bytes that are no length field
          MaxCloses,   \* bound: connections the upstream server ends
          None

\* A DNS message has a header at least.
ASSUME LengthsAssumption == BodyLen \in Nat \ {0} /\ MaxLen \in Nat
ASSUME ClosesAssumption == MaxCloses \in Nat
ASSUME NoneAssumption == None \notin Lookups

HeaderLen == 2   \* bytes of the length field

VARIABLES
  socketChannel,  \* the field of the transporter that all lookups read and write
  link,           \* link[c]: the state of channel c
  peer,           \* peer[c]: whether upstream still serves the connection of c
  pending,        \* pending[c]: the queries upstream has got over c and not answered
  stream,         \* stream[c]: the bytes that have come and were not read
  pc,             \* pc[l]: where lookup l is
  at,             \* at[l]: the channel l is blocked in a read of
  buffer,         \* receiveBuffer below its limit, after the flip
  readSize,       \* readSize of the code, from the first read on
  position,       \* position of receiveBuffer, after the flip
  len,            \* the value of the length field
  answer,         \* the bytes the lookup returned
  closes          \* how many connections upstream has ended

vars == <<socketChannel, link, peer, pending, stream, pc, at, buffer, readSize,
          position, len, answer, closes>>
conn  == <<socketChannel, link, peer, pending, stream, closes>>
local == <<buffer, readSize, position, len>>

Links == {"none", "unconnected", "connected", "closed"}
Done  == {"answered", "failed"}
Pcs   == {"idle", "open", "connect", "write", "first", "rest"} \cup Done

Frame(q) == [i \in 1..(HeaderLen + BodyLen) |-> <<q, i>>]
Body(q)  == [i \in 1..BodyLen |-> <<q, HeaderLen + i>>]
Bytes    == Lookups \X (1..(HeaderLen + BodyLen))

TypeOK ==
  /\ socketChannel \in Lookups \cup {None}
  /\ link \in [Lookups -> Links]
  /\ peer \in [Lookups -> {"up", "gone"}]
  /\ pending \in [Lookups -> SUBSET Lookups]
  /\ stream \in [Lookups -> Seq(Bytes)]
  /\ pc \in [Lookups -> Pcs]
  /\ at \in [Lookups -> Lookups \cup {None}]
  /\ buffer \in [Lookups -> Seq(Bytes)]
  /\ readSize \in [Lookups -> Nat]
  /\ position \in [Lookups -> Nat]
  /\ len \in [Lookups -> Nat]
  /\ answer \in [Lookups -> Seq(Bytes)]
  /\ closes \in 0..MaxCloses

Init ==
  /\ socketChannel = None
  /\ link = [c \in Lookups |-> "none"]
  /\ peer = [c \in Lookups |-> "up"]
  /\ pending = [c \in Lookups |-> {}]
  /\ stream = [c \in Lookups |-> <<>>]
  /\ pc = [l \in Lookups |-> "idle"]
  /\ at = [l \in Lookups |-> None]
  /\ buffer = [l \in Lookups |-> <<>>]
  /\ readSize = [l \in Lookups |-> 0]
  /\ position = [l \in Lookups |-> 0]
  /\ len = [l \in Lookups |-> 0]
  /\ answer = [l \in Lookups |-> <<>>]
  /\ closes = 0

Goto(l, place) == pc' = [pc EXCEPT ![l] = place]

\* lookup returns or throws: its local variables are gone.
Leave(l, place) ==
  /\ Goto(l, place)
  /\ buffer' = [buffer EXCEPT ![l] = <<>>]
  /\ readSize' = [readSize EXCEPT ![l] = 0]
  /\ position' = [position EXCEPT ![l] = 0]
  /\ len' = [len EXCEPT ![l] = 0]

(***************************************************************************)
(* Opening the connection.  The JDK closes a channel whose connect failed; *)
(* connect on a connected channel throws AlreadyConnectedException.        *)
(***************************************************************************)
\* Mutant: the state of the connection is asked of the server.
isOpenAtBothEnds ==
  /\ socketChannel # None
  /\ link[socketChannel] = "connected" /\ peer[socketChannel] = "up"

isOpenTCPConnection ==
  /\ socketChannel # None
  /\ link[socketChannel] = "connected"

\* lookup begins: it tests the shared field.
Start(l) ==
  /\ pc[l] = "idle"
  /\ Goto(l, IF isOpenTCPConnection THEN "write" ELSE "open")
  /\ UNCHANGED <<conn, at, local, answer>>

\* socketChannel = SocketChannel.open(): whatever was in the field is lost.
Open(l) ==
  /\ pc[l] = "open"
  /\ socketChannel' = l
  /\ link' = [link EXCEPT ![l] = "unconnected"]
  /\ Goto(l, "connect")
  /\ UNCHANGED <<peer, pending, stream, closes, at, local, answer>>

\* socketChannel.connect(): the field is read again, and may be another's channel.
Connect(l) ==
  /\ pc[l] = "connect"
  /\ \/ /\ link[socketChannel] = "unconnected"
        /\ \/ /\ link' = [link EXCEPT ![socketChannel] = "connected"]
              /\ Goto(l, "write")
           \/ /\ link' = [link EXCEPT ![socketChannel] = "closed"]
              /\ Goto(l, "failed")
     \/ /\ link[socketChannel] \in {"connected", "closed"}
        /\ Goto(l, "failed")
        /\ UNCHANGED link
  /\ UNCHANGED <<socketChannel, peer, pending, stream, closes, at, local, answer>>

(***************************************************************************)
(* Sending.  The first write after the upstream server went away may still *)
(* succeed; the query is lost then.                                        *)
(***************************************************************************)
Write(l) ==
  /\ pc[l] = "write"
  /\ \/ /\ link[socketChannel] = "connected"
        /\ pending' = IF peer[socketChannel] = "up"
                        THEN [pending EXCEPT ![socketChannel] = @ \cup {l}]
                        ELSE pending
        /\ Goto(l, "first")
     \/ /\ link[socketChannel] # "connected" \/ peer[socketChannel] = "gone"
        /\ Goto(l, "failed")
        /\ UNCHANGED pending
  /\ UNCHANGED <<socketChannel, link, peer, stream, closes, at, local, answer>>

(***************************************************************************)
(* Receiving.  Every read of the code reads the field, then blocks in the  *)
(* channel it found until bytes come or the connection ends.               *)
(***************************************************************************)
\* Mutant: the loop goes on until one byte more has come.
ReceivedOneMore(l) == readSize[l] > len[l] + HeaderLen

\* The loop condition, negated.
Received(l) == readSize[l] >= len[l] + HeaderLen

BeginRead(l) ==
  /\ pc[l] \in {"first", "rest"}
  /\ at[l] = None
  /\ pc[l] = "rest" => ~Received(l)
  /\ IF link[socketChannel] = "connected"
       THEN at' = [at EXCEPT ![l] = socketChannel] /\ UNCHANGED <<pc, local>>
       ELSE Leave(l, "failed") /\ UNCHANGED at
  /\ UNCHANGED <<conn, answer>>

\* A read takes the first n bytes of those that have come.
Take(l, n) ==
  stream' = [stream EXCEPT ![at[l]] = SubSeq(@, n + 1, Len(@))]

\* Mutant: the length field is read as a signed short.
SignedLengthField(bytes) ==
  IF \E q \in Lookups : SubSeq(bytes, 1, HeaderLen) = SubSeq(Frame(q), 1, HeaderLen)
    THEN {BodyLen - 65536}
    ELSE 0..MaxLen

\* The length field: what comes first may be no length field at all.
LengthField(bytes) ==
  IF \E q \in Lookups : SubSeq(bytes, 1, HeaderLen) = SubSeq(Frame(q), 1, HeaderLen)
    THEN {BodyLen}
    ELSE 0..MaxLen

\* Buffer b after its bytes behind from were overwritten with the first n of s.
Overwritten(b, s, from, n) ==
  [i \in DOMAIN b |-> IF i \in from + 1 .. from + n THEN s[i - from] ELSE b[i]]

\* Mutant: the buffers of all lookups wrap one array.
ReadFirstShared(l, n) ==
  /\ pc[l] = "first"
  /\ at[l] # None
  /\ Take(l, n)
  /\ at' = [at EXCEPT ![l] = None]
  /\ IF n < HeaderLen
       THEN Goto(l, "failed") /\ UNCHANGED local
       ELSE LET got == SubSeq(stream[at[l]], 1, n)
            IN  /\ \E field \in LengthField(got) : len' = [len EXCEPT ![l] = field]
                /\ buffer' = [m \in Lookups |->
                      IF m = l THEN got ELSE Overwritten(buffer[m], got, 0, n)]
                /\ readSize' = [readSize EXCEPT ![l] = n]
                /\ position' = [position EXCEPT ![l] = HeaderLen]
                /\ Goto(l, "rest")
  /\ UNCHANGED <<socketChannel, link, peer, pending, closes, answer>>

\* The buffer is read into, flipped, and the length field is got from it.
ReadFirst(l, n) ==
  /\ pc[l] = "first"
  /\ at[l] # None
  /\ Take(l, n)
  /\ at' = [at EXCEPT ![l] = None]
  /\ IF n < HeaderLen
       THEN Goto(l, "failed") /\ UNCHANGED local
       ELSE LET got == SubSeq(stream[at[l]], 1, n)
            IN  /\ \E field \in LengthField(got) : len' = [len EXCEPT ![l] = field]
                /\ buffer' = [buffer EXCEPT ![l] = got]
                /\ readSize' = [readSize EXCEPT ![l] = n]
                /\ position' = [position EXCEPT ![l] = HeaderLen]
                /\ Goto(l, "rest")
  /\ UNCHANGED <<socketChannel, link, peer, pending, closes, answer>>

\* A turn of the loop that is to get the rest of the message.  The buffer has
\* been flipped: what it may still take ends at the limit, and when that is
\* reached read returns 0 at once, turn after turn.
ReadRest(l, n) ==
  /\ pc[l] = "rest"
  /\ at[l] # None
  /\ n <= Len(buffer[l]) - position[l]
  /\ Take(l, n)
  /\ buffer' = [buffer EXCEPT ![l] = Overwritten(@, stream[at[l]], position[l], n)]
  /\ position' = [position EXCEPT ![l] = @ + n]
  /\ readSize' = [readSize EXCEPT ![l] = @ + n]
  /\ at' = [at EXCEPT ![l] = None]
  /\ UNCHANGED <<socketChannel, link, peer, pending, closes, pc, len, answer>>

\* A turn in which the buffer has no room left.
ReadNothing(l) ==
  /\ pc[l] = "rest"
  /\ at[l] # None
  /\ Len(buffer[l]) = position[l]
  /\ at' = [at EXCEPT ![l] = None]
  /\ UNCHANGED <<conn, pc, local, answer>>

\* At the end of the stream read returns -1: at first the length field is
\* missing; in the loop it is added to readSize, turn after turn.  Here readSize
\* stops at 0 where the code goes below: the loop goes on either way.  A
\* connection that was reset fails the read.
ReadEnd(l) ==
  /\ pc[l] \in {"first", "rest"}
  /\ at[l] # None
  /\ stream[at[l]] = <<>> /\ peer[at[l]] = "gone"
  /\ pc[l] = "rest" => Len(buffer[l]) > position[l]
  /\ at' = [at EXCEPT ![l] = None]
  /\ \/ Leave(l, "failed")
     \/ /\ pc[l] = "rest"
        /\ readSize' = [readSize EXCEPT ![l] = IF @ > 0 THEN @ - 1 ELSE 0]
        /\ UNCHANGED <<pc, buffer, position, len>>
  /\ UNCHANGED <<conn, answer>>

\* Mutant: the message is got from the first byte of the buffer.
MessageFromStart(l) == SubSeq(buffer[l], 1, len[l])

Message(l) == SubSeq(buffer[l], position[l] + 1, position[l] + len[l])

\* Mutant: the buffer is not asked whether it still has len bytes.
ReturnWhatIsThere(l) ==
  /\ pc[l] = "rest"
  /\ Received(l)
  /\ answer' = [answer EXCEPT ![l] = SubSeq(buffer[l], position[l] + 1, Len(buffer[l]))]
  /\ Leave(l, "answered")
  /\ UNCHANGED <<conn, at>>

\* receiveBuffer.get(message): it fails unless the buffer still has len bytes.
Return(l) ==
  /\ pc[l] = "rest"
  /\ Received(l)
  /\ IF Len(buffer[l]) - position[l] >= len[l]
       THEN answer' = [answer EXCEPT ![l] = Message(l)] /\ Leave(l, "answered")
       ELSE Leave(l, "failed") /\ UNCHANGED answer
  /\ UNCHANGED <<conn, at>>

(***************************************************************************)
(* The upstream server answers the queries of a connection in any order    *)
(* and may end the connection, an idle one or not.                         *)
(***************************************************************************)
Reply(c, q) ==
  /\ q \in pending[c]
  /\ pending' = [pending EXCEPT ![c] = @ \ {q}]
  /\ stream' = [stream EXCEPT ![c] = @ \o Frame(q)]
  /\ UNCHANGED <<socketChannel, link, peer, closes, pc, at, local, answer>>

PeerCloses(c) ==
  /\ closes < MaxCloses
  /\ link[c] = "connected" /\ peer[c] = "up"
  /\ peer' = [peer EXCEPT ![c] = "gone"]
  /\ pending' = [pending EXCEPT ![c] = {}]
  /\ closes' = closes + 1
  /\ UNCHANGED <<socketChannel, link, stream, pc, at, local, answer>>

-----------------------------------------------------------------------------
Step(l) ==
  \/ Open(l) \/ Connect(l) \/ Write(l)
  \/ BeginRead(l) \/ ReadNothing(l) \/ ReadEnd(l) \/ Return(l)
  \/ /\ at[l] # None
     /\ \E n \in 1..Len(stream[at[l]]) : ReadFirst(l, n) \/ ReadRest(l, n)

Next ==
  \E l \in Lookups :
    \/ Start(l) \/ Step(l)
    \/ PeerCloses(l)
    \/ \E q \in Lookups : Reply(l, q)

Spec == Init /\ [][Next]_vars

(***************************************************************************)
(* The threads of the clients are scheduled, and upstream answers the      *)
(* queries it got; it need not keep its connections, nor be asked at all.  *)
(***************************************************************************)
FairSpec ==
  /\ Spec
  /\ \A l \in Lookups : WF_vars(Step(l))
  /\ \A c, q \in Lookups : WF_vars(Reply(c, q))

-----------------------------------------------------------------------------
(***************************************************************************)
(* Properties.                                                             *)
(***************************************************************************)
InUse(l) == pc[l] \notin {"idle"} \cup Done

\* The transporter is used by one lookup at a time.
OneAtATime == \A l, m \in Lookups : InUse(l) /\ InUse(m) => l = m

\* lookup: while it is used by one lookup at a time and none has failed, every
\* lookup that returns gets the reply to its own query.  Either condition is
\* needed: a failed lookup leaves bytes behind, a second one reads them.
SequentialAnswersAreOwn ==
  []OneAtATime =>
    [](\/ \A l \in Lookups : pc[l] = "answered" => answer[l] = Body(l)
       \/ \E l \in Lookups : pc[l] = "failed")

\* lookup: no reply is returned to two lookups, however they interleave.
EachReplyOnce ==
  \A l, m \in Lookups :
    pc[l] = "answered" /\ pc[m] = "answered" /\ l # m =>
      \A i \in DOMAIN answer[l], j \in DOMAIN answer[m] : answer[l][i] # answer[m][j]

\* A turn of the receiving loop is still to come.
Short(l) == pc[l] = "rest" /\ readSize[l] < len[l] + HeaderLen

\* lookup: a reply whose first read was short is never returned, although the
\* loop of the code is there to receive the rest of it.
ShortReplyIsNotReturned ==
  [][\A l \in Lookups :
       pc[l] = "rest" /\ (position[l] > HeaderLen \/ Short(l))
         => pc'[l] # "answered"]_vars

\* lookup: when lookups use the transporter one after another and each reply
\* comes in one piece, each of them returns or throws.
LookupEnds ==
  /\ []OneAtATime
  /\ [](\A l \in Lookups : ~Short(l))
  => \A l \in Lookups : InUse(l) ~> pc[l] \in Done

\* Upstream has ended the connection in the field and nobody is about to open one.
Lost ==
  /\ socketChannel # None /\ peer[socketChannel] = "gone"
  /\ \A l \in Lookups : pc[l] \notin {"open", "connect"}

\* isOpenTCPConnection: a connection the server ended is never opened again: no
\* lookup that begins later gets the reply to its query, for good.
LostIsNeverHealed ==
  \A l \in Lookups :
    [](Lost /\ pc[l] = "idle" => [](pc[l] = "answered" => answer[l] # Body(l)))

\* The comment in lookup says that the first two bytes of what is received are
\* the length of the message; here, that this is so whenever they are taken.
LengthFieldFirst ==
  \A l \in Lookups : pc[l] = "rest" =>
    \E q \in Lookups : SubSeq(buffer[l], 1, HeaderLen) = SubSeq(Frame(q), 1, HeaderLen)
=============================================================================
