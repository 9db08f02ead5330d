------------------------- MODULE TcpTransport_proofs -------------------------
(***************************************************************************)
(* Theorems about the TCP transporter, for any number of lookups and every *)
(* length of message.                                                      *)
(***************************************************************************)
EXTENDS TcpTransport, SequenceTheorems, TLAPS

USE LengthsAssumption, ClosesAssumption, NoneAssumption DEF HeaderLen

-----------------------------------------------------------------------------
(* Operators of the model.                                                 *)

LEMMA FrameType == \A q \in Lookups : Frame(q) \in Seq(Bytes)
<1> SUFFICES ASSUME NEW q \in Lookups PROVE Frame(q) \in Seq(Bytes)
  OBVIOUS
<1>1. HeaderLen + BodyLen \in Nat
  OBVIOUS
<1>2. Frame(q) \in [1..(HeaderLen + BodyLen) -> Bytes]
  BY DEF Frame, Bytes
<1> QED
  BY <1>1, <1>2

\* A part of a sequence that lies within it.
LEMMA PartOfSeq ==
  ASSUME NEW S, NEW s \in Seq(S), NEW i \in Nat, NEW j \in Nat, i >= 1, j <= Len(s)
  PROVE  /\ SubSeq(s, i, j) \in Seq(S)
         /\ i <= j + 1 => Len(SubSeq(s, i, j)) = j - i + 1
<1>1. \A k \in i..j : s[k] \in S
  BY LenProperties
<1> QED
  BY <1>1, SubSeqProperties

LEMMA LengthFieldType == ASSUME NEW s PROVE LengthField(s) \subseteq Nat
BY DEF LengthField

\* The bytes of a read that remain in the stream.
LEMMA TakeType ==
  ASSUME TypeOK, NEW l \in Lookups, at[l] # None,
         NEW n \in 1..Len(stream[at[l]]), Take(l, n)
  PROVE  stream' \in [Lookups -> Seq(Bytes)]
<1>1. at[l] \in Lookups /\ stream[at[l]] \in Seq(Bytes)
  BY DEF TypeOK
<1>2. SubSeq(stream[at[l]], n + 1, Len(stream[at[l]])) \in Seq(Bytes)
  BY <1>1, PartOfSeq, LenProperties
<1> QED
  BY <1>1, <1>2 DEF Take, TypeOK

-----------------------------------------------------------------------------
(* The receiving loop.                                                     *)

\* A lookup that goes on reading has had a first read, whose size is the limit
\* of the buffer, of less than the length field and the message.
LoopOK(l) ==
  pc[l] = "rest" =>
    /\ readSize[l] = Len(buffer[l]) \/ Len(buffer[l]) < len[l] + HeaderLen
    /\ at[l] # None => Len(buffer[l]) < len[l] + HeaderLen
    /\ position[l] > HeaderLen => Len(buffer[l]) < len[l] + HeaderLen

LoopInv == TypeOK /\ \A l \in Lookups : LoopOK(l)

LEMMA LoopInit == Init => LoopInv
<1> SUFFICES ASSUME Init PROVE LoopInv
  OBVIOUS
<1>1. <<>> \in Seq(Bytes)
  BY EmptySeq
<1>2. TypeOK
  BY <1>1 DEF Init, TypeOK, Links, Pcs
<1> QED
  BY <1>2 DEF Init, LoopInv, LoopOK

\* A lookup nothing happens to stays as it is.
LEMMA LoopFrame ==
  ASSUME NEW l \in Lookups, LoopOK(l), pc'[l] = pc[l], at'[l] = at[l],
         buffer'[l] = buffer[l], readSize'[l] = readSize[l],
         position'[l] = position[l], len'[l] = len[l]
  PROVE  LoopOK(l)'
BY DEF LoopOK

\* A step that leaves the local variables alone and does not enter the loop.
LEMMA LoopUnmoved ==
  ASSUME \A l \in Lookups : LoopOK(l),
         \A l \in Lookups : pc'[l] = "rest" => pc[l] = "rest",
         UNCHANGED <<at, local>>
  PROVE  \A l \in Lookups : LoopOK(l)'
BY DEF LoopOK, local

\* Leaving lookup.
LEMMA LeaveType ==
  ASSUME TypeOK, NEW l \in Lookups, NEW place \in Done, Leave(l, place)
  PROVE  /\ pc' \in [Lookups -> Pcs]
         /\ buffer' \in [Lookups -> Seq(Bytes)]
         /\ readSize' \in [Lookups -> Nat]
         /\ position' \in [Lookups -> Nat]
         /\ len' \in [Lookups -> Nat]
         /\ pc'[l] = place
         /\ \A m \in Lookups \ {l} :
              /\ pc'[m] = pc[m] /\ buffer'[m] = buffer[m] /\ len'[m] = len[m]
              /\ readSize'[m] = readSize[m] /\ position'[m] = position[m]
<1>1. <<>> \in Seq(Bytes)
  BY EmptySeq
<1> QED
  BY <1>1 DEF Leave, Goto, TypeOK, Pcs

\* A lookup that leaves is not in the loop; at may only change for itself.
LEMMA LeaveLoop ==
  ASSUME LoopInv, NEW l \in Lookups, NEW place \in Done, Leave(l, place),
         \A m \in Lookups \ {l} : at'[m] = at[m]
  PROVE  \A m \in Lookups : LoopOK(m)'
<1>1. place # "rest"
  BY DEF Done
<1> SUFFICES ASSUME NEW m \in Lookups PROVE LoopOK(m)'
  OBVIOUS
<1>2. CASE m = l
  BY <1>1, <1>2, LeaveType DEF LoopOK, LoopInv
<1>3. CASE m # l
  BY <1>3, LeaveType, LoopFrame DEF LoopInv
<1> QED
  BY <1>2, <1>3

-----------------------------------------------------------------------------
(* One lemma per action.                                                   *)

\* The steps before the first read, and those of the upstream server.
LEMMA ConnectionSteps ==
  ASSUME LoopInv, NEW l \in Lookups, NEW q \in Lookups,
         \/ Start(l) \/ Open(l) \/ Connect(l) \/ Write(l)
         \/ Reply(l, q) \/ PeerCloses(l)
  PROVE  LoopInv'
<1>1. CASE Start(l)
  BY <1>1, LoopUnmoved DEF LoopInv, TypeOK, Start, Goto, conn, local, Pcs
<1>2. CASE Open(l)
  BY <1>2, LoopUnmoved DEF LoopInv, TypeOK, Open, Goto, local, Pcs, Links
<1>3. CASE Connect(l)
  <2>1. PICK place \in {"write", "failed"} : pc' = [pc EXCEPT ![l] = place]
    BY <1>3 DEF Connect, Goto
  <2>2. \/ UNCHANGED link
        \/ link' = [link EXCEPT ![socketChannel] = "connected"]
        \/ link' = [link EXCEPT ![socketChannel] = "closed"]
    BY <1>3 DEF Connect
  <2>3. UNCHANGED <<socketChannel, peer, pending, stream, closes, at, local, answer>>
    BY <1>3 DEF Connect
  <2>4. link' \in [Lookups -> Links]
    BY <2>2 DEF LoopInv, TypeOK, Links
  <2>5. TypeOK'
    BY <2>1, <2>3, <2>4 DEF LoopInv, TypeOK, local, Pcs, Done
  <2>6. \A m \in Lookups : pc'[m] = "rest" => pc[m] = "rest"
    BY <2>1 DEF LoopInv, TypeOK
  <2> QED
    BY <2>3, <2>5, <2>6, LoopUnmoved DEF LoopInv
<1>4. CASE Write(l)
  <2>1. pending' \in [Lookups -> SUBSET Lookups]
    <3>1. \/ pending' = [pending EXCEPT ![socketChannel] = @ \cup {l}]
          \/ UNCHANGED pending
      BY <1>4 DEF Write
    <3>2. pending \in [Lookups -> SUBSET Lookups]
      BY DEF LoopInv, TypeOK
    <3> QED
      BY <3>1, <3>2
  <2>2. PICK place \in {"first", "failed"} : pc' = [pc EXCEPT ![l] = place]
    BY <1>4 DEF Write, Goto
  <2>3. UNCHANGED <<socketChannel, link, peer, stream, closes, at, local, answer>>
    BY <1>4 DEF Write
  <2>4. TypeOK'
    BY <2>1, <2>2, <2>3 DEF LoopInv, TypeOK, local, Pcs, Done
  <2>5. \A m \in Lookups : pc'[m] = "rest" => pc[m] = "rest"
    BY <2>2 DEF LoopInv, TypeOK
  <2> QED
    BY <2>3, <2>4, <2>5, LoopUnmoved DEF LoopInv
<1>5. CASE Reply(l, q)
  <2>1. stream[l] \o Frame(q) \in Seq(Bytes)
    BY FrameType, ConcatProperties DEF LoopInv, TypeOK
  <2>2. stream' \in [Lookups -> Seq(Bytes)]
    BY <1>5, <2>1 DEF LoopInv, TypeOK, Reply
  <2> QED
    <3>1. /\ pending' = [pending EXCEPT ![l] = @ \ {q}]
          /\ UNCHANGED <<socketChannel, link, peer, closes, pc, at, local, answer>>
      BY <1>5 DEF Reply
    <3>2. pending' \in [Lookups -> SUBSET Lookups]
      BY <3>1 DEF LoopInv, TypeOK
    <3>3. TypeOK'
      BY <2>2, <3>1, <3>2 DEF LoopInv, TypeOK, local
    <3> QED
      BY <3>1, <3>3, LoopUnmoved DEF LoopInv
<1>6. CASE PeerCloses(l)
  <2>1. /\ peer' = [peer EXCEPT ![l] = "gone"]
        /\ pending' = [pending EXCEPT ![l] = {}]
        /\ closes < MaxCloses /\ closes' = closes + 1
        /\ UNCHANGED <<socketChannel, link, stream, pc, at, local, answer>>
    BY <1>6 DEF PeerCloses
  <2>2. peer' \in [Lookups -> {"up", "gone"}] /\ pending' \in [Lookups -> SUBSET Lookups]
    BY <2>1 DEF LoopInv, TypeOK
  <2>3. closes' \in 0..MaxCloses
    BY <2>1 DEF LoopInv, TypeOK
  <2>4. TypeOK'
    BY <2>1, <2>2, <2>3 DEF LoopInv, TypeOK, local
  <2> QED
    BY <2>1, <2>4, LoopUnmoved DEF LoopInv
<1> QED
  BY <1>1, <1>2, <1>3, <1>4, <1>5, <1>6

LEMMA BeginReadStep ==
  ASSUME LoopInv, NEW l \in Lookups, BeginRead(l)
  PROVE  LoopInv'
<1>1. CASE link[socketChannel] = "connected"
  <2>1. TypeOK'
    BY <1>1 DEF BeginRead, LoopInv, TypeOK, conn, local
  <2>2. LoopOK(l)'
    BY <1>1 DEF BeginRead, Received, LoopInv, LoopOK, TypeOK, local
  <2>3. ASSUME NEW m \in Lookups \ {l} PROVE LoopOK(m)'
    BY <1>1, LoopFrame DEF BeginRead, LoopInv, TypeOK, local
  <2> QED
    BY <2>1, <2>2, <2>3 DEF LoopInv
<1>2. CASE link[socketChannel] # "connected"
  <2>1. Leave(l, "failed") /\ UNCHANGED <<at, conn, answer>>
    BY <1>2 DEF BeginRead
  <2> QED
    BY <2>1, LeaveType, LeaveLoop DEF LoopInv, TypeOK, conn, Done
<1> QED
  BY <1>1, <1>2

LEMMA ReadFirstStep ==
  ASSUME LoopInv, NEW l \in Lookups, at[l] # None,
         NEW n \in 1..Len(stream[at[l]]), ReadFirst(l, n)
  PROVE  LoopInv'
<1> DEFINE got == SubSeq(stream[at[l]], 1, n)
<1>1. stream' \in [Lookups -> Seq(Bytes)]
  BY TakeType DEF ReadFirst, LoopInv
<1>2. at' = [at EXCEPT ![l] = None]
  BY DEF ReadFirst
<1>3. CASE n < HeaderLen
  <2>1. Goto(l, "failed") /\ UNCHANGED local
    BY <1>3 DEF ReadFirst
  <2>2. TypeOK'
    BY <1>1, <1>2, <2>1 DEF ReadFirst, LoopInv, TypeOK, local, Goto, Pcs, Done
  <2>3. \A m \in Lookups : LoopOK(m)'
    BY <1>2, <2>1 DEF LoopInv, TypeOK, LoopOK, local, Goto
  <2> QED
    BY <2>2, <2>3 DEF LoopInv
<1>4. CASE ~(n < HeaderLen)
  <2>1. got \in Seq(Bytes) /\ Len(got) = n
    <3>1. stream[at[l]] \in Seq(Bytes)
      BY DEF LoopInv, TypeOK
    <3> QED
      BY <3>1, PartOfSeq, LenProperties
  <2>2. PICK field \in LengthField(got) : len' = [len EXCEPT ![l] = field]
    BY <1>4 DEF ReadFirst
  <2>3. field \in Nat
    BY LengthFieldType
  <2>4. /\ buffer' = [buffer EXCEPT ![l] = got]
        /\ readSize' = [readSize EXCEPT ![l] = n]
        /\ position' = [position EXCEPT ![l] = HeaderLen]
        /\ pc' = [pc EXCEPT ![l] = "rest"]
    BY <1>4 DEF ReadFirst, Goto
  <2> HIDE DEF got
  <2>5. n \in Nat
    BY LenProperties DEF LoopInv, TypeOK
  <2>6. TypeOK'
    BY <1>1, <1>2, <2>1, <2>2, <2>3, <2>4, <2>5 DEF ReadFirst, LoopInv, TypeOK, Pcs
  <2>7. LoopOK(l)'
    BY <1>2, <2>1, <2>4 DEF LoopInv, TypeOK, LoopOK
  <2>8. ASSUME NEW m \in Lookups \ {l} PROVE LoopOK(m)'
    BY <1>2, <2>2, <2>4, LoopFrame DEF LoopInv, TypeOK
  <2> QED
    BY <2>6, <2>7, <2>8 DEF LoopInv
<1> QED
  BY <1>3, <1>4

\* The buffer stays a sequence of as many bytes.
LEMMA OverwrittenType ==
  ASSUME NEW b \in Seq(Bytes), NEW s \in Seq(Bytes), NEW from \in Nat,
         NEW n \in 1..Len(s)
  PROVE  /\ Overwritten(b, s, from, n) \in Seq(Bytes)
         /\ Len(Overwritten(b, s, from, n)) = Len(b)
<1> DEFINE c == Overwritten(b, s, from, n)
<1> USE DEF Overwritten
<1>1. Len(b) \in Nat /\ DOMAIN b = 1..Len(b) /\ Len(s) \in Nat
  BY LenProperties
<1>2. \A i \in DOMAIN b : c[i] \in Bytes
  <2> TAKE i \in DOMAIN b
  <2>1. CASE i \in from + 1 .. from + n
    <3>1. i - from \in 1..Len(s)
      BY <2>1, <1>1
    <3> QED
      BY <2>1, <3>1, ElementOfSeq
  <2>2. CASE i \notin from + 1 .. from + n
    BY <2>2, <1>1, ElementOfSeq
  <2> QED
    BY <2>1, <2>2
<1>3. c \in [1..Len(b) -> Bytes]
  BY <1>1, <1>2
<1>4. c \in Seq(Bytes)
  BY <1>1, <1>3
<1> QED
  BY <1>1, <1>4, LenProperties

LEMMA ReadRestStep ==
  ASSUME LoopInv, NEW l \in Lookups, at[l] # None,
         NEW n \in 1..Len(stream[at[l]]), ReadRest(l, n)
  PROVE  LoopInv'
<1> DEFINE c == Overwritten(buffer[l], stream[at[l]], position[l], n)
<1>1. /\ buffer[l] \in Seq(Bytes) /\ stream[at[l]] \in Seq(Bytes)
      /\ position[l] \in Nat /\ readSize[l] \in Nat /\ len[l] \in Nat
  BY DEF LoopInv, TypeOK
<1>2. c \in Seq(Bytes) /\ Len(c) = Len(buffer[l])
  BY <1>1, OverwrittenType
<1>3. buffer' = [buffer EXCEPT ![l] = c]
  BY DEF ReadRest
<1> HIDE DEF c
<1>4. /\ pc[l] = "rest"
      /\ position' = [position EXCEPT ![l] = @ + n]
      /\ readSize' = [readSize EXCEPT ![l] = @ + n]
      /\ at' = [at EXCEPT ![l] = None]
      /\ UNCHANGED <<socketChannel, link, peer, pending, closes, pc, len, answer>>
  BY DEF ReadRest
<1>5. stream' \in [Lookups -> Seq(Bytes)]
  BY TakeType DEF ReadRest, LoopInv
<1>6. n \in Nat
  BY <1>1, LenProperties
<1>7. TypeOK'
  <2>1. buffer' \in [Lookups -> Seq(Bytes)]
    BY <1>2, <1>3 DEF LoopInv, TypeOK
  <2>2. position' \in [Lookups -> Nat] /\ readSize' \in [Lookups -> Nat]
    <3>1. position[l] + n \in Nat /\ readSize[l] + n \in Nat
      BY <1>1, <1>6
    <3> QED
      BY <1>4, <3>1 DEF LoopInv, TypeOK
  <2>3. at' \in [Lookups -> Lookups \cup {None}]
    BY <1>4 DEF LoopInv, TypeOK
  <2> QED
    BY <1>4, <1>5, <2>1, <2>2, <2>3 DEF LoopInv, TypeOK
<1>8. LoopOK(l)'
  BY <1>1, <1>2, <1>3, <1>4 DEF LoopInv, TypeOK, LoopOK
<1>9. ASSUME NEW m \in Lookups \ {l} PROVE LoopOK(m)'
  BY <1>3, <1>4, LoopFrame DEF LoopInv, TypeOK
<1> QED
  BY <1>7, <1>8, <1>9 DEF LoopInv

LEMMA ReadNothingStep ==
  ASSUME LoopInv, NEW l \in Lookups, ReadNothing(l)
  PROVE  LoopInv'
<1>1. at' = [at EXCEPT ![l] = None] /\ UNCHANGED <<conn, pc, local, answer>>
  BY DEF ReadNothing
<1>2. TypeOK'
  BY <1>1 DEF LoopInv, TypeOK, conn, local
<1>3. \A m \in Lookups : LoopOK(m)'
  BY <1>1 DEF LoopInv, TypeOK, LoopOK, local
<1> QED
  BY <1>2, <1>3 DEF LoopInv

LEMMA ReadEndStep ==
  ASSUME LoopInv, NEW l \in Lookups, ReadEnd(l)
  PROVE  LoopInv'
<1>1. /\ at[l] # None /\ at' = [at EXCEPT ![l] = None]
      /\ UNCHANGED <<conn, answer>>
  BY DEF ReadEnd
<1>2. CASE Leave(l, "failed")
  <2>1. "failed" \in Done
    BY DEF Done
  <2>2. /\ pc' \in [Lookups -> Pcs] /\ buffer' \in [Lookups -> Seq(Bytes)]
        /\ readSize' \in [Lookups -> Nat] /\ position' \in [Lookups -> Nat]
        /\ len' \in [Lookups -> Nat]
    BY <1>2, <2>1, LeaveType DEF LoopInv
  <2>3. TypeOK'
    BY <1>1, <2>2 DEF LoopInv, TypeOK, conn
  <2>4. \A m \in Lookups \ {l} : at'[m] = at[m]
    BY <1>1 DEF LoopInv, TypeOK
  <2> QED
    BY <1>2, <2>1, <2>3, <2>4, LeaveLoop DEF LoopInv
<1>3. CASE /\ pc[l] = "rest"
           /\ readSize' = [readSize EXCEPT ![l] = IF @ > 0 THEN @ - 1 ELSE 0]
           /\ UNCHANGED <<pc, buffer, position, len>>
  <2>1. readSize' \in [Lookups -> Nat]
    <3>1. (IF readSize[l] > 0 THEN readSize[l] - 1 ELSE 0) \in Nat
      BY DEF LoopInv, TypeOK
    <3> QED
      BY <1>3, <3>1 DEF LoopInv, TypeOK
  <2>2. TypeOK'
    BY <1>1, <1>3, <2>1 DEF LoopInv, TypeOK, conn
  <2>3. LoopOK(l)'
    BY <1>1, <1>3 DEF LoopInv, TypeOK, LoopOK
  <2>4. ASSUME NEW m \in Lookups \ {l} PROVE LoopOK(m)'
    BY <1>1, <1>3, LoopFrame DEF LoopInv, TypeOK
  <2> QED
    BY <2>2, <2>3, <2>4 DEF LoopInv
<1>4. Leave(l, "failed") \/
      /\ pc[l] = "rest"
      /\ readSize' = [readSize EXCEPT ![l] = IF @ > 0 THEN @ - 1 ELSE 0]
      /\ UNCHANGED <<pc, buffer, position, len>>
  BY DEF ReadEnd
<1> QED
  BY <1>2, <1>3, <1>4

LEMMA ReturnStep ==
  ASSUME LoopInv, NEW l \in Lookups, Return(l)
  PROVE  LoopInv'
<1>1. UNCHANGED <<conn, at>>
  BY DEF Return
<1>2. CASE /\ Len(buffer[l]) - position[l] >= len[l]
           /\ answer' = [answer EXCEPT ![l] = Message(l)]
           /\ Leave(l, "answered")
  <2>1. Message(l) \in Seq(Bytes)
    <3>1. /\ buffer[l] \in Seq(Bytes) /\ position[l] \in Nat /\ len[l] \in Nat
          /\ Len(buffer[l]) \in Nat
      BY LenProperties DEF LoopInv, TypeOK
    <3> QED
      BY <1>2, <3>1, PartOfSeq DEF Message
  <2>2. answer' \in [Lookups -> Seq(Bytes)]
    BY <1>2, <2>1 DEF LoopInv, TypeOK
  <2> QED
    BY <1>1, <1>2, <2>2, LeaveType, LeaveLoop DEF LoopInv, TypeOK, conn, Done
<1>3. CASE Leave(l, "failed") /\ UNCHANGED answer
  BY <1>1, <1>3, LeaveType, LeaveLoop DEF LoopInv, TypeOK, conn, Done
<1> QED
  BY <1>2, <1>3 DEF Return

LEMMA LoopStep == LoopInv /\ [Next]_vars => LoopInv'
<1> SUFFICES ASSUME LoopInv, [Next]_vars PROVE LoopInv'
  OBVIOUS
<1>1. CASE UNCHANGED vars
  BY <1>1, LoopUnmoved DEF LoopInv, TypeOK, vars, local
<1>2. ASSUME NEW l \in Lookups, Start(l) \/ PeerCloses(l) PROVE LoopInv'
  BY <1>2, ConnectionSteps
<1>3. ASSUME NEW c \in Lookups, NEW q \in Lookups, Reply(c, q) PROVE LoopInv'
  BY <1>3, ConnectionSteps
<1>4. ASSUME NEW l \in Lookups, Step(l) PROVE LoopInv'
  BY <1>4, ConnectionSteps, BeginReadStep, ReadFirstStep, ReadRestStep,
     ReadNothingStep, ReadEndStep, ReturnStep DEF Step
<1> QED
  BY <1>1, <1>2, <1>3, <1>4 DEF Next

-----------------------------------------------------------------------------
(* The theorems.                                                           *)

LEMMA LoopAlways == Spec => []LoopInv
BY LoopInit, LoopStep, PTL DEF Spec

\* Every variable has its type in every reachable state.
THEOREM TypeCorrect == Spec => []TypeOK
<1>1. LoopInv => TypeOK
  BY DEF LoopInv
<1> QED
  BY <1>1, LoopAlways, PTL

\* Only Return returns a reply.
LEMMA OnlyReturnAnswers ==
  ASSUME LoopInv, [Next]_vars, NEW l \in Lookups, pc[l] = "rest", pc'[l] = "answered"
  PROVE  Return(l)
<1>1. CASE UNCHANGED vars
  BY <1>1 DEF vars
<1>2. ASSUME NEW m \in Lookups, Start(m) \/ PeerCloses(m) PROVE Return(l)
  BY <1>2 DEF LoopInv, TypeOK, Start, PeerCloses, Goto
<1>3. ASSUME NEW c \in Lookups, NEW q \in Lookups, Reply(c, q) PROVE Return(l)
  BY <1>3 DEF Reply
<1>4. ASSUME NEW m \in Lookups, Step(m) PROVE Return(l)
  <2>1. CASE Open(m) \/ Connect(m) \/ Write(m)
    <3>1. \E place \in {"connect", "write", "first", "failed"} :
             pc' = [pc EXCEPT ![m] = place]
      BY <2>1 DEF Open, Connect, Write, Goto
    <3> QED
      BY <3>1 DEF LoopInv, TypeOK
  <2>2. CASE BeginRead(m) \/ ReadNothing(m) \/ ReadEnd(m)
    <3>1. UNCHANGED pc \/ pc' = [pc EXCEPT ![m] = "failed"]
      BY <2>2 DEF BeginRead, ReadNothing, ReadEnd, Leave, Goto, local
    <3> QED
      BY <3>1 DEF LoopInv, TypeOK
  <2>3. CASE at[m] # None /\ \E n \in 1..Len(stream[at[m]]) :
               ReadFirst(m, n) \/ ReadRest(m, n)
    BY <2>3 DEF LoopInv, TypeOK, ReadFirst, ReadRest, Goto
  <2>4. CASE Return(m)
    <3>1. \E place \in Done : pc' = [pc EXCEPT ![m] = place]
      BY <2>4 DEF Return, Leave, Goto, Done
    <3>2. m = l
      BY <3>1 DEF LoopInv, TypeOK
    <3> QED
      BY <2>4, <3>2
  <2> QED
    BY <1>4, <2>1, <2>2, <2>3, <2>4 DEF Step
<1> QED
  BY <1>1, <1>2, <1>3, <1>4 DEF Next

\* A reply whose first read was short is never returned: the loop that is to
\* receive the rest ends, when it ends, with a buffer that has not room for it.
THEOREM ShortReplies == Spec => ShortReplyIsNotReturned
<1> DEFINE Turn == \A l \in Lookups :
             pc[l] = "rest" /\ (position[l] > HeaderLen \/ Short(l))
               => pc'[l] # "answered"
<1>1. LoopInv /\ [Next]_vars => Turn
  <2> SUFFICES ASSUME LoopInv, [Next]_vars, NEW l \in Lookups, pc[l] = "rest",
                      position[l] > HeaderLen \/ Short(l), pc'[l] = "answered"
               PROVE  FALSE
    OBVIOUS
  <2>1. Return(l)
    BY OnlyReturnAnswers
  <2>2. /\ position[l] \in Nat /\ readSize[l] \in Nat /\ len[l] \in Nat
        /\ Len(buffer[l]) \in Nat
    BY LenProperties DEF LoopInv, TypeOK
  <2>3. position[l] > HeaderLen
    BY <2>1, <2>2 DEF Return, Received, Short
  <2>4. Len(buffer[l]) < len[l] + HeaderLen
    BY <2>3 DEF LoopInv, LoopOK
  <2>5. pc'[l] = "failed"
    BY <2>1, <2>2, <2>3, <2>4 DEF Return, Leave, Goto, LoopInv, TypeOK
  <2> QED
    BY <2>5
<1> QED
  BY <1>1, LoopAlways, PTL DEF Spec, ShortReplyIsNotReturned

-----------------------------------------------------------------------------
(* No reply goes to two lookups.  A query is sent once, over one channel,  *)
(* and upstream answers it at most once there; from then on each byte of   *)
(* the reply is in one place, whoever reads it: in a channel, or in the    *)
(* buffer or the answer of one lookup.                                     *)

In(b, s) == \E i \in DOMAIN s : s[i] = b

InStream(b, c) == In(b, stream[c])
Held(b, l)     == In(b, buffer[l]) \/ In(b, answer[l])

Unsent == {"idle", "open", "connect", "write"}

\* The reply to the query of q is still to come.
Due(q) == pc[q] \in Unsent \/ \E c \in Lookups : q \in pending[c]

NoByteTwice ==
  \A c \in Lookups : \A i, j \in DOMAIN stream[c] : stream[c][i] = stream[c][j] => i = j

OnePlace ==
  \A b \in Bytes :
    /\ \A c, d \in Lookups : InStream(b, c) /\ InStream(b, d) => c = d
    /\ \A c, l \in Lookups : ~(InStream(b, c) /\ Held(b, l))
    /\ \A l, m \in Lookups : Held(b, l) /\ Held(b, m) => l = m
    /\ Due(b[1]) => \A c \in Lookups : ~InStream(b, c) /\ ~Held(b, c)

SentOnce ==
  \A q \in Lookups :
    /\ \A c, d \in Lookups : q \in pending[c] /\ q \in pending[d] => c = d
    /\ pc[q] \in Unsent => \A c \in Lookups : q \notin pending[c]

OnceInv == LoopInv /\ NoByteTwice /\ OnePlace /\ SentOnce

\* A step brings bytes of a reply that was due, or none that were not there.
Around(b) == \E c \in Lookups : InStream(b, c) \/ Held(b, c)
NoNewBytes == \A b \in Bytes : Around(b)' => Around(b) \/ \E c \in Lookups : b[1] \in pending[c]

LEMMA OnceInit == Init => OnceInv
<1> SUFFICES ASSUME Init PROVE OnceInv
  OBVIOUS
<1>1. \A c \in Lookups : stream[c] = <<>> /\ buffer[c] = <<>> /\ answer[c] = <<>>
  BY DEF Init
<1>2. \A b : ~In(b, <<>>)
  BY DEF In
<1>3. OnePlace
  BY <1>1, <1>2 DEF OnePlace, InStream, Held
<1>4. NoByteTwice
  BY <1>1 DEF NoByteTwice
<1>5. SentOnce
  BY DEF Init, SentOnce
<1> QED
  BY <1>3, <1>4, <1>5, LoopInit DEF OnceInv

\* A step in which bytes go nowhere but from channels to one lookup.
LEMMA BytesMove ==
  ASSUME OnceInv, LoopInv', NEW r \in Lookups,
         \A b \in Bytes, c \in Lookups : InStream(b, c)' => InStream(b, c),
         \A b \in Bytes, l \in Lookups : Held(b, l)' =>
           \/ Held(b, l)
           \/ l = r /\ \E c \in Lookups : InStream(b, c) /\ ~InStream(b, c)',
         NoByteTwice',
         \A q \in Lookups : Due(q)' => Due(q),
         SentOnce'
  PROVE  OnceInv' /\ NoNewBytes
<1>1. \A b \in Bytes : b[1] \in Lookups
  BY DEF Bytes
<1>2. OnePlace'
  BY <1>1 DEF OnceInv, OnePlace
<1>3. NoNewBytes
  BY DEF NoNewBytes, Around
<1> QED
  BY <1>2, <1>3 DEF OnceInv

\* A step of l, which has sent its query or does not send it now, in which no
\* byte moves but those l drops.
LEMMA BytesStay ==
  ASSUME OnceInv, LoopInv', NEW l \in Lookups,
         UNCHANGED <<stream, pending>>,
         \A m \in Lookups : pc'[m] \in Unsent => pc[m] \in Unsent,
         \A b \in Bytes, m \in Lookups : Held(b, m)' => Held(b, m)
  PROVE  OnceInv' /\ NoNewBytes
<1>1. NoByteTwice' /\ SentOnce'
  BY DEF OnceInv, NoByteTwice, SentOnce
<1>2. \A b \in Bytes, c \in Lookups : InStream(b, c)' => InStream(b, c)
  BY DEF InStream
<1>3. \A q \in Lookups : Due(q)' => Due(q)
  BY DEF Due
<1> QED
  BY <1>1, <1>2, <1>3, BytesMove

LEMMA NoneBetween == \A a, b \in Nat : a <= b /\ ~(a + 1 <= b) => a = b
OBVIOUS

\* What a read takes was in the channel, and what it leaves is the rest.
LEMMA TakeMoves ==
  ASSUME OnceInv, NEW l \in Lookups, at[l] # None,
         NEW n \in 1..Len(stream[at[l]]), Take(l, n)
  PROVE  /\ NoByteTwice'
         /\ \A b \in Bytes, c \in Lookups : InStream(b, c)' => InStream(b, c)
         /\ \A b \in Bytes, c \in Lookups :
              c = at[l] /\ (\E i \in 1..n : stream[c][i] = b)
                => InStream(b, c) /\ ~InStream(b, c)'
<1> DEFINE c == at[l]
           s == stream[c]
           t == SubSeq(s, n + 1, Len(s))
<1>1. c \in Lookups /\ stream \in [Lookups -> Seq(Bytes)] /\ s \in Seq(Bytes)
  BY DEF OnceInv, LoopInv, TypeOK
<1>2. Len(s) \in Nat /\ DOMAIN s = 1..Len(s) /\ n \in Nat /\ n >= 1 /\ n <= Len(s)
  BY <1>1, LenProperties
<1>3. \A i \in n + 1 .. Len(s) : s[i] \in Bytes
  BY <1>1, <1>2, ElementOfSeq
<1>4. /\ t \in Seq(Bytes)
      /\ Len(t) = IF n + 1 <= Len(s) THEN Len(s) - (n + 1) + 1 ELSE 0
      /\ \A i \in 1 .. Len(s) - (n + 1) + 1 : t[i] = s[n + 1 + i - 1]
  BY <1>2, <1>3, SubSeqProperties
<1>5. stream' = [stream EXCEPT ![c] = t]
  BY DEF Take
<1> HIDE DEF s, t, c
<1>6. Len(t) = Len(s) - n /\ Len(s) - (n + 1) + 1 = Len(s) - n
  <2>1. CASE n + 1 <= Len(s)
    BY <1>2, <1>4, <2>1
  <2>2. CASE ~(n + 1 <= Len(s))
    <3>1. n = Len(s)
      BY <1>2, <2>2, NoneBetween
    <3>2. Len(t) = 0
      BY <1>4, <2>2
    <3> QED
      BY <1>2, <3>1, <3>2
  <2> QED
    BY <2>1, <2>2
<1>7. DOMAIN t = 1..Len(t)
  BY <1>4, LenProperties
<1>8. \A i \in DOMAIN t : n + i \in DOMAIN s /\ t[i] = s[n + i]
  <2> TAKE i \in DOMAIN t
  <2>1. i \in Nat /\ i >= 1 /\ i <= Len(s) - n
    BY <1>2, <1>6, <1>7
  <2>2. n + i \in DOMAIN s /\ n + 1 + i - 1 = n + i
    BY <1>2, <2>1
  <2>3. t[i] = s[n + 1 + i - 1]
    BY <1>4, <1>6, <1>7
  <2> QED
    BY <2>2, <2>3
<1>9. \A i, j \in DOMAIN s : s[i] = s[j] => i = j
  BY <1>1 DEF OnceInv, NoByteTwice, s
<1>10. stream'[c] = t /\ \A d \in Lookups \ {c} : stream'[d] = stream[d]
  BY <1>1, <1>5
<1>11. NoByteTwice'
  <2>1. \A i, j \in DOMAIN t : t[i] = t[j] => i = j
    <3> SUFFICES ASSUME NEW i \in DOMAIN t, NEW j \in DOMAIN t, t[i] = t[j] PROVE i = j
      OBVIOUS
    <3>1. n + i = n + j
      BY <1>8, <1>9
    <3> QED
      BY <1>2, <1>6, <1>7, <3>1
  <2>2. \A d \in Lookups : \A i, j \in DOMAIN stream'[d] :
           stream'[d][i] = stream'[d][j] => i = j
    BY <1>10, <2>1 DEF OnceInv, NoByteTwice
  <2> QED
    BY <2>2 DEF NoByteTwice
<1>12. ASSUME NEW b \in Bytes, NEW d \in Lookups, InStream(b, d)' PROVE InStream(b, d)
  <2>1. CASE d = c
    BY <1>8, <1>10, <1>12, <2>1 DEF InStream, In, s
  <2>2. CASE d # c
    BY <1>10, <1>12, <2>2 DEF InStream, In
  <2> QED
    BY <2>1, <2>2
<1>13. ASSUME NEW b \in Bytes, NEW d \in Lookups, d = c, NEW i \in 1..n, s[i] = b
       PROVE  InStream(b, d) /\ ~InStream(b, d)'
  <2>1. i \in DOMAIN s
    BY <1>2
  <2>2. ASSUME NEW j \in DOMAIN t PROVE t[j] # b
    <3>1. n + j \in DOMAIN s /\ t[j] = s[n + j]
      BY <1>8
    <3>2. n + j # i
      BY <1>2, <1>6, <1>7
    <3> QED
      BY <1>9, <1>13, <2>1, <3>1, <3>2
  <2>3. stream'[d] = t /\ s = stream[d]
    BY <1>10, <1>13 DEF s
  <2> QED
    BY <1>13, <2>1, <2>2, <2>3 DEF InStream, In
<1> QED
  BY <1>11, <1>12, <1>13 DEF s, c

\* The buffer after a turn of the loop has bytes it had and bytes of the read.
LEMMA OverwrittenHas ==
  ASSUME NEW b, NEW old \in Seq(Bytes), NEW s \in Seq(Bytes), NEW from \in Nat,
         NEW n \in 1..Len(s), In(b, Overwritten(old, s, from, n))
  PROVE  In(b, old) \/ \E i \in 1..n : s[i] = b
<1>1. PICK i \in DOMAIN old : Overwritten(old, s, from, n)[i] = b
  BY DEF In, Overwritten
<1>2. i \in Nat /\ n \in Nat
  BY LenProperties
<1>3. CASE i \in from + 1 .. from + n
  <2>1. s[i - from] = b
    BY <1>1, <1>3 DEF Overwritten
  <2>2. i - from \in 1..n
    BY <1>2, <1>3
  <2> QED
    BY <2>1, <2>2
<1>4. CASE i \notin from + 1 .. from + n
  BY <1>1, <1>4 DEF Overwritten, In
<1> QED
  BY <1>3, <1>4

\* A part of a sequence has nothing that is not in it.
LEMMA PartHas ==
  ASSUME NEW b, NEW s \in Seq(Bytes), NEW i \in Nat, NEW j \in Nat, i >= 1, j <= Len(s),
         In(b, SubSeq(s, i, j))
  PROVE  \E k \in i..j : k \in DOMAIN s /\ s[k] = b
<1>1. Len(s) \in Nat /\ DOMAIN s = 1..Len(s)
  BY LenProperties
<1>2. \A k \in i..j : s[k] \in Bytes
  BY <1>1, ElementOfSeq
<1>3. /\ SubSeq(s, i, j) \in Seq(Bytes)
      /\ Len(SubSeq(s, i, j)) = IF i <= j THEN j - i + 1 ELSE 0
      /\ \A k \in 1 .. j - i + 1 : SubSeq(s, i, j)[k] = s[i + k - 1]
  BY <1>2, SubSeqProperties
<1> DEFINE t == SubSeq(s, i, j)
<1>4. PICK k \in DOMAIN t : t[k] = b
  BY DEF In
<1>5. DOMAIN t = 1..Len(t)
  BY <1>3, LenProperties
<1> HIDE DEF t
<1>6. i <= j
  <2>1. k \in 1..Len(t)
    BY <1>4, <1>5
  <2>2. CASE ~(i <= j)
    <3>1. Len(t) = 0
      BY <1>3, <2>2 DEF t
    <3> QED
      BY <2>1, <3>1
  <2> QED
    BY <2>2
<1>7. Len(t) = j - i + 1
  BY <1>3, <1>6 DEF t
<1>8. k \in 1 .. j - i + 1
  BY <1>4, <1>5, <1>7
<1>9. t[k] = s[i + k - 1]
  BY <1>3, <1>8 DEF t
<1>10. i + k - 1 \in i..j /\ i + k - 1 \in DOMAIN s
  BY <1>1, <1>8
<1> QED
  BY <1>4, <1>9, <1>10

LEMMA LeaveDrops ==
  ASSUME TypeOK, NEW l \in Lookups, NEW place \in Done, Leave(l, place), UNCHANGED answer
  PROVE  /\ \A b \in Bytes, m \in Lookups : Held(b, m)' => Held(b, m)
         /\ \A m \in Lookups : pc'[m] \in Unsent => pc[m] \in Unsent
<1>1. buffer' = [buffer EXCEPT ![l] = <<>>]
  BY DEF Leave
<1>2. \A b : ~In(b, <<>>)
  BY DEF In
<1>3. ASSUME NEW b \in Bytes, NEW m \in Lookups, Held(b, m)' PROVE Held(b, m)
  <2>1. CASE m = l
    BY <1>1, <1>2, <1>3, <2>1 DEF Held, TypeOK, In
  <2>2. CASE m # l
    BY <1>1, <1>3, <2>2 DEF Held, TypeOK, In
  <2> QED
    BY <2>1, <2>2
<1>4. \A m \in Lookups : pc'[m] \in Unsent => pc[m] \in Unsent
  BY DEF Leave, Goto, TypeOK, Unsent, Done
<1> QED
  BY <1>3, <1>4

LEMMA ConnectOnce ==
  ASSUME OnceInv, LoopInv', NEW l \in Lookups, Start(l) \/ Open(l) \/ Connect(l)
  PROVE  OnceInv' /\ NoNewBytes
<1>1. UNCHANGED <<stream, pending, buffer, answer>>
  BY DEF Start, Open, Connect, conn, local
<1>2. \E place \in {"write", "open", "connect", "failed"} : pc' = [pc EXCEPT ![l] = place]
  BY DEF Start, Open, Connect, Goto
<1>3. pc[l] \in Unsent
  BY DEF Start, Open, Connect, Unsent
<1>4. \A m \in Lookups : pc'[m] \in Unsent => pc[m] \in Unsent
  BY <1>2, <1>3 DEF OnceInv, LoopInv, TypeOK
<1>5. \A b \in Bytes, m \in Lookups : Held(b, m)' => Held(b, m)
  BY <1>1 DEF Held
<1> QED
  BY <1>1, <1>4, <1>5, BytesStay

LEMMA WriteOnce ==
  ASSUME OnceInv, LoopInv', NEW l \in Lookups, Write(l)
  PROVE  OnceInv' /\ NoNewBytes
<1>1. UNCHANGED <<stream, buffer, answer>> /\ pc[l] \in Unsent
  BY DEF Write, local, Unsent
<1>2. PICK place \in {"first", "failed"} : pc' = [pc EXCEPT ![l] = place]
  BY DEF Write, Goto
<1>3. pc'[l] \notin Unsent /\ \A m \in Lookups \ {l} : pc'[m] = pc[m]
  BY <1>2 DEF OnceInv, LoopInv, TypeOK, Unsent
<1>4. pending \in [Lookups -> SUBSET Lookups]
  BY DEF OnceInv, LoopInv, TypeOK
<1>5. \/ pending' = [pending EXCEPT ![socketChannel] = @ \cup {l}]
      \/ UNCHANGED pending
  BY DEF Write
<1>6. ASSUME NEW q \in Lookups \ {l}, NEW c \in Lookups PROVE q \in pending'[c] <=> q \in pending[c]
  BY <1>4, <1>5
<1>7. \A c \in Lookups : l \notin pending[c]
  BY <1>1 DEF OnceInv, SentOnce
<1>8. \A c \in Lookups : l \in pending'[c] => c = socketChannel
  BY <1>4, <1>5, <1>7
<1>9. SentOnce'
  <2> SUFFICES ASSUME NEW q \in Lookups
               PROVE  /\ \A c, d \in Lookups : q \in pending'[c] /\ q \in pending'[d] => c = d
                      /\ pc'[q] \in Unsent => \A c \in Lookups : q \notin pending'[c]
    BY DEF SentOnce
  <2>1. CASE q = l
    BY <1>3, <1>8, <2>1
  <2>2. CASE q # l
    BY <1>3, <1>6, <2>2 DEF OnceInv, SentOnce
  <2> QED
    BY <2>1, <2>2
<1>10. ASSUME NEW q \in Lookups, Due(q)' PROVE Due(q)
  <2>1. CASE q = l
    BY <1>1, <2>1 DEF Due
  <2>2. CASE q # l
    BY <1>3, <1>6, <1>10, <2>2 DEF Due
  <2> QED
    BY <2>1, <2>2
<1>11. NoByteTwice'
  BY <1>1 DEF OnceInv, NoByteTwice
<1>12. /\ \A b \in Bytes, c \in Lookups : InStream(b, c)' => InStream(b, c)
       /\ \A b \in Bytes, m \in Lookups : Held(b, m)' => Held(b, m)
  BY <1>1 DEF InStream, Held
<1> QED
  BY <1>9, <1>10, <1>11, <1>12, BytesMove

LEMMA PeerClosesOnce ==
  ASSUME OnceInv, LoopInv', NEW c \in Lookups, PeerCloses(c)
  PROVE  OnceInv' /\ NoNewBytes
<1>1. UNCHANGED <<stream, buffer, answer, pc>> /\ pending' = [pending EXCEPT ![c] = {}]
  BY DEF PeerCloses, local
<1>2. \A d \in Lookups : pending'[d] \subseteq pending[d]
  BY <1>1 DEF OnceInv, LoopInv, TypeOK
<1>3. NoByteTwice' /\ SentOnce'
  BY <1>1, <1>2 DEF OnceInv, NoByteTwice, SentOnce
<1>4. \A q \in Lookups : Due(q)' => Due(q)
  BY <1>1, <1>2 DEF Due
<1>5. /\ \A b \in Bytes, d \in Lookups : InStream(b, d)' => InStream(b, d)
      /\ \A b \in Bytes, m \in Lookups : Held(b, m)' => Held(b, m)
  BY <1>1 DEF InStream, Held
<1> QED
  BY <1>3, <1>4, <1>5, BytesMove

\* The frame of a reply has each of its bytes once, and no others.
LEMMA FrameHas ==
  ASSUME NEW q \in Lookups
  PROVE  /\ Frame(q) \in Seq(Bytes)
         /\ \A i \in 1..Len(Frame(q)) : Frame(q)[i] = <<q, i>>
<1>1. Frame(q) \in Seq(Bytes)
  BY FrameType
<1>2. DOMAIN Frame(q) = 1..Len(Frame(q))
  BY <1>1, LenProperties
<1>3. \A i \in DOMAIN Frame(q) : Frame(q)[i] = <<q, i>>
  BY DEF Frame
<1> QED
  BY <1>1, <1>2, <1>3

\* What a reply adds to a channel: bytes of one lookup, each of them once.
LEMMA ReplyAdds ==
  ASSUME OnceInv, NEW c \in Lookups, NEW q \in Lookups, Reply(c, q)
  PROVE  /\ \A b \in Bytes : InStream(b, c)' => InStream(b, c) \/ b[1] = q
         /\ \A d \in Lookups \ {c} : stream'[d] = stream[d]
         /\ NoByteTwice'
<1> DEFINE s == stream[c]
           f == Frame(q)
           t == s \o f
<1>1. stream \in [Lookups -> Seq(Bytes)] /\ s \in Seq(Bytes)
  BY DEF OnceInv, LoopInv, TypeOK
<1>2. f \in Seq(Bytes) /\ \A i \in 1..Len(f) : f[i] = <<q, i>>
  BY FrameHas
<1>3. Due(q)
  BY DEF Reply, Due
<1>4. \A i \in DOMAIN s : s[i] \in Bytes /\ s[i][1] # q
  <2> TAKE i \in DOMAIN s
  <2>1. s[i] \in Bytes
    BY <1>1, LenProperties, ElementOfSeq
  <2>2. InStream(s[i], c)
    BY DEF InStream, In
  <2> QED
    BY <1>3, <2>1, <2>2 DEF OnceInv, OnePlace
<1>5. stream' = [stream EXCEPT ![c] = t]
  BY DEF Reply
<1>6. stream'[c] = t /\ \A d \in Lookups \ {c} : stream'[d] = stream[d]
  BY <1>1, <1>5
<1>7. \A i, j \in DOMAIN s : s[i] = s[j] => i = j
  BY DEF OnceInv, NoByteTwice
<1>8. \A b \in Bytes : InStream(b, c) <=> In(b, s)
  BY DEF InStream
<1> HIDE DEF s, f
<1>9. /\ Len(s) \in Nat /\ Len(f) \in Nat /\ DOMAIN s = 1..Len(s)
      /\ t \in Seq(Bytes) /\ Len(t) = Len(s) + Len(f)
      /\ \A i \in 1 .. Len(s) + Len(f) :
           t[i] = IF i <= Len(s) THEN s[i] ELSE f[i - Len(s)]
  BY <1>1, <1>2, LenProperties, ConcatProperties
<1>10. DOMAIN t = 1 .. Len(s) + Len(f)
  BY <1>9, LenProperties
<1> HIDE DEF t
<1>11. ASSUME NEW i \in DOMAIN t
       PROVE  \/ i \in DOMAIN s /\ t[i] = s[i]
              \/ i \in Nat /\ i > Len(s) /\ t[i] = <<q, i - Len(s)>>
  <2>1. i \in Nat /\ i >= 1 /\ i <= Len(s) + Len(f)
    BY <1>9, <1>10
  <2>2. CASE i <= Len(s)
    BY <1>9, <2>1, <2>2
  <2>3. CASE ~(i <= Len(s))
    <3>1. i - Len(s) \in 1..Len(f)
      BY <1>9, <2>1, <2>3
    <3>2. t[i] = f[i - Len(s)]
      BY <1>9, <2>1, <2>3
    <3> QED
      BY <1>2, <1>9, <2>1, <2>3, <3>1, <3>2
  <2> QED
    BY <2>2, <2>3
<1>12. ASSUME NEW b \in Bytes, InStream(b, c)' PROVE InStream(b, c) \/ b[1] = q
  <2>1. PICK i \in DOMAIN t : t[i] = b
    BY <1>6, <1>12 DEF InStream, In
  <2> QED
    BY <1>8, <1>11, <2>1 DEF In
<1>13. \A i, j \in DOMAIN t : t[i] = t[j] => i = j
  <2> SUFFICES ASSUME NEW i \in DOMAIN t, NEW j \in DOMAIN t, t[i] = t[j] PROVE i = j
    OBVIOUS
  <2>1. CASE i \in DOMAIN s /\ t[i] = s[i]
    <3>1. t[i][1] # q
      BY <1>4, <2>1
    <3>2. j \in DOMAIN s /\ t[j] = s[j]
      BY <1>11, <3>1
    <3> QED
      BY <1>7, <2>1, <3>2
  <2>2. CASE i \in Nat /\ i > Len(s) /\ t[i] = <<q, i - Len(s)>>
    <3>1. t[j][1] = q
      BY <2>2
    <3>2. j \in Nat /\ j > Len(s) /\ t[j] = <<q, j - Len(s)>>
      BY <1>4, <1>11, <3>1
    <3>3. <<q, i - Len(s)>> = <<q, j - Len(s)>>
      BY <2>2, <3>2
    <3> QED
      BY <1>9, <2>2, <3>2, <3>3
  <2> QED
    BY <1>11, <2>1, <2>2
<1>14. NoByteTwice'
  <2>1. \A d \in Lookups : \A i, j \in DOMAIN stream'[d] :
           stream'[d][i] = stream'[d][j] => i = j
    BY <1>6, <1>13 DEF OnceInv, NoByteTwice
  <2> QED
    BY <2>1 DEF NoByteTwice
<1> QED
  BY <1>6, <1>12, <1>14

LEMMA ReplyOnce ==
  ASSUME OnceInv, LoopInv', NEW c \in Lookups, NEW q \in Lookups, Reply(c, q)
  PROVE  OnceInv' /\ NoNewBytes
<1>1. /\ q \in pending[c] /\ pending' = [pending EXCEPT ![c] = @ \ {q}]
      /\ UNCHANGED <<pc, buffer, answer>>
  BY DEF Reply, local
<1>2. pending \in [Lookups -> SUBSET Lookups]
  BY DEF OnceInv, LoopInv, TypeOK
<1>3. /\ \A d \in Lookups : pending'[d] \subseteq pending[d]
      /\ q \notin pending'[c]
  BY <1>1, <1>2
<1>4. pc[q] \notin Unsent /\ \A d \in Lookups : q \notin pending'[d]
  BY <1>1, <1>3 DEF OnceInv, SentOnce
<1>5. SentOnce'
  BY <1>1, <1>3 DEF OnceInv, SentOnce
<1>6. ~Due(q)' /\ \A p \in Lookups : Due(p)' => Due(p)
  BY <1>1, <1>3, <1>4 DEF Due
<1>7. Due(q)
  BY <1>1 DEF Due
<1>8. \A b \in Bytes, m \in Lookups : Held(b, m)' <=> Held(b, m)
  BY <1>1 DEF Held
<1>9. \A b \in Bytes, d \in Lookups :
         InStream(b, d)' => InStream(b, d) \/ (d = c /\ b[1] = q)
  BY ReplyAdds DEF InStream
<1>10. \A b \in Bytes : b[1] \in Lookups
  BY DEF Bytes
<1>11. ASSUME NEW b \in Bytes
       PROVE  /\ \A d, e \in Lookups : InStream(b, d)' /\ InStream(b, e)' => d = e
              /\ \A d, l \in Lookups : ~(InStream(b, d)' /\ Held(b, l)')
              /\ \A l, m \in Lookups : Held(b, l)' /\ Held(b, m)' => l = m
              /\ Due(b[1])' => \A d \in Lookups : ~InStream(b, d)' /\ ~Held(b, d)'
  <2>1. CASE b[1] = q
    <3>1. \A d \in Lookups : ~InStream(b, d) /\ ~Held(b, d)
      BY <1>7, <2>1 DEF OnceInv, OnePlace
    <3>2. ~Due(b[1])'
      BY <1>6, <2>1
    <3> QED
      BY <1>8, <1>9, <3>1, <3>2
  <2>2. CASE b[1] # q
    BY <1>6, <1>8, <1>9, <1>10, <2>2 DEF OnceInv, OnePlace
  <2> QED
    BY <2>1, <2>2
<1>12. OnePlace'
  BY <1>11 DEF OnePlace
<1>13. NoNewBytes
  BY <1>1, <1>8, <1>9 DEF NoNewBytes, Around
<1> QED
  BY <1>5, <1>12, <1>13, ReplyAdds DEF OnceInv

\* The steps of the receiving loop in which nothing is read.
LEMMA NothingReadOnce ==
  ASSUME OnceInv, LoopInv', NEW l \in Lookups,
         BeginRead(l) \/ ReadNothing(l) \/ ReadEnd(l)
  PROVE  OnceInv' /\ NoNewBytes
<1>1. UNCHANGED <<stream, pending, answer>>
  BY DEF BeginRead, ReadNothing, ReadEnd, conn
<1>2. Leave(l, "failed") \/ UNCHANGED <<pc, buffer>>
  BY DEF BeginRead, ReadNothing, ReadEnd, local
<1>3. CASE Leave(l, "failed")
  <2>1. "failed" \in Done /\ TypeOK
    BY DEF Done, OnceInv, LoopInv
  <2> QED
    BY <1>1, <1>3, <2>1, LeaveDrops, BytesStay
<1>4. CASE UNCHANGED <<pc, buffer>>
  <2>1. \A b \in Bytes, m \in Lookups : Held(b, m)' => Held(b, m)
    BY <1>1, <1>4 DEF Held
  <2> QED
    BY <1>1, <1>4, <2>1, BytesStay
<1> QED
  BY <1>2, <1>3, <1>4

LEMMA ReturnOnce ==
  ASSUME OnceInv, LoopInv', NEW l \in Lookups, Return(l)
  PROVE  OnceInv' /\ NoNewBytes
<1>1. UNCHANGED <<stream, pending>> /\ TypeOK
  BY DEF Return, conn, OnceInv, LoopInv
<1>2. "failed" \in Done /\ "answered" \in Done
  BY DEF Done
<1>3. CASE Leave(l, "failed") /\ UNCHANGED answer
  BY <1>1, <1>2, <1>3, LeaveDrops, BytesStay
<1>4. CASE /\ Len(buffer[l]) - position[l] >= len[l]
           /\ answer' = [answer EXCEPT ![l] = Message(l)]
           /\ Leave(l, "answered")
  <2>1. /\ buffer[l] \in Seq(Bytes) /\ Len(buffer[l]) \in Nat
        /\ position[l] \in Nat /\ len[l] \in Nat
    BY <1>1, LenProperties DEF TypeOK
  <2>2. \A b \in Bytes : In(b, Message(l)) => In(b, buffer[l])
    <3> SUFFICES ASSUME NEW b \in Bytes, In(b, Message(l)) PROVE In(b, buffer[l])
      OBVIOUS
    <3>1. /\ position[l] + 1 \in Nat /\ position[l] + len[l] \in Nat
          /\ position[l] + 1 >= 1 /\ position[l] + len[l] <= Len(buffer[l])
      BY <1>4, <2>1
    <3>2. \E k \in position[l] + 1 .. position[l] + len[l] :
             k \in DOMAIN buffer[l] /\ buffer[l][k] = b
      BY <2>1, <3>1, PartHas DEF Message
    <3> QED
      BY <3>2 DEF In
  <2>3. /\ answer'[l] = Message(l) /\ buffer'[l] = <<>>
        /\ \A m \in Lookups \ {l} : answer'[m] = answer[m] /\ buffer'[m] = buffer[m]
    BY <1>1, <1>4 DEF Leave, TypeOK
  <2>4. \A b : ~In(b, <<>>)
    BY DEF In
  <2>5. ASSUME NEW b \in Bytes, NEW m \in Lookups, Held(b, m)' PROVE Held(b, m)
    <3>1. In(b, buffer'[m]) \/ In(b, answer'[m])
      BY <2>5 DEF Held, In
    <3>2. CASE m = l
      BY <2>2, <2>3, <2>4, <3>1, <3>2 DEF Held
    <3>3. CASE m # l
      BY <2>3, <3>1, <3>3 DEF Held
    <3> QED
      BY <3>2, <3>3
  <2>6. \A m \in Lookups : pc'[m] \in Unsent => pc[m] \in Unsent
    BY <1>1, <1>4 DEF Leave, Goto, TypeOK, Unsent
  <2> QED
    BY <1>1, <2>5, <2>6, BytesStay
<1> QED
  BY <1>3, <1>4 DEF Return

\* A read moves bytes from the channel it was begun in to the buffer.
LEMMA ReadMoves ==
  ASSUME OnceInv, LoopInv', NEW l \in Lookups, at[l] # None,
         NEW n \in 1..Len(stream[at[l]]), Take(l, n),
         UNCHANGED <<pending, answer>>,
         \A m \in Lookups : pc'[m] \in Unsent => pc[m] \in Unsent,
         \A m \in Lookups \ {l} : buffer'[m] = buffer[m],
         \A b \in Bytes : In(b, buffer'[l]) =>
           In(b, buffer[l]) \/ \E i \in 1..n : stream[at[l]][i] = b
  PROVE  OnceInv' /\ NoNewBytes
<1>1. at[l] \in Lookups
  BY DEF OnceInv, LoopInv, TypeOK
<1>2. SentOnce'
  BY DEF OnceInv, SentOnce
<1>3. \A q \in Lookups : Due(q)' => Due(q)
  BY DEF Due
<1>4. ASSUME NEW b \in Bytes, NEW m \in Lookups, Held(b, m)'
      PROVE  \/ Held(b, m)
             \/ m = l /\ \E c \in Lookups : InStream(b, c) /\ ~InStream(b, c)'
  <2>1. In(b, buffer'[m]) \/ In(b, answer[m])
    BY <1>4 DEF Held, In
  <2>2. CASE m = l
    <3>1. In(b, buffer[l]) \/ In(b, answer[l]) \/ \E i \in 1..n : stream[at[l]][i] = b
      BY <2>1, <2>2
    <3>2. CASE Held(b, l)
      BY <2>2, <3>2
    <3>3. CASE \E i \in 1..n : stream[at[l]][i] = b
      <4>1. \A c \in Lookups : c = at[l] => InStream(b, c) /\ ~InStream(b, c)'
        BY <3>3, TakeMoves
      <4> QED
        BY <1>1, <2>2, <4>1
    <3> QED
      BY <3>1, <3>2, <3>3 DEF Held
  <2>3. CASE m # l
    BY <2>1, <2>3 DEF Held
  <2> QED
    BY <2>2, <2>3
<1> QED
  BY <1>2, <1>3, <1>4, TakeMoves, BytesMove

LEMMA ReadFirstOnce ==
  ASSUME OnceInv, LoopInv', NEW l \in Lookups, at[l] # None,
         NEW n \in 1..Len(stream[at[l]]), ReadFirst(l, n)
  PROVE  OnceInv' /\ NoNewBytes
<1> DEFINE got == SubSeq(stream[at[l]], 1, n)
<1>1. /\ Take(l, n) /\ UNCHANGED <<pending, answer>>
      /\ at[l] \in Lookups /\ stream[at[l]] \in Seq(Bytes)
      /\ buffer \in [Lookups -> Seq(Bytes)]
  BY DEF ReadFirst, OnceInv, LoopInv, TypeOK
<1>2. UNCHANGED buffer \/ buffer' = [buffer EXCEPT ![l] = got]
  BY DEF ReadFirst, local
<1>3. PICK place \in {"failed", "rest"} : pc' = [pc EXCEPT ![l] = place]
  BY DEF ReadFirst, Goto
<1>4. \A m \in Lookups : pc'[m] \in Unsent => pc[m] \in Unsent
  BY <1>3 DEF OnceInv, LoopInv, TypeOK, Unsent
<1>5. ASSUME NEW b \in Bytes, In(b, got) PROVE \E i \in 1..n : stream[at[l]][i] = b
  <2>1. n \in Nat /\ n <= Len(stream[at[l]])
    BY <1>1, LenProperties
  <2> QED
    BY <1>1, <1>5, <2>1, PartHas
<1> HIDE DEF got
<1>6. \A m \in Lookups \ {l} : buffer'[m] = buffer[m]
  BY <1>1, <1>2
<1>7. buffer'[l] \in {buffer[l], got}
  BY <1>1, <1>2
<1> QED
  BY <1>1, <1>4, <1>5, <1>6, <1>7, ReadMoves

LEMMA ReadRestOnce ==
  ASSUME OnceInv, LoopInv', NEW l \in Lookups, at[l] # None,
         NEW n \in 1..Len(stream[at[l]]), ReadRest(l, n)
  PROVE  OnceInv' /\ NoNewBytes
<1> DEFINE over == Overwritten(buffer[l], stream[at[l]], position[l], n)
<1>1. /\ Take(l, n) /\ UNCHANGED <<pending, answer, pc>>
      /\ buffer' = [buffer EXCEPT ![l] = over]
  BY DEF ReadRest
<1>2. /\ stream[at[l]] \in Seq(Bytes) /\ position[l] \in Nat
      /\ buffer \in [Lookups -> Seq(Bytes)] /\ buffer[l] \in Seq(Bytes)
  BY DEF OnceInv, LoopInv, TypeOK
<1>3. \A b \in Bytes : In(b, over) =>
         In(b, buffer[l]) \/ \E i \in 1..n : stream[at[l]][i] = b
  BY <1>2, OverwrittenHas
<1> HIDE DEF over
<1>4. buffer'[l] = over /\ \A m \in Lookups \ {l} : buffer'[m] = buffer[m]
  BY <1>1, <1>2
<1> QED
  BY <1>1, <1>3, <1>4, ReadMoves

LEMMA OnceStep == OnceInv /\ [Next]_vars => OnceInv' /\ NoNewBytes
<1> SUFFICES ASSUME OnceInv, [Next]_vars PROVE OnceInv' /\ NoNewBytes
  OBVIOUS
<1>1. LoopInv'
  BY LoopStep DEF OnceInv
<1>2. CASE UNCHANGED vars
  <2>1. \A b \in Bytes, m \in Lookups : Held(b, m)' => Held(b, m)
    BY <1>2 DEF vars, Held
  <2>2. UNCHANGED <<stream, pending, pc>>
    BY <1>2 DEF vars
  <2>3. NoByteTwice' /\ SentOnce'
    BY <2>2 DEF OnceInv, NoByteTwice, SentOnce
  <2>4. OnePlace'
    BY <1>2 DEF vars, OnceInv, OnePlace, InStream, Held, Due
  <2>5. NoNewBytes
    BY <1>2 DEF vars, NoNewBytes, Around, InStream, Held
  <2> QED
    BY <1>1, <2>3, <2>4, <2>5 DEF OnceInv
<1>3. ASSUME NEW l \in Lookups, Start(l) \/ PeerCloses(l) PROVE OnceInv' /\ NoNewBytes
  BY <1>1, <1>3, ConnectOnce, PeerClosesOnce
<1>4. ASSUME NEW c \in Lookups, NEW q \in Lookups, Reply(c, q) PROVE OnceInv' /\ NoNewBytes
  BY <1>1, <1>4, ReplyOnce
<1>5. ASSUME NEW l \in Lookups, Step(l) PROVE OnceInv' /\ NoNewBytes
  BY <1>1, <1>5, ConnectOnce, WriteOnce, NothingReadOnce, ReturnOnce,
     ReadFirstOnce, ReadRestOnce DEF Step
<1> QED
  BY <1>2, <1>3, <1>4, <1>5 DEF Next

\* No reply is returned to two lookups, in any interleaving of them: what one
\* lookup has read, no other gets.
THEOREM RepliesOnce == Spec => []EachReplyOnce
<1>1. OnceInv => EachReplyOnce
  <2> SUFFICES ASSUME OnceInv, NEW l \in Lookups, NEW m \in Lookups, l # m,
                      NEW i \in DOMAIN answer[l], NEW j \in DOMAIN answer[m],
                      answer[l][i] = answer[m][j]
               PROVE  FALSE
    BY DEF EachReplyOnce
  <2>1. answer[l][i] \in Bytes
    <3>1. answer[l] \in Seq(Bytes)
      BY DEF OnceInv, LoopInv, TypeOK
    <3> QED
      BY <3>1, LenProperties, ElementOfSeq
  <2>2. Held(answer[l][i], l) /\ Held(answer[l][i], m)
    BY DEF Held, In
  <2> QED
    BY <2>1, <2>2 DEF OnceInv, OnePlace
<1>2. Spec => []OnceInv
  BY OnceInit, OnceStep, PTL DEF Spec
<1> QED
  BY <1>1, <1>2, PTL

-----------------------------------------------------------------------------
(* A lost connection is never healed.  A channel upstream has left stays   *)
(* connected at this end, so no lookup opens another one; and a query that *)
(* is not sent is not replied to.                                          *)

GoneInv ==
  /\ \A c \in Lookups : peer[c] = "gone" => link[c] = "connected"
  /\ \A l \in Lookups : pc[l] \in {"idle", "open"} => link[l] = "none"

\* The steps of the loop leave the connections alone, and nobody begins by them.
LEMMA ReceivingKeeps ==
  ASSUME NEW l \in Lookups, TypeOK,
         \/ BeginRead(l) \/ ReadNothing(l) \/ ReadEnd(l) \/ Return(l)
         \/ \E n \in 1..Len(stream[at[l]]) : ReadFirst(l, n) \/ ReadRest(l, n)
  PROVE  /\ UNCHANGED <<socketChannel, link, peer, pending>>
         /\ \A m \in Lookups \ {l} : pc'[m] = pc[m]
         /\ pc[l] \in {"first", "rest"} /\ pc'[l] \in {"first", "rest"} \cup Done
<1>1. UNCHANGED <<socketChannel, link, peer, pending>>
  BY DEF BeginRead, ReadNothing, ReadEnd, Return, ReadFirst, ReadRest, conn
<1>2. UNCHANGED pc \/ \E place \in {"rest"} \cup Done : pc' = [pc EXCEPT ![l] = place]
  BY DEF BeginRead, ReadNothing, ReadEnd, Return, ReadFirst, ReadRest, Leave, Goto,
         local, Done
<1>3. pc[l] \in {"first", "rest"}
  BY DEF BeginRead, ReadNothing, ReadEnd, Return, ReadFirst, ReadRest
<1> QED
  BY <1>1, <1>2, <1>3 DEF TypeOK

LEMMA GoneStep == TypeOK /\ GoneInv /\ [Next]_vars => GoneInv'
<1> SUFFICES ASSUME TypeOK, GoneInv, [Next]_vars PROVE GoneInv'
  OBVIOUS
<1>t. /\ link \in [Lookups -> Links] /\ peer \in [Lookups -> {"up", "gone"}]
      /\ pc \in [Lookups -> Pcs]
  BY DEF TypeOK
<1>1. CASE UNCHANGED vars
  BY <1>1 DEF vars, GoneInv
<1>2. ASSUME NEW l \in Lookups, Start(l) PROVE GoneInv'
  <2>1. UNCHANGED <<link, peer>> /\ pc[l] = "idle"
    BY <1>2 DEF Start, conn
  <2>2. \A m \in Lookups \ {l} : pc'[m] = pc[m]
    BY <1>t, <1>2 DEF Start, Goto
  <2> QED
    BY <2>1, <2>2 DEF GoneInv
<1>3. ASSUME NEW l \in Lookups, Open(l) PROVE GoneInv'
  <2>1. UNCHANGED peer /\ link[l] = "none" /\ link' = [link EXCEPT ![l] = "unconnected"]
    BY <1>3 DEF Open, GoneInv
  <2>2. pc'[l] = "connect" /\ \A m \in Lookups \ {l} : pc'[m] = pc[m]
    BY <1>t, <1>3 DEF Open, Goto
  <2> QED
    BY <1>t, <2>1, <2>2 DEF GoneInv
<1>4. ASSUME NEW l \in Lookups, Connect(l) PROVE GoneInv'
  <2>1. \/ UNCHANGED link
        \/ /\ link[socketChannel] = "unconnected"
           /\ \E to \in {"connected", "closed"} : link' = [link EXCEPT ![socketChannel] = to]
    BY <1>4 DEF Connect
  <2>2. UNCHANGED peer
    BY <1>4 DEF Connect
  <2>3. \A m \in Lookups : pc'[m] \in {"idle", "open"} => pc[m] \in {"idle", "open"}
    <3>1. \E place \in {"write", "failed"} : pc' = [pc EXCEPT ![l] = place]
      BY <1>4 DEF Connect, Goto
    <3> QED
      BY <1>t, <3>1
  <2> QED
    BY <1>t, <2>1, <2>2, <2>3 DEF GoneInv
<1>5. ASSUME NEW l \in Lookups, Write(l) PROVE GoneInv'
  <2>1. UNCHANGED <<link, peer>>
    BY <1>5 DEF Write
  <2>2. \A m \in Lookups : pc'[m] \in {"idle", "open"} => pc[m] \in {"idle", "open"}
    BY <1>t, <1>5 DEF Write, Goto
  <2> QED
    BY <2>1, <2>2 DEF GoneInv
<1>6. ASSUME NEW l \in Lookups, PeerCloses(l) PROVE GoneInv'
  BY <1>t, <1>6 DEF PeerCloses, GoneInv
<1>7. ASSUME NEW c \in Lookups, NEW q \in Lookups, Reply(c, q) PROVE GoneInv'
  BY <1>7 DEF Reply, GoneInv
<1>8. ASSUME NEW l \in Lookups, Step(l), ~Open(l), ~Connect(l), ~Write(l) PROVE GoneInv'
  <2>1. /\ UNCHANGED <<link, peer>>
        /\ \A m \in Lookups \ {l} : pc'[m] = pc[m]
        /\ pc'[l] \in {"first", "rest"} \cup Done
    BY <1>8, ReceivingKeeps DEF Step
  <2> QED
    BY <2>1 DEF GoneInv, Done
<1> QED
  BY <1>1, <1>2, <1>3, <1>4, <1>5, <1>6, <1>7, <1>8 DEF Next, Step

\* Once the connection in the field is lost no query is sent any more.
LEMMA LostStays ==
  ASSUME TypeOK, GoneInv, Lost, [Next]_vars
  PROVE  Lost' /\ \A c \in Lookups : pending'[c] \subseteq pending[c]
<1>t. /\ peer \in [Lookups -> {"up", "gone"}] /\ pc \in [Lookups -> Pcs]
      /\ pending \in [Lookups -> SUBSET Lookups] /\ socketChannel \in Lookups
  BY DEF TypeOK, Lost
<1>l. /\ socketChannel # None /\ peer[socketChannel] = "gone"
      /\ link[socketChannel] = "connected"
      /\ \A l \in Lookups : pc[l] \notin {"open", "connect"}
  BY <1>t DEF GoneInv, Lost
<1>1. CASE UNCHANGED vars
  BY <1>1, <1>l DEF vars, Lost
<1>2. ASSUME NEW l \in Lookups, Start(l) PROVE Lost' /\ UNCHANGED pending
  <2>1. pc' = [pc EXCEPT ![l] = "write"] /\ UNCHANGED <<socketChannel, peer, pending>>
    BY <1>2, <1>l DEF Start, Goto, isOpenTCPConnection, conn
  <2> QED
    BY <1>t, <1>l, <2>1 DEF Lost
<1>3. ASSUME NEW l \in Lookups, Write(l) PROVE Lost' /\ UNCHANGED pending
  <2>1. UNCHANGED <<socketChannel, peer, pending>>
    BY <1>3, <1>l DEF Write
  <2>2. \E place \in {"first", "failed"} : pc' = [pc EXCEPT ![l] = place]
    BY <1>3 DEF Write, Goto
  <2> QED
    BY <1>t, <1>l, <2>1, <2>2 DEF Lost
<1>4. ASSUME NEW c \in Lookups, PeerCloses(c)
      PROVE  Lost' /\ \A d \in Lookups : pending'[d] \subseteq pending[d]
  BY <1>4, <1>t, <1>l DEF PeerCloses, Lost
<1>5. ASSUME NEW c \in Lookups, NEW q \in Lookups, Reply(c, q)
      PROVE  Lost' /\ \A d \in Lookups : pending'[d] \subseteq pending[d]
  <2>1. pending' = [pending EXCEPT ![c] = @ \ {q}] /\ UNCHANGED <<socketChannel, peer, pc>>
    BY <1>5 DEF Reply
  <2> QED
    BY <1>t, <1>l, <2>1 DEF Lost
<1>6. ASSUME NEW l \in Lookups, Step(l), ~Write(l) PROVE Lost' /\ UNCHANGED pending
  <2>1. ~Open(l) /\ ~Connect(l)
    BY <1>l DEF Open, Connect
  <2>2. /\ UNCHANGED <<socketChannel, peer, pending>>
        /\ \A m \in Lookups \ {l} : pc'[m] = pc[m]
        /\ pc'[l] \in {"first", "rest"} \cup Done
    BY <1>6, <2>1, ReceivingKeeps DEF Step
  <2> QED
    BY <1>l, <2>2 DEF Lost, Done
<1> QED
  BY <1>1, <1>2, <1>3, <1>4, <1>5, <1>6 DEF Next, vars

\* Nothing of a reply to l is there, nor will there be one.
Dead(l) ==
  /\ Lost
  /\ \A c \in Lookups : l \notin pending[c]
  /\ \A b \in Bytes : b[1] = l => ~Around(b)

LEMMA DeadStep ==
  ASSUME OnceInv, GoneInv, NEW l \in Lookups, Dead(l), [Next]_vars
  PROVE  Dead(l)'
<1>1. TypeOK /\ Lost
  BY DEF OnceInv, LoopInv, Dead
<1>2. Lost' /\ \A c \in Lookups : pending'[c] \subseteq pending[c]
  BY <1>1, LostStays
<1>3. \A b \in Bytes : b[1] = l => ~Around(b)'
  BY OnceStep DEF Dead, NoNewBytes
<1> QED
  BY <1>2, <1>3 DEF Dead

\* A connection that upstream has ended is never opened again: who begins a
\* lookup from then on does not get the reply to its query.
THEOREM LostForGood == Spec => LostIsNeverHealed
<1> DEFINE I == OnceInv /\ GoneInv
<1>1. Spec => []I
  <2>1. Init => I
    BY OnceInit DEF Init, GoneInv
  <2>2. I /\ [Next]_vars => I'
    BY OnceStep, GoneStep DEF OnceInv, LoopInv
  <2> QED
    BY <2>1, <2>2, PTL DEF Spec
<1>2. ASSUME NEW l \in Lookups
      PROVE  Spec => [](Lost /\ pc[l] = "idle"
                          => [](pc[l] = "answered" => answer[l] # Body(l)))
  <2>1. I /\ Lost /\ pc[l] = "idle" => Dead(l)
    <3> SUFFICES ASSUME I, Lost, pc[l] = "idle" PROVE Dead(l)
      OBVIOUS
    <3>1. Due(l) /\ \A c \in Lookups : l \notin pending[c]
      BY DEF OnceInv, SentOnce, Due, Unsent
    <3>2. \A b \in Bytes : b[1] = l => ~Around(b)
      BY <3>1 DEF OnceInv, OnePlace, Around
    <3> QED
      BY <3>1, <3>2 DEF Dead
  <2>2. I /\ Dead(l) /\ [Next]_vars => Dead(l)'
    BY DeadStep
  <2>3. Dead(l) => (pc[l] = "answered" => answer[l] # Body(l))
    <3> SUFFICES ASSUME Dead(l), answer[l] = Body(l) PROVE FALSE
      OBVIOUS
    <3> DEFINE b == <<l, HeaderLen + 1>>
    <3>1. 1 \in DOMAIN Body(l) /\ Body(l)[1] = b /\ b \in Bytes /\ b[1] = l
      BY DEF Body, Bytes
    <3>2. In(b, answer[l])
      BY <3>1 DEF In
    <3> QED
      BY <3>1, <3>2 DEF Dead, Around, Held
  <2> HIDE DEF I
  <2> QED
    BY <1>1, <2>1, <2>2, <2>3, PTL DEF Spec
<1> QED
  BY <1>2 DEF LostIsNeverHealed

-----------------------------------------------------------------------------
(* Lookups one after another.  While none overlaps another and none has    *)
(* failed, between two lookups there is nothing in the channels, and a     *)
(* lookup that receives finds its own frame there or nothing.  If it takes *)
(* the frame in pieces it never returns.                                   *)

Quiet == \A c \in Lookups : stream[c] = <<>> /\ pending[c] = {}

Waiting(l) ==
  /\ at[l] \in {None, socketChannel}
  /\ \A c \in Lookups \ {socketChannel} : stream[c] = <<>> /\ pending[c] = {}
  /\ socketChannel \in Lookups /\ pending[socketChannel] \subseteq {l}
  /\ \/ stream[socketChannel] = <<>>
     \/ stream[socketChannel] = Frame(l) /\ pending[socketChannel] = {}

Receiving(l) ==
  /\ len[l] = BodyLen /\ position[l] >= HeaderLen
  /\ \/ Quiet /\ buffer[l] = Frame(l)
     \/ Len(buffer[l]) < HeaderLen + BodyLen

Listening(l) == pc[l] \in {"first", "rest"}

Clean ==
  /\ (\A l \in Lookups : ~Listening(l)) => Quiet
  /\ \A l \in Lookups :
       /\ pc[l] = "first" => Waiting(l)
       /\ pc[l] = "rest" => Receiving(l)
       /\ ~Listening(l) => at[l] = None
       /\ pc[l] = "answered" => answer[l] = Body(l)

NoneFailed == \A l \in Lookups : pc[l] # "failed"

\* Before and after a step of one lookup among lookups that do not overlap.
OneMoves(l) ==
  /\ LoopInv /\ Clean /\ NoneFailed /\ NoneFailed'
  /\ OneAtATime /\ OneAtATime'
  /\ \A m \in Lookups \ {l} : pc'[m] = pc[m] /\ at'[m] = at[m] /\ answer'[m] = answer[m]

\* The other lookups have not begun or have their answers.
LEMMA OthersRest ==
  ASSUME NEW l \in Lookups, OneMoves(l), InUse(l) \/ InUse(l)'
  PROVE  \A m \in Lookups \ {l} : pc[m] \in {"idle", "answered"} /\ ~Listening(m)
<1> SUFFICES ASSUME NEW m \in Lookups, m # l
             PROVE  pc[m] \in {"idle", "answered"} /\ ~Listening(m)
  OBVIOUS
<1>1. ~InUse(m)
  <2>1. CASE InUse(l)
    BY <2>1 DEF OneMoves, OneAtATime
  <2>2. CASE InUse(l)'
    <3>1. ~InUse(m)'
      BY <2>2 DEF OneMoves, OneAtATime
    <3> QED
      BY <3>1 DEF OneMoves, InUse
  <2> QED
    BY <2>1, <2>2
<1> QED
  BY <1>1 DEF InUse, OneMoves, NoneFailed, Done, Listening

\* What is left to show of a step of l.
LEMMA CleanBy ==
  ASSUME NEW l \in Lookups, OneMoves(l), InUse(l) \/ InUse(l)',
         ~Listening(l)' => Quiet' /\ at'[l] = None,
         pc'[l] = "first" => Waiting(l)',
         pc'[l] = "rest" => Receiving(l)',
         pc'[l] = "answered" => answer'[l] = Body(l)
  PROVE  Clean'
<1>1. \A m \in Lookups \ {l} :
        /\ pc'[m] \in {"idle", "answered"} /\ at'[m] = None
        /\ pc'[m] = "answered" => answer'[m] = Body(m)
  BY OthersRest DEF OneMoves, Clean
<1>2. \A m \in Lookups : pc'[m] = "answered" => answer'[m] = Body(m)
  BY <1>1
<1>3. \A m \in Lookups : (~Listening(m) => at[m] = None)'
  BY <1>1
<1>4. \A m \in Lookups : (pc[m] = "first" => Waiting(m))'
  BY <1>1
<1>5. \A m \in Lookups : (pc[m] = "rest" => Receiving(m))'
  BY <1>1
<1>6. ((\A m \in Lookups : ~Listening(m)) => Quiet)'
  OBVIOUS
<1> QED
  BY <1>2, <1>3, <1>4, <1>5, <1>6 DEF Clean

LEMMA QuietBefore ==
  ASSUME NEW l \in Lookups, OneMoves(l), InUse(l) \/ InUse(l)', ~Listening(l)
  PROVE  Quiet /\ at[l] = None
BY OthersRest DEF OneMoves, Clean

\* The whole frame and its parts.
LEMMA FrameParts ==
  ASSUME NEW q \in Lookups
  PROVE  /\ Frame(q) \in Seq(Bytes) /\ Len(Frame(q)) = HeaderLen + BodyLen
         /\ SubSeq(Frame(q), 1, HeaderLen + BodyLen) = Frame(q)
         /\ SubSeq(Frame(q), HeaderLen + 1, HeaderLen + BodyLen) = Body(q)
         /\ SubSeq(Frame(q), HeaderLen + BodyLen + 1, HeaderLen + BodyLen) = <<>>
         /\ \A n \in 2 .. HeaderLen + BodyLen :
              SubSeq(SubSeq(Frame(q), 1, n), 1, HeaderLen) = SubSeq(Frame(q), 1, HeaderLen)
<1> DEFINE f == Frame(q)
           n == HeaderLen + BodyLen
<1>1. f \in Seq(Bytes) /\ n \in Nat
  BY FrameType
<1>2. DOMAIN f = 1..n /\ \A i \in 1..n : f[i] = <<q, i>>
  BY DEF Frame
<1>3. Len(f) = n
  BY <1>1, <1>2, LenProperties
<1>4. \A i \in 1..n : f[i] \in Bytes
  BY <1>1, <1>3, ElementOfSeq
<1>5. SubSeq(f, 1, n) = f
  BY <1>1, <1>3, SubSeqFull
<1>6. SubSeq(f, n + 1, n) = <<>>
  BY <1>1, SubSeqEmpty
<1>7. SubSeq(f, HeaderLen + 1, n) = Body(q)
  <2> DEFINE b == SubSeq(f, HeaderLen + 1, n)
  <2>1. /\ b \in Seq(Bytes) /\ Len(b) = BodyLen
        /\ \A i \in 1..BodyLen : b[i] = f[HeaderLen + i]
    <3>1. HeaderLen + 1 \in Int /\ n \in Int /\ HeaderLen + 1 <= n
          /\ n - (HeaderLen + 1) + 1 = BodyLen
      BY <1>1
    <3>2. \A i \in HeaderLen + 1 .. n : f[i] \in Bytes
      BY <1>4
    <3>3. /\ b \in Seq(Bytes) /\ Len(b) = n - (HeaderLen + 1) + 1
          /\ \A i \in 1 .. n - (HeaderLen + 1) + 1 : b[i] = f[HeaderLen + 1 + i - 1]
      BY <3>1, <3>2, SubSeqProperties
    <3>4. \A i \in 1..BodyLen : HeaderLen + 1 + i - 1 = HeaderLen + i
      OBVIOUS
    <3> QED
      BY <3>1, <3>3, <3>4
  <2> HIDE DEF b, f
  <2>2. \A i \in 1..BodyLen : b[i] = <<q, HeaderLen + i>>
    BY <1>2, <2>1
  <2>3. Body(q) \in Seq(Bytes) /\ Len(Body(q)) = BodyLen
    <3>1. Body(q) \in [1..BodyLen -> Bytes]
      BY DEF Body, Bytes
    <3>2. Body(q) \in Seq(Bytes)
      BY <3>1
    <3> QED
      BY <3>1, <3>2, LenProperties
  <2>4. \A i \in 1..BodyLen : Body(q)[i] = <<q, HeaderLen + i>>
    BY DEF Body
  <2> QED
    <3>1. \A i \in 1..Len(b) : b[i] = Body(q)[i]
      BY <2>1, <2>2, <2>4
    <3>2. b = Body(q)
      BY <2>1, <2>3, <3>1, SeqEqual
    <3> QED
      BY <3>2 DEF b
<1>8. ASSUME NEW k \in 2..n
      PROVE  SubSeq(SubSeq(f, 1, k), 1, HeaderLen) = SubSeq(f, 1, HeaderLen)
  <2>1. /\ 1 \in 1..Len(f) /\ k \in 1..Len(f)
        /\ 1 \in 1 .. k - 1 + 1 /\ HeaderLen \in 1 .. k - 1 + 1
        /\ 1 + 1 - 1 = 1 /\ 1 + HeaderLen - 1 = HeaderLen
    BY <1>3
  <2> HIDE DEF f
  <2>2. SubSeq(SubSeq(f, 1, k), 1, HeaderLen) = SubSeq(f, 1 + 1 - 1, 1 + HeaderLen - 1)
    BY <1>1, <2>1, SubSeqOfSubSeq
  <2> QED
    BY <2>1, <2>2
<1> QED
  BY <1>1, <1>3, <1>5, <1>6, <1>7, <1>8

LEMMA ConnectClean ==
  ASSUME NEW l \in Lookups, OneMoves(l), Start(l) \/ Open(l) \/ Connect(l)
  PROVE  Clean'
<1>1. /\ UNCHANGED <<stream, pending, at>> /\ ~Listening(l)
      /\ pc'[l] \notin {"idle", "first", "rest", "answered"}
  <2>1. UNCHANGED <<stream, pending, at>> /\ ~Listening(l)
    BY DEF Start, Open, Connect, conn, Listening
  <2>2. \E place \in {"write", "open", "connect", "failed"} : pc' = [pc EXCEPT ![l] = place]
    BY DEF Start, Open, Connect, Goto
  <2> QED
    BY <2>1, <2>2 DEF OneMoves, LoopInv, TypeOK
<1>2. InUse(l)'
  BY <1>1 DEF OneMoves, NoneFailed, InUse, Done
<1>3. Quiet /\ at[l] = None
  BY <1>1, <1>2, QuietBefore
<1>4. Quiet'
  BY <1>1, <1>3 DEF Quiet
<1> QED
  BY <1>1, <1>2, <1>3, <1>4, CleanBy DEF Listening

LEMMA WriteClean ==
  ASSUME NEW l \in Lookups, OneMoves(l), Write(l), socketChannel \in Lookups
  PROVE  Clean'
<1>1. InUse(l) /\ ~Listening(l) /\ UNCHANGED <<stream, at, socketChannel>>
  BY DEF Write, InUse, Done, Listening
<1>2. Quiet /\ at[l] = None
  BY <1>1, QuietBefore
<1>3. pc'[l] = "first"
  <2>1. \E place \in {"first", "failed"} : pc' = [pc EXCEPT ![l] = place]
    BY DEF Write, Goto
  <2> QED
    BY <2>1 DEF OneMoves, NoneFailed, LoopInv, TypeOK
<1>4. pending \in [Lookups -> SUBSET Lookups]
  BY DEF OneMoves, LoopInv, TypeOK
<1>5. \/ pending' = [pending EXCEPT ![socketChannel] = @ \cup {l}]
      \/ UNCHANGED pending
  BY DEF Write
<1>6. /\ \A c \in Lookups \ {socketChannel} : pending'[c] = {}
      /\ pending'[socketChannel] \subseteq {l}
  BY <1>2, <1>4, <1>5 DEF Quiet
<1>7. Waiting(l)'
  BY <1>1, <1>2, <1>6 DEF Waiting, Quiet
<1> QED
  BY <1>1, <1>3, <1>7, CleanBy DEF Listening

\* The steps of the loop that take nothing.
LEMMA NothingReadClean ==
  ASSUME NEW l \in Lookups, OneMoves(l), socketChannel \in Lookups,
         BeginRead(l) \/ ReadNothing(l) \/ ReadEnd(l)
  PROVE  Clean'
<1>1. /\ UNCHANGED <<stream, pending, socketChannel>> /\ Listening(l)
      /\ at' = [at EXCEPT ![l] = socketChannel] \/ at' = [at EXCEPT ![l] = None] \/ UNCHANGED at
  BY DEF BeginRead, ReadNothing, ReadEnd, conn, Listening
<1>2. UNCHANGED <<pc, buffer, position, len>>
  <2>1. Leave(l, "failed") \/ UNCHANGED <<pc, buffer, position, len>>
    BY DEF BeginRead, ReadNothing, ReadEnd, local
  <2>2. ~Leave(l, "failed")
    BY DEF Leave, Goto, OneMoves, NoneFailed, LoopInv, TypeOK
  <2> QED
    BY <2>1, <2>2
<1>3. InUse(l)
  BY <1>1 DEF InUse, Done, Listening
<1>4. pc[l] = "first" => Waiting(l)'
  <2>1. pc[l] = "first" => at'[l] \in {None, socketChannel}
    BY <1>1 DEF OneMoves, Clean, Waiting, LoopInv, TypeOK
  <2> QED
    BY <1>1, <2>1 DEF OneMoves, Clean, Waiting
<1>5. pc[l] = "rest" => Receiving(l)'
  BY <1>1, <1>2 DEF OneMoves, Clean, Receiving, Quiet
<1> QED
  BY <1>1, <1>2, <1>3, <1>4, <1>5, CleanBy DEF Listening

LEMMA ReadFirstClean ==
  ASSUME NEW l \in Lookups, OneMoves(l), at[l] # None,
         NEW n \in 1..Len(stream[at[l]]), ReadFirst(l, n)
  PROVE  Clean'
<1> DEFINE c == socketChannel
           f == Frame(l)
           got == SubSeq(f, 1, n)
<1>1. /\ pc[l] = "first" /\ InUse(l) /\ UNCHANGED <<socketChannel, pending>>
      /\ stream \in [Lookups -> Seq(Bytes)]
  BY DEF ReadFirst, InUse, Done, OneMoves, LoopInv, TypeOK
<1>2. Waiting(l) /\ at[l] = c /\ c \in Lookups
  BY <1>1 DEF OneMoves, Clean, Waiting
<1>3. stream[c] # <<>>
  BY <1>2, EmptySeq
<1>4. /\ stream[c] = f /\ \A d \in Lookups : pending[d] = {}
      /\ \A d \in Lookups \ {c} : stream[d] = <<>>
  BY <1>2, <1>3 DEF Waiting
<1>5. /\ f \in Seq(Bytes) /\ Len(f) = HeaderLen + BodyLen /\ n \in 1 .. HeaderLen + BodyLen
      /\ n \in Nat
  BY <1>2, <1>4, FrameParts
<1>6. ~(n < HeaderLen)
  <2>1. CASE n < HeaderLen
    <3>1. pc' = [pc EXCEPT ![l] = "failed"]
      BY <2>1 DEF ReadFirst, Goto
    <3> QED
      BY <3>1 DEF OneMoves, NoneFailed, LoopInv, TypeOK
  <2> QED
    BY <2>1
<1>7. LengthField(got) = {BodyLen}
  <2>1. n \in 2 .. HeaderLen + BodyLen
    BY <1>5, <1>6
  <2>2. SubSeq(got, 1, HeaderLen) = SubSeq(f, 1, HeaderLen)
    BY <2>1, FrameParts
  <2> HIDE DEF got
  <2> QED
    BY <2>2 DEF LengthField
<1>8. /\ len' = [len EXCEPT ![l] = BodyLen]
      /\ buffer' = [buffer EXCEPT ![l] = got]
      /\ position' = [position EXCEPT ![l] = HeaderLen]
      /\ pc' = [pc EXCEPT ![l] = "rest"]
      /\ stream' = [stream EXCEPT ![c] = SubSeq(f, n + 1, Len(f))]
  <2>1. SubSeq(stream[at[l]], 1, n) = got
    BY <1>2, <1>4
  <2>2. \E field \in LengthField(got) : len' = [len EXCEPT ![l] = field]
    BY <1>6, <2>1 DEF ReadFirst
  <2>3. /\ buffer' = [buffer EXCEPT ![l] = got]
        /\ position' = [position EXCEPT ![l] = HeaderLen]
        /\ pc' = [pc EXCEPT ![l] = "rest"]
    BY <1>6, <2>1 DEF ReadFirst, Goto
  <2>4. stream' = [stream EXCEPT ![c] = SubSeq(f, n + 1, Len(f))]
    <3>1. Take(l, n)
      BY DEF ReadFirst
    <3> QED
      BY <1>2, <1>4, <3>1 DEF Take
  <2> QED
    BY <1>7, <2>2, <2>3, <2>4
<1> HIDE DEF got, c, f
<1>9. pc'[l] = "rest" /\ len'[l] = BodyLen /\ buffer'[l] = got /\ position'[l] = HeaderLen
  BY <1>8 DEF OneMoves, LoopInv, TypeOK
<1>10. Receiving(l)'
  <2>1. CASE n = HeaderLen + BodyLen
    <3>1. got = f /\ SubSeq(f, n + 1, Len(f)) = <<>>
      BY <1>5, <2>1, FrameParts DEF got, f
    <3>2. \A d \in Lookups : stream'[d] = <<>>
      BY <1>1, <1>2, <1>4, <1>8, <3>1
    <3>3. Quiet'
      BY <1>1, <1>4, <3>2 DEF Quiet
    <3> QED
      BY <1>9, <3>1, <3>3 DEF Receiving, f
  <2>2. CASE n # HeaderLen + BodyLen
    <3>1. Len(got) = n
      BY <1>5, PartOfSeq DEF got
    <3>2. Len(buffer'[l]) < HeaderLen + BodyLen
      BY <1>5, <1>9, <2>2, <3>1
    <3> QED
      BY <1>9, <3>2 DEF Receiving
  <2> QED
    BY <2>1, <2>2
<1> QED
  BY <1>1, <1>9, <1>10, CleanBy DEF Listening

LEMMA ReadRestClean ==
  ASSUME NEW l \in Lookups, OneMoves(l), at[l] # None,
         NEW n \in 1..Len(stream[at[l]]), ReadRest(l, n)
  PROVE  Clean'
<1>1. /\ pc[l] = "rest" /\ InUse(l) /\ UNCHANGED <<pc, len>>
      /\ buffer[l] \in Seq(Bytes) /\ stream[at[l]] \in Seq(Bytes) /\ position[l] \in Nat
  BY DEF ReadRest, InUse, Done, OneMoves, LoopInv, TypeOK
<1>2. Receiving(l) /\ Len(buffer[l]) < HeaderLen + BodyLen
  BY <1>1 DEF OneMoves, Clean, Receiving, LoopInv, LoopOK
<1>3. /\ buffer'[l] = Overwritten(buffer[l], stream[at[l]], position[l], n)
      /\ position'[l] = position[l] + n
  BY DEF ReadRest, OneMoves, LoopInv, TypeOK
<1>4. Len(buffer'[l]) = Len(buffer[l])
  BY <1>1, <1>3, OverwrittenType
<1>5. position'[l] >= HeaderLen
  <2>1. n \in Nat
    BY <1>1, LenProperties
  <2> QED
    BY <1>1, <1>2, <1>3, <2>1 DEF Receiving
<1>6. Receiving(l)'
  BY <1>1, <1>2, <1>4, <1>5 DEF Receiving
<1> QED
  BY <1>1, <1>6, CleanBy DEF Listening

\* A lookup that returns has the whole frame, in a buffer it has read at once.
LEMMA ReturnClean ==
  ASSUME NEW l \in Lookups, OneMoves(l), Return(l)
  PROVE  Clean'
<1>1. /\ pc[l] = "rest" /\ InUse(l) /\ Receiving(l) /\ UNCHANGED <<conn, at>>
      /\ position[l] \in Nat /\ Len(buffer[l]) \in Nat
  BY LenProperties DEF Return, InUse, Done, OneMoves, Clean, LoopInv, TypeOK
<1>2. /\ Len(buffer[l]) - position[l] >= len[l] /\ Leave(l, "answered")
      /\ answer' = [answer EXCEPT ![l] = Message(l)]
  <2>1. ~Leave(l, "failed")
    BY DEF Leave, Goto, OneMoves, NoneFailed, LoopInv, TypeOK
  <2> QED
    BY <2>1 DEF Return
<1>3. Quiet /\ buffer[l] = Frame(l)
  BY <1>1, <1>2 DEF Receiving
<1>4. position[l] = HeaderLen
  <2>1. Len(buffer[l]) = HeaderLen + BodyLen
    BY <1>3, FrameParts
  <2>2. ~(position[l] > HeaderLen)
    BY <1>1, <2>1 DEF OneMoves, LoopInv, LoopOK, Receiving
  <2> QED
    BY <1>1, <2>2 DEF Receiving
<1>5. Message(l) = Body(l)
  BY <1>1, <1>3, <1>4, FrameParts DEF Message, Receiving
<1>6. at[l] = None
  <2>1. Len(buffer[l]) = HeaderLen + BodyLen
    BY <1>3, FrameParts
  <2> QED
    BY <1>1, <2>1 DEF OneMoves, LoopInv, LoopOK, Receiving
<1>7. pc'[l] = "answered" /\ answer'[l] = Body(l)
  BY <1>2, <1>5 DEF Leave, Goto, OneMoves, LoopInv, TypeOK
<1>8. Quiet'
  BY <1>1, <1>3 DEF Quiet, conn
<1> QED
  BY <1>1, <1>6, <1>7, <1>8, CleanBy DEF Listening

\* The upstream server replies to the lookup that waits, if to any.
LEMMA ServerClean ==
  ASSUME LoopInv, Clean, NoneFailed, OneAtATime,
         NEW c \in Lookups, NEW q \in Lookups, Reply(c, q) \/ PeerCloses(c)
  PROVE  Clean'
<1>1. UNCHANGED <<socketChannel, pc, at, buffer, position, len, answer>>
  BY DEF Reply, PeerCloses, local
<1>2. /\ pending \in [Lookups -> SUBSET Lookups] /\ stream \in [Lookups -> Seq(Bytes)]
  BY DEF LoopInv, TypeOK
<1>3. \A d \in Lookups : pending'[d] \subseteq pending[d]
  BY <1>2 DEF Reply, PeerCloses
<1>4. Quiet => Quiet'
  <2>1. CASE Reply(c, q)
    BY <2>1 DEF Reply, Quiet
  <2>2. CASE PeerCloses(c)
    BY <1>3, <2>2 DEF PeerCloses, Quiet
  <2> QED
    BY <2>1, <2>2
<1>5. ASSUME NEW l \in Lookups, pc[l] = "first" PROVE Waiting(l)'
  <2>1. Waiting(l)
    BY <1>5 DEF Clean
  <2>2. CASE PeerCloses(c)
    <3>1. UNCHANGED stream
      BY <2>2 DEF PeerCloses
    <3> QED
      BY <1>1, <1>3, <2>1, <3>1 DEF Waiting
  <2>3. CASE Reply(c, q)
    <3>1. q \in pending[c] /\ pending' = [pending EXCEPT ![c] = @ \ {q}]
      BY <2>3 DEF Reply
    <3>2. c = socketChannel /\ q = l /\ stream[c] = <<>> /\ pending[c] = {l}
      BY <2>1, <3>1 DEF Waiting
    <3>3. stream' = [stream EXCEPT ![c] = Frame(l)]
      <4>1. <<>> \o Frame(l) = Frame(l)
        BY FrameType, ConcatEmptySeq
      <4> QED
        BY <2>3, <3>2, <4>1 DEF Reply
    <3>4. /\ stream'[c] = Frame(l) /\ pending'[c] = {}
          /\ \A d \in Lookups \ {c} : stream'[d] = stream[d] /\ pending'[d] = pending[d]
      BY <1>2, <3>1, <3>2, <3>3
    <3> QED
      BY <1>1, <2>1, <3>2, <3>4 DEF Waiting
  <2> QED
    BY <2>2, <2>3
<1>6. ASSUME NEW l \in Lookups, pc[l] = "rest" PROVE Receiving(l)'
  BY <1>1, <1>4, <1>6 DEF Clean, Receiving
<1> QED
  BY <1>1, <1>4, <1>5, <1>6 DEF Clean, Listening

\* A step of a lookup is nobody else's, and who has returned takes none.
LEMMA OneLookupMoves ==
  ASSUME TypeOK, NEW l \in Lookups, Start(l) \/ Step(l)
  PROVE  /\ pc[l] \notin Done
         /\ \A m \in Lookups \ {l} : pc'[m] = pc[m] /\ at'[m] = at[m] /\ answer'[m] = answer[m]
<1>1. \E place \in Pcs : pc' = [pc EXCEPT ![l] = place] \/ UNCHANGED pc
  BY DEF Start, Step, Open, Connect, Write, BeginRead, ReadNothing, ReadEnd, Return,
         ReadFirst, ReadRest, Leave, Goto, local, Pcs, Done
<1>2. \E c \in Lookups \cup {None} : at' = [at EXCEPT ![l] = c] \/ UNCHANGED at
  BY DEF Start, Step, Open, Connect, Write, BeginRead, ReadNothing, ReadEnd, Return,
         ReadFirst, ReadRest, TypeOK
<1>3. \E a : answer' = [answer EXCEPT ![l] = a] \/ UNCHANGED answer
  BY DEF Start, Step, Open, Connect, Write, BeginRead, ReadNothing, ReadEnd, Return,
         ReadFirst, ReadRest
<1>4. pc[l] \notin Done
  BY DEF Start, Step, Open, Connect, Write, BeginRead, ReadNothing, ReadEnd, Return,
         ReadFirst, ReadRest, Done
<1> QED
  BY <1>1, <1>2, <1>3, <1>4 DEF TypeOK

\* Who has begun to connect has set the field.
FieldInv == \A l \in Lookups : pc[l] \notin {"idle", "open"} => socketChannel # None

LEMMA FieldStep == TypeOK /\ FieldInv /\ [Next]_vars => FieldInv'
<1> SUFFICES ASSUME TypeOK, FieldInv, [Next]_vars PROVE FieldInv'
  OBVIOUS
<1>1. CASE UNCHANGED <<socketChannel, pc>>
  BY <1>1 DEF FieldInv
<1>2. ASSUME NEW l \in Lookups, Start(l) \/ Step(l) PROVE FieldInv'
  <2>1. \A m \in Lookups \ {l} : pc'[m] = pc[m]
    BY <1>2, OneLookupMoves
  <2>2. CASE Start(l)
    <3>1. UNCHANGED socketChannel /\ (pc'[l] \notin {"idle", "open"} => socketChannel # None)
      BY <2>2 DEF Start, Goto, isOpenTCPConnection, conn, TypeOK
    <3> QED
      BY <2>1, <3>1 DEF FieldInv
  <2>3. CASE Open(l)
    BY <2>3 DEF Open, FieldInv
  <2>4. CASE Step(l) /\ ~Open(l)
    <3>1. UNCHANGED socketChannel /\ pc[l] \notin {"idle", "open"}
      BY <2>4 DEF Step, Connect, Write, BeginRead, ReadNothing, ReadEnd, Return,
                  ReadFirst, ReadRest, conn
    <3> QED
      BY <2>1, <3>1 DEF FieldInv
  <2> QED
    BY <1>2, <2>2, <2>3, <2>4
<1> QED
  BY <1>1, <1>2 DEF Next, vars, Reply, PeerCloses

SeqInv == LoopInv /\ FieldInv /\ (Clean \/ ~NoneFailed)

LEMMA SeqInit == Init => SeqInv
<1> SUFFICES ASSUME Init PROVE SeqInv
  OBVIOUS
<1>1. FieldInv
  BY DEF Init, FieldInv
<1>2. Clean
  BY DEF Init, Clean, Quiet, Listening
<1> QED
  BY <1>1, <1>2, LoopInit DEF SeqInv

LEMMA SeqStep == SeqInv /\ OneAtATime /\ OneAtATime' /\ [Next]_vars => SeqInv'
<1> SUFFICES ASSUME SeqInv, OneAtATime, OneAtATime', [Next]_vars PROVE SeqInv'
  OBVIOUS
<1>1. LoopInv' /\ FieldInv' /\ TypeOK
  BY LoopStep, FieldStep DEF SeqInv, LoopInv
<1>2. CASE UNCHANGED vars
  <2>1. (Clean => Clean') /\ (NoneFailed' => NoneFailed)
    BY <1>2 DEF vars, Clean, NoneFailed, Listening, Quiet, Waiting, Receiving
  <2> QED
    BY <1>1, <2>1 DEF SeqInv
<1>3. ASSUME NEW l \in Lookups, Start(l) \/ Step(l) PROVE SeqInv'
  <2>1. /\ pc[l] \notin Done
        /\ \A m \in Lookups \ {l} : pc'[m] = pc[m] /\ at'[m] = at[m] /\ answer'[m] = answer[m]
    BY <1>1, <1>3, OneLookupMoves
  <2>2. NoneFailed' => NoneFailed
    BY <2>1 DEF NoneFailed, Done
  <2>3. ASSUME NoneFailed' PROVE Clean'
    <3>1. OneMoves(l)
      BY <2>1, <2>2, <2>3 DEF OneMoves, SeqInv
    <3>2. pc[l] \notin {"idle", "open"} => socketChannel \in Lookups
      BY <1>1 DEF SeqInv, FieldInv, TypeOK
    <3>3. CASE Start(l) \/ Open(l) \/ Connect(l)
      BY <3>1, <3>3, ConnectClean
    <3>4. CASE Write(l)
      BY <3>1, <3>2, <3>4, WriteClean DEF Write
    <3>5. CASE BeginRead(l) \/ ReadNothing(l) \/ ReadEnd(l)
      BY <3>1, <3>2, <3>5, NothingReadClean DEF BeginRead, ReadNothing, ReadEnd
    <3>6. CASE at[l] # None /\ \E n \in 1..Len(stream[at[l]]) :
                 ReadFirst(l, n) \/ ReadRest(l, n)
      BY <3>1, <3>6, ReadFirstClean, ReadRestClean
    <3>7. CASE Return(l)
      BY <3>1, <3>7, ReturnClean
    <3> QED
      BY <1>3, <3>3, <3>4, <3>5, <3>6, <3>7 DEF Step
  <2> QED
    BY <1>1, <2>3 DEF SeqInv
<1>4. ASSUME NEW c \in Lookups, NEW q \in Lookups, Reply(c, q) \/ PeerCloses(c) PROVE SeqInv'
  <2>1. NoneFailed' => NoneFailed
    BY <1>4 DEF NoneFailed, Reply, PeerCloses
  <2>2. NoneFailed' => Clean'
    BY <1>4, <2>1, ServerClean DEF SeqInv
  <2> QED
    BY <1>1, <2>2 DEF SeqInv
<1> QED
  BY <1>2, <1>3, <1>4 DEF Next

\* While the transporter is used by one lookup at a time and none has failed,
\* every lookup that returns gets the reply to its own query.
THEOREM SequentialOwn == Spec => SequentialAnswersAreOwn
<1> DEFINE Own == \/ \A l \in Lookups : pc[l] = "answered" => answer[l] = Body(l)
                  \/ \E l \in Lookups : pc[l] = "failed"
<1>1. SeqInv => Own
  BY DEF SeqInv, Clean, NoneFailed
<1>2. SeqInv /\ OneAtATime /\ OneAtATime' /\ [Next]_vars => SeqInv'
  BY SeqStep
<1>3. Spec /\ []OneAtATime => []SeqInv
  BY <1>2, SeqInit, PTL DEF Spec
<1>4. Spec /\ []OneAtATime => []Own
  BY <1>1, <1>3, PTL
<1> QED
  BY <1>4 DEF SequentialAnswersAreOwn
=============================================================================
