-------------------------- MODULE ForwardingProofs --------------------------
(***************************************************************************)
(* Proofs about Forwarding, for any set of connections, any loads, any     *)
(* capacity of the channels and any number of messages and receipts.       *)
(***************************************************************************)
EXTENDS Forwarding, SequenceTheorems, TLAPS

\* A sendChan s, with got the last messages its client has read: no two
\* messages of one sender are out of order.
Ordered(s, got) ==
    \A i \in 1 .. Len(s) : s[i].n # 0 =>
        /\ s[i].n > got[s[i].from]
        /\ \A j \in 1 .. i - 1 : s[j].from = s[i].from => s[j].n < s[i].n

\* Every message of c that got there is older than message k.
Behind(s, got, c, k) ==
    got[c] < k /\ \A i \in 1 .. Len(s) : s[i].from = c => s[i].n < k

\* The calls that send to others.
Broadcasting == {"broadcast", "sending", "directing"}

\* The custom message that c is busy with has still to reach d.
OnItsWay(c, d) ==
    /\ number[c] # 0
    /\ Call(c) = "broadcast" \/ (Call(c) \in {"sending", "directing"} /\ d \in todo[c])

\* A handler is busy with its latest custom message or with none.
NumberInv == \A c \in Conns : number[c] = 0 \/ (number[c] = sent[c] /\ Call(c) \in Broadcasting)

OrderInv ==
    /\ NumberInv
    /\ \A d \in Conns : Ordered(sendChan[d], lastGot[d])
    /\ \A c, d \in Conns : Behind(sendChan[d], lastGot[d], c, sent[c] + 1)
    /\ \A c, d \in Conns : OnItsWay(c, d) => Behind(sendChan[d], lastGot[d], c, sent[c])

\* Whoever holds subscriptionMutex is broadcasting or about to unlock it.
LockInv ==
    \A c \in notifying :
        \/ Call(c) = "endNotify"
        \/ Call(c) \in Broadcasting /\ Len(calls[c]) > 1 /\ calls[c][2] = "endNotify"

-----------------------------------------------------------------------------
(* Channels as sequences.                                                  *)

LEMMA AppendAt ==
    ASSUME NEW S, NEW s \in Seq(S), NEW x \in S
    PROVE  /\ Append(s, x) \in Seq(S) /\ Len(s) \in Nat /\ Len(Append(s, x)) = Len(s) + 1
           /\ \A i \in 1 .. Len(s) : Append(s, x)[i] = s[i] /\ s[i] \in S
           /\ Append(s, x)[Len(s) + 1] = x
BY AppendProperties

LEMMA TailAt ==
    ASSUME NEW S, NEW s \in Seq(S), s # <<>>
    PROVE  /\ Tail(s) \in Seq(S) /\ Len(s) \in Nat \ {0} /\ Len(Tail(s)) = Len(s) - 1
           /\ \A i \in 1 .. Len(s) - 1 : Tail(s)[i] = s[i + 1]
           /\ \A i \in 1 .. Len(s) : s[i] \in S
           /\ Head(s) = s[1] /\ Head(s) \in S
OBVIOUS

LEMMA HeadAt ==
    ASSUME NEW S, NEW s \in Seq(S), Len(s) > 0
    PROVE  s # <<>> /\ Head(s) = s[1]
OBVIOUS

LEMMA ExceptHead ==
    ASSUME NEW S, NEW s \in Seq(S), s # <<>>, NEW x \in S
    PROVE  /\ [s EXCEPT ![1] = x] \in Seq(S) /\ Len([s EXCEPT ![1] = x]) = Len(s)
           /\ [s EXCEPT ![1] = x] # <<>> /\ Head([s EXCEPT ![1] = x]) = x
           /\ Len(s) > 1 => [s EXCEPT ![1] = x][2] = s[2]
OBVIOUS

LEMMA MessageFields == \A msg \in Messages : msg.from \in Conns /\ msg.n \in Nat
BY DEF Messages

LEMMA AppendBehind ==
    ASSUME NEW s \in Seq(Messages), NEW got, NEW msg \in Messages, NEW c, NEW k \in Nat,
           Behind(s, got, c, k), msg.from = c => msg.n < k
    PROVE  Behind(Append(s, msg), got, c, k)
<1>1. /\ Len(s) \in Nat /\ Len(Append(s, msg)) = Len(s) + 1
      /\ \A i \in 1 .. Len(s) : Append(s, msg)[i] = s[i]
      /\ Append(s, msg)[Len(s) + 1] = msg
  BY AppendAt
<1>. QED  BY <1>1 DEF Behind

LEMMA AppendOrdered ==
    ASSUME NEW s \in Seq(Messages), NEW got, NEW msg \in Messages,
           Ordered(s, got), msg.n = 0 \/ Behind(s, got, msg.from, msg.n)
    PROVE  Ordered(Append(s, msg), got)
<1>1. /\ Len(s) \in Nat /\ Len(Append(s, msg)) = Len(s) + 1
      /\ \A i \in 1 .. Len(s) : Append(s, msg)[i] = s[i]
      /\ Append(s, msg)[Len(s) + 1] = msg
  BY AppendAt
<1>2. ASSUME NEW i \in 1 .. Len(s), s[i].n # 0
      PROVE  /\ s[i].n > got[s[i].from]
             /\ \A j \in 1 .. i - 1 : Append(s, msg)[j].from = s[i].from => Append(s, msg)[j].n < s[i].n
  BY <1>1, <1>2 DEF Ordered
<1>3. ASSUME msg.n # 0
      PROVE  /\ msg.n > got[msg.from]
             /\ \A j \in 1 .. Len(s) : Append(s, msg)[j].from = msg.from => Append(s, msg)[j].n < msg.n
  BY <1>1, <1>3 DEF Behind
<1>4. ASSUME NEW i \in 1 .. Len(Append(s, msg)), Append(s, msg)[i].n # 0
      PROVE  /\ Append(s, msg)[i].n > got[Append(s, msg)[i].from]
             /\ \A j \in 1 .. i - 1 : Append(s, msg)[j].from = Append(s, msg)[i].from
                                      => Append(s, msg)[j].n < Append(s, msg)[i].n
  <2>1. CASE i = Len(s) + 1
    <3>1. Append(s, msg)[i] = msg /\ i - 1 = Len(s)
      BY <1>1, <2>1
    <3>. QED  BY <1>3, <1>4, <3>1
  <2>2. CASE i \in 1 .. Len(s)
    <3>1. Append(s, msg)[i] = s[i]
      BY <1>1, <2>2
    <3>. QED  BY <1>2, <1>4, <2>2, <3>1
  <2>. QED  BY <1>1, <2>1, <2>2
<1>. QED  BY <1>4 DEF Ordered

\* The client reads the first message.
After(s, got) == IF Head(s).n = 0 THEN got ELSE [got EXCEPT ![Head(s).from] = Head(s).n]

LEMMA TailBehind ==
    ASSUME NEW s \in Seq(Messages), s # <<>>, NEW got \in [Conns -> Nat], NEW c \in Conns, NEW k \in Nat,
           Behind(s, got, c, k)
    PROVE  Behind(Tail(s), After(s, got), c, k)
<1>1. /\ Len(s) \in Nat \ {0} /\ Len(Tail(s)) = Len(s) - 1
      /\ \A i \in 1 .. Len(s) - 1 : Tail(s)[i] = s[i + 1]
      /\ Head(s) = s[1] /\ Head(s).from \in Conns /\ Head(s).n \in Nat
  BY TailAt, MessageFields
<1>2. \A i \in 1 .. Len(s) : s[i].from = c => s[i].n < k
  BY DEF Behind
<1>3. After(s, got)[c] < k
  <2>1. Head(s).from = c => Head(s).n < k
    BY <1>1, <1>2
  <2>. QED  BY <1>1, <2>1 DEF After, Behind
<1>4. \A i \in 1 .. Len(s) - 1 : i + 1 \in 1 .. Len(s)
  BY <1>1
<1>. QED  BY <1>1, <1>2, <1>3, <1>4 DEF Behind

LEMMA TailOrdered ==
    ASSUME NEW s \in Seq(Messages), s # <<>>, NEW got \in [Conns -> Nat], Ordered(s, got)
    PROVE  Ordered(Tail(s), After(s, got))
<1>1. /\ Len(s) \in Nat \ {0} /\ Len(Tail(s)) = Len(s) - 1
      /\ \A i \in 1 .. Len(s) - 1 : Tail(s)[i] = s[i + 1]
      /\ Head(s) = s[1] /\ Head(s).from \in Conns /\ Head(s).n \in Nat
      /\ \A i \in 1 .. Len(s) : s[i].from \in Conns /\ s[i].n \in Nat
  BY TailAt, MessageFields
<1>2. ASSUME NEW i \in 1 .. Len(s) - 1, s[i + 1].n # 0
      PROVE  /\ s[i + 1].n > After(s, got)[s[i + 1].from]
             /\ \A j \in 1 .. i - 1 : s[j + 1].from = s[i + 1].from => s[j + 1].n < s[i + 1].n
  <2>1. i + 1 \in 1 .. Len(s) /\ 1 \in 1 .. (i + 1) - 1
    BY <1>1
  <2>2. /\ s[i + 1].n > got[s[i + 1].from]
        /\ \A j \in 1 .. (i + 1) - 1 : s[j].from = s[i + 1].from => s[j].n < s[i + 1].n
    BY <1>2, <2>1 DEF Ordered
  <2>3. \A j \in 1 .. i - 1 : j + 1 \in 1 .. (i + 1) - 1
    OBVIOUS
  <2>4. Head(s).from = s[i + 1].from => Head(s).n < s[i + 1].n
    BY <1>1, <2>1, <2>2
  <2>5. s[i + 1].n > After(s, got)[s[i + 1].from]
    BY <1>1, <2>1, <2>2, <2>4 DEF After
  <2>. QED  BY <2>2, <2>3, <2>5
<1>3. \A i \in 1 .. Len(s) - 1 : \A j \in 1 .. i - 1 : j \in 1 .. Len(s) - 1
  BY <1>1
<1>. QED  BY <1>1, <1>2, <1>3 DEF Ordered

-----------------------------------------------------------------------------
(* The calls of a handler.                                                 *)

LEMMA CallAt ==
    ASSUME TypeOK, NEW c \in Conns
    PROVE  /\ calls[c] \in Seq(Calls)
           /\ IF calls[c] = <<>> THEN Call(c) = "select"
              ELSE Call(c) = calls[c][1] /\ Call(c) \in Calls /\ Call(c) # "select"
<1>1. calls[c] \in Seq(Calls)
  BY DEF TypeOK
<1>2. ASSUME calls[c] # <<>>
      PROVE  Head(calls[c]) = calls[c][1] /\ Head(calls[c]) \in Calls
  BY <1>1, <1>2, TailAt
<1>3. "select" \notin Calls
  BY DEF Calls
<1>. QED  BY <1>1, <1>2, <1>3 DEF Call

\* The calls of the others stay.
OnlyMoves(c) ==
    /\ calls' \in [Conns -> Seq(Calls)]
    /\ \A d \in Conns \ {c} : calls'[d] = calls[d] /\ Call(d)' = Call(d)

LEMMA BeginEffect ==
    ASSUME TypeOK, NEW c \in Conns, NEW script \in Seq(Calls), Begin(c, script)
    PROVE  OnlyMoves(c) /\ calls'[c] = script
BY DEF TypeOK, Begin, OnlyMoves, Call

LEMMA ReturnEffect ==
    ASSUME TypeOK, NEW c \in Conns, Call(c) # "select", Return(c)
    PROVE  OnlyMoves(c) /\ calls'[c] = Tail(calls[c])
<1>1. calls[c] \in Seq(Calls) /\ calls[c] # <<>>
  BY CallAt
<1>2. Tail(calls[c]) \in Seq(Calls)
  BY <1>1, TailAt
<1>. QED  BY <1>2 DEF TypeOK, Return, OnlyMoves, Call

LEMMA BecomeEffect ==
    ASSUME TypeOK, NEW c \in Conns, NEW call \in Calls, Call(c) # "select", Become(c, call)
    PROVE  /\ OnlyMoves(c) /\ Call(c)' = call /\ Len(calls'[c]) = Len(calls[c])
           /\ Len(calls[c]) > 1 => calls'[c][2] = calls[c][2]
<1> DEFINE s == [calls[c] EXCEPT ![1] = call]
<1>1. calls[c] \in Seq(Calls) /\ calls[c] # <<>>
  BY CallAt
<1>2. /\ s \in Seq(Calls) /\ Len(s) = Len(calls[c]) /\ s # <<>> /\ Head(s) = call
      /\ Len(calls[c]) > 1 => s[2] = calls[c][2]
  BY <1>1, ExceptHead
<1>3. calls'[c] = s /\ \A d \in Conns \ {c} : calls'[d] = calls[d]
  BY DEF TypeOK, Become
<1>4. calls' \in [Conns -> Seq(Calls)]
  BY <1>2 DEF TypeOK, Become
<1>. QED  BY <1>2, <1>3, <1>4 DEF OnlyMoves, Call

LEMMA ScriptTypes ==
    /\ <<>> \in Seq(Calls) /\ <<"closed">> \in Seq(Calls) /\ <<"reply">> \in Seq(Calls)
    /\ <<"broadcast">> \in Seq(Calls) /\ <<"subscribe", "reply">> \in Seq(Calls)
    /\ <<"broadcast", "endNotify">> \in Seq(Calls)
    /\ <<"add", "reply", "participants", "reply", "broadcast">> \in Seq(Calls)
    /\ \A answer \in {<<"reply">>, <<>>} :
          answer \o <<"broadcast">> \in Seq(Calls) /\ answer \o <<"notify">> \in Seq(Calls)
<1>1. \A x \in Calls : <<x>> \in Seq(Calls)
  OBVIOUS
<1>2. {"closed", "reply", "broadcast", "notify", "subscribe", "endNotify", "add", "participants"}
      \subseteq Calls
  BY DEF Calls
<1>3. <<"closed">> \in Seq(Calls) /\ <<"reply">> \in Seq(Calls)
  BY <1>1, <1>2
<1>4. <<"broadcast">> \in Seq(Calls) /\ <<"notify">> \in Seq(Calls) /\ <<>> \in Seq(Calls)
  BY <1>1, <1>2
<1>5. <<"subscribe", "reply">> \in Seq(Calls) /\ <<"broadcast", "endNotify">> \in Seq(Calls)
  BY <1>2
<1>6. <<"add", "reply", "participants", "reply", "broadcast">> \in Seq(Calls)
  BY <1>2
<1>7. \A answer \in {<<"reply">>, <<>>} : answer \in Seq(Calls)
  BY <1>3, <1>4
<1>8. \A s, t \in Seq(Calls) : s \o t \in Seq(Calls)
  BY ConcatProperties
<1>. QED  BY <1>3, <1>4, <1>5, <1>6, <1>7, <1>8

LEMMA LeaveTypes ==
    ASSUME NEW k \in Nat
    PROVE  LeaveSession(k) \o <<"reply">> \in Seq(Calls) /\ LeaveSession(k) \o <<"closed">> \in Seq(Calls)
<1> DEFINE deletions == [i \in 1 .. k |-> "broadcast"]
<1>1. {"reply", "closed", "broadcast", "subscribe", "remove", "participants"} \subseteq Calls
  BY DEF Calls
<1>2. <<"subscribe">> \in Seq(Calls) /\ <<"remove", "broadcast", "participants">> \in Seq(Calls)
  BY <1>1
<1>3. deletions \in Seq(Calls)
  BY <1>1
<1>4. \A s, t \in Seq(Calls) : s \o t \in Seq(Calls)
  BY ConcatProperties
<1>5. LeaveSession(k) = <<"subscribe">> \o deletions \o <<"remove", "broadcast", "participants">>
  BY DEF LeaveSession
<1>6. LeaveSession(k) \in Seq(Calls)
  BY <1>2, <1>3, <1>4, <1>5
<1>. QED  BY <1>4, <1>6, ScriptTypes

-----------------------------------------------------------------------------
(* Types.                                                                  *)

LEMMA Bounds ==
    /\ SendCap \in Nat \ {0} /\ ReceiptCap \in Nat \ {0}
    /\ MaxReceipts \in Nat /\ MaxMessages \in Nat /\ MaxEntities \in Nat
BY ForwardingAssumption

LEMMA EnqueueType ==
    ASSUME TypeOK, NEW d \in Conns, NEW msg \in Messages, Enqueue(d, msg)
    PROVE  /\ sendChan' \in [Conns -> Seq(Messages)]
           /\ \A e \in Conns : Len(sendChan'[e]) <= SendCap
<1>1. /\ sendChan \in [Conns -> Seq(Messages)] /\ Len(sendChan[d]) < SendCap
      /\ sendChan' = [sendChan EXCEPT ![d] = Append(sendChan[d], msg)]
      /\ \A e \in Conns : Len(sendChan[e]) <= SendCap
  BY DEF TypeOK, Enqueue, HasRoom
<1>2. Append(sendChan[d], msg) \in Seq(Messages) /\ Len(Append(sendChan[d], msg)) = Len(sendChan[d]) + 1
  BY <1>1, AppendAt
<1>3. Len(sendChan[d]) \in Nat
  BY <1>1, LenProperties
<1>. QED  BY <1>1, <1>2, <1>3, Bounds

LEMMA RequestType ==
    ASSUME TypeOK, NEW c \in Conns, Request(c) \/ DisconnectAny(c)
    PROVE  TypeOK'
<1> USE DEF TypeOK, OnlyMoves
<1>1. ASSUME NEW script \in Seq(Calls), Begin(c, script), NothingElse
      PROVE  TypeOK'
  BY <1>1, BeginEffect DEF NothingElse, OnlyBegins, channelVars, receiptVars
<1>2. CASE Join(c) \/ Answer(c) \/ ChangeSubscription(c)
  BY <1>1, <1>2, ScriptTypes DEF Join, Answer, ChangeSubscription
<1>3. CASE Announce(c) \/ ChangeComponent(c)
  BY <1>1, <1>3, ScriptTypes DEF Announce, ChangeComponent
<1>4. ASSUME NEW k \in 0 .. MaxEntities, SwitchSession(c, k)
      PROVE  TypeOK'
  <2>1. LeaveSession(k) \o <<"reply">> \in Seq(Calls)
    BY LeaveTypes, Bounds
  <2>. QED  BY <1>1, <1>4, <2>1 DEF SwitchSession
<1>5. ASSUME NEW to \in SUBSET (Conns \ {c}), CustomMessage(c, to)
      PROVE  TypeOK'
  <2>1. calls' \in [Conns -> Seq(Calls)]
    BY <1>5, BeginEffect, ScriptTypes DEF CustomMessage
  <2>2. sent' \in [Conns -> Nat] /\ sent'[c] \in Nat
    BY <1>5 DEF CustomMessage
  <2>3. number' \in [Conns -> Nat] /\ targets' \in [Conns -> SUBSET Conns]
    BY <1>5, <2>2 DEF CustomMessage
  <2>. QED  BY <1>5, <2>1, <2>2, <2>3 DEF CustomMessage, OnlyBegins, channelVars, receiptVars
<1>6. ASSUME NEW r \in Receipts, Receipt(c, r)
      PROVE  TypeOK'
  <2>1. receiptChan' \in Seq(Receipts) /\ Len(receiptChan') <= ReceiptCap
    <3>1. receiptChan \in Seq(Receipts) /\ receiptChan' = Append(receiptChan, r)
          /\ Len(receiptChan) < ReceiptCap
      BY <1>6 DEF Receipt
    <3>. QED  BY <3>1, AppendAt, Bounds
  <2>2. calls' \in [Conns -> Seq(Calls)]
    BY <1>6, BeginEffect, ScriptTypes DEF Receipt
  <2>3. receipts' \in [Receipts -> {"none", "queued", "posting"}]
    BY <1>6 DEF Receipt
  <2>. QED  BY <1>6, <2>1, <2>2, <2>3 DEF Receipt, OnlyBegins, channelVars
<1>7. ASSUME NEW k \in 0 .. MaxEntities, Disconnect(c, k)
      PROVE  TypeOK'
  <2>1. calls' \in [Conns -> Seq(Calls)]
    <3>1. LeaveSession(k) \o <<"closed">> \in Seq(Calls) /\ <<"closed">> \in Seq(Calls)
      BY LeaveTypes, ScriptTypes, Bounds
    <3>2. \E script \in Seq(Calls) : Begin(c, script)
      BY <1>7, <3>1 DEF Disconnect
    <3>. QED  BY <3>2, BeginEffect
  <2>. QED  BY <1>7, <2>1 DEF Disconnect, receiptVars
<1>. QED  BY <1>2, <1>3, <1>4, <1>5, <1>6, <1>7 DEF Request, DisconnectAny

\* What the calls of a handler do to the calls; it stays where it is in SendMsg.
LEMMA HandleMoves ==
    ASSUME TypeOK, NEW c \in Conns, Handle(c)
    PROVE  OnlyMoves(c)
<1>1. \A d \in Conns : SendMsg(c, d) => OnlyMoves(c)
  BY DEF SendMsg, OnlyMoves, TypeOK, Call
<1>2. ASSUME FindRecipients(c)
      PROVE  OnlyMoves(c)
  <2>1. "sending" \in Calls /\ "directing" \in Calls
    BY DEF Calls
  <2>. QED  BY <1>2, <2>1, BecomeEffect DEF FindRecipients
<1>3. CASE Notify(c)
  BY <1>3, BeginEffect, ScriptTypes DEF Notify
<1>4. CASE \/ AddParticipant(c) \/ RemoveParticipant(c) \/ GetParticipants(c) \/ EndBroadcast(c)
           \/ Subscribe(c) \/ EndNotify(c) \/ Reply(c)
  BY <1>4, ReturnEffect DEF AddParticipant, RemoveParticipant, GetParticipants, EndBroadcast,
                            Subscribe, EndNotify, Reply
<1>. QED  BY <1>1, <1>2, <1>3, <1>4 DEF Handle

LEMMA HandleType ==
    ASSUME TypeOK, NEW c \in Conns, Handle(c)
    PROVE  TypeOK'
<1>1. calls' \in [Conns -> Seq(Calls)]
  BY HandleMoves DEF OnlyMoves
<1> USE DEF TypeOK, channelVars, receiptVars
<1>2. CASE AddParticipant(c) \/ RemoveParticipant(c)
  BY <1>1, <1>2 DEF AddParticipant, RemoveParticipant, UnlockParticipants
<1>3. CASE GetParticipants(c) \/ Subscribe(c) \/ EndNotify(c)
  BY <1>1, <1>3 DEF GetParticipants, Subscribe, EndNotify, UnlockSubscriptions
<1>4. CASE FindRecipients(c)
  <2>1. todo' \in [Conns -> SUBSET Conns]
    <3>1. todo \in [Conns -> SUBSET Conns] /\ participants \in SUBSET Conns
      OBVIOUS
    <3>. QED  BY ONLY <1>4, <3>1 DEF FindRecipients
  <2>2. granted' \in SUBSET Conns
    BY <1>4 DEF FindRecipients
  <2>. QED  BY <1>1, <1>4, <2>1, <2>2 DEF FindRecipients
<1>5. ASSUME NEW d \in Conns, SendMsg(c, d)
      PROVE  TypeOK'
  <2>1. MessageTo(c, d) \in Messages
    BY DEF Messages, MessageTo
  <2>2. sendChan' \in [Conns -> Seq(Messages)] /\ \A e \in Conns : Len(sendChan'[e]) <= SendCap
    BY <1>5, <2>1, EnqueueType DEF SendMsg
  <2>. QED  BY <1>1, <1>5, <2>2 DEF SendMsg
<1>6. CASE EndBroadcast(c)
  BY <1>1, <1>6 DEF EndBroadcast
<1>7. CASE Notify(c)
  <2>1. notifying' \in SUBSET Conns /\ targets' \in [Conns -> SUBSET Conns]
    <3>1. targets \in [Conns -> SUBSET Conns] /\ notifying \in SUBSET Conns
      OBVIOUS
    <3>2. CASE UNCHANGED <<notifying, targets>>
      BY <3>1, <3>2
    <3>3. ASSUME NEW to \in SUBSET (Conns \ {c}), targets' = [targets EXCEPT ![c] = to],
                 notifying' = notifying \cup {c}
          PROVE  notifying' \in SUBSET Conns /\ targets' \in [Conns -> SUBSET Conns]
      BY ONLY <3>1, <3>3
    <3>. QED  BY ONLY <1>7, <3>2, <3>3 DEF Notify
  <2>. QED  BY <1>1, <1>7, <2>1 DEF Notify
<1>8. CASE Reply(c)
  <2>1. [from |-> c, n |-> 0] \in Messages
    BY DEF Messages
  <2>2. sendChan' \in [Conns -> Seq(Messages)] /\ \A e \in Conns : Len(sendChan'[e]) <= SendCap
    BY <1>8, <2>1, EnqueueType DEF Reply
  <2>. QED  BY <1>1, <1>8, <2>2 DEF Reply
<1>. QED  BY <1>2, <1>3, <1>4, <1>5, <1>6, <1>7, <1>8 DEF Handle

\* startSending, pointwise.
LEMMA WriteEffect ==
    ASSUME TypeOK, NEW c \in Conns, SenderWrites(c)
    PROVE  /\ sendChan[c] \in Seq(Messages) /\ sendChan[c] # <<>>
           /\ sendChan' = [sendChan EXCEPT ![c] = Tail(sendChan[c])]
           /\ lastGot' = [lastGot EXCEPT ![c] = After(sendChan[c], lastGot[c])]
           /\ Head(sendChan[c]).from \in Conns /\ Head(sendChan[c]).n \in Nat
           /\ UNCHANGED <<load, participants, handlerVars, client, ended, receiptVars>>
<1>1. sendChan[c] \in Seq(Messages) /\ sendChan[c] # <<>> /\ lastGot \in [Conns -> [Conns -> Nat]]
  BY DEF TypeOK, SenderWrites
<1>2. Head(sendChan[c]).from \in Conns /\ Head(sendChan[c]).n \in Nat
  BY <1>1, TailAt, MessageFields
<1>3. lastGot' = [lastGot EXCEPT ![c] = After(sendChan[c], lastGot[c])]
  BY <1>1 DEF SenderWrites, After
<1>. QED  BY <1>1, <1>2, <1>3 DEF SenderWrites

LEMMA TypeStep ==
    ASSUME TypeOK, [Next]_vars
    PROVE  TypeOK'
<1>1. CASE UNCHANGED vars
  BY <1>1 DEF TypeOK, vars, handlerVars, channelVars, receiptVars
<1>2. ASSUME NEW c \in Conns, SenderWrites(c)
      PROVE  TypeOK'
  <2>1. /\ sendChan[c] \in Seq(Messages) /\ sendChan[c] # <<>>
        /\ sendChan' = [sendChan EXCEPT ![c] = Tail(sendChan[c])]
        /\ lastGot' = [lastGot EXCEPT ![c] = After(sendChan[c], lastGot[c])]
        /\ Head(sendChan[c]).from \in Conns /\ Head(sendChan[c]).n \in Nat
        /\ UNCHANGED <<load, participants, handlerVars, client, ended, receiptVars>>
    BY <1>2, WriteEffect
  <2>2. /\ sendChan \in [Conns -> Seq(Messages)] /\ lastGot \in [Conns -> [Conns -> Nat]]
        /\ \A d \in Conns : Len(sendChan[d]) <= SendCap
    BY DEF TypeOK
  <2>3. Tail(sendChan[c]) \in Seq(Messages) /\ Len(Tail(sendChan[c])) <= SendCap
    BY <2>1, <2>2, TailAt, Bounds
  <2>4. sendChan' \in [Conns -> Seq(Messages)] /\ \A d \in Conns : Len(sendChan'[d]) <= SendCap
    BY <2>1, <2>2, <2>3
  <2>5. After(sendChan[c], lastGot[c]) \in [Conns -> Nat]
    BY <2>1, <2>2 DEF After
  <2>6. lastGot' \in [Conns -> [Conns -> Nat]]
    BY <2>1, <2>2, <2>5
  <2>. QED  BY <2>1, <2>4, <2>6 DEF TypeOK, handlerVars, receiptVars
<1>3. ASSUME NEW c \in Conns, ClientStalls(c) \/ ClientCloses(c)
      PROVE  TypeOK'
  BY <1>3 DEF ClientStalls, ClientCloses, TypeOK, handlerVars, receiptVars
<1>4. ASSUME NEW c \in Conns, SenderEnds(c)
      PROVE  TypeOK'
  <2>1. sendChan' \in [Conns -> Seq(Messages)] /\ \A d \in Conns : Len(sendChan'[d]) <= SendCap
    <3>1. /\ sendChan \in [Conns -> Seq(Messages)] /\ \A d \in Conns : Len(sendChan[d]) <= SendCap
          /\ sendChan' = [sendChan EXCEPT ![c] = <<>>]
      BY <1>4 DEF SenderEnds, TypeOK
    <3>. QED  BY <3>1, EmptySeq, Bounds
  <2>. QED  BY <1>4, <2>1 DEF SenderEnds, TypeOK, handlerVars, receiptVars
<1>5. CASE HandleReceipts
  <2>1. /\ receiptChan \in Seq(Receipts) /\ receiptChan # <<>> /\ receiptChan' = Tail(receiptChan)
        /\ Len(receiptChan) <= ReceiptCap /\ receipts \in [Receipts -> {"none", "queued", "posting"}]
    BY <1>5 DEF HandleReceipts, TypeOK
  <2>2. receiptChan' \in Seq(Receipts) /\ Len(receiptChan') <= ReceiptCap
    BY <2>1, TailAt, Bounds
  <2>3. receipts' \in [Receipts -> {"none", "queued", "posting"}]
    BY <1>5, <2>1 DEF HandleReceipts
  <2>. QED  BY <1>5, <2>2, <2>3 DEF HandleReceipts, TypeOK, handlerVars, channelVars
<1>6. CASE StopReceipts \/ ShutDown
  BY <1>6 DEF StopReceipts, ShutDown, TypeOK, handlerVars, channelVars
<1>7. ASSUME NEW r \in Receipts, ForwardToNCS(r)
      PROVE  TypeOK'
  BY <1>7 DEF ForwardToNCS, TypeOK, handlerVars, channelVars
<1>. QED  BY <1>1, <1>2, <1>3, <1>4, <1>5, <1>6, <1>7, RequestType, HandleType DEF Next

\* Every variable keeps its type, and neither a sendChan nor ReceiptChan holds
\* more than its capacity: whoever finds one full waits or is refused.
THEOREM ForwardingTypes == Spec => []TypeOK
<1>1. Init => TypeOK
  <2>1. Init => shutdown \in BOOLEAN
    BY Zenon DEF Init
  <2>2. ASSUME Init
        PROVE  /\ sendChan \in [Conns -> Seq(Messages)] /\ \A c \in Conns : Len(sendChan[c]) <= SendCap
               /\ receiptChan \in Seq(Receipts) /\ Len(receiptChan) <= ReceiptCap
               /\ calls \in [Conns -> Seq(Calls)]
    BY <2>2, Bounds, EmptySeq DEF Init
  <2>3. ASSUME Init
        PROVE  /\ lastGot \in [Conns -> [Conns -> Nat]] /\ sent \in [Conns -> Nat]
               /\ number \in [Conns -> Nat] /\ participants \in SUBSET Conns /\ ended \in SUBSET Conns
               /\ todo \in [Conns -> SUBSET Conns] /\ targets \in [Conns -> SUBSET Conns]
               /\ granted \in SUBSET Conns /\ notifying \in SUBSET Conns
    BY <2>3 DEF Init
  <2>4. ASSUME Init
        PROVE  /\ client \in [Conns -> {"reads", "stalled", "gone"}]
               /\ receipts \in [Receipts -> {"none", "queued", "posting"}]
               /\ receiptLoop \in {"running", "done"} /\ load \in Loads
    BY <2>4 DEF Init
  <2>. QED  BY <2>1, <2>2, <2>3, <2>4, Zenon DEF TypeOK
<1>. QED  BY <1>1, TypeStep, PTL DEF Spec

-----------------------------------------------------------------------------
(* The order of messages.                                                  *)

\* A step that moves no message, and gets none under way.
LEMMA QuietStep ==
    ASSUME OrderInv, UNCHANGED <<sendChan, lastGot, sent>>, NumberInv',
           \A c, d \in Conns : OnItsWay(c, d)' => OnItsWay(c, d)
    PROVE  OrderInv'
BY DEF OrderInv

\* A handler that is not broadcasting goes on.
LEMMA FreeMove ==
    ASSUME TypeOK, NumberInv, NEW c \in Conns, OnlyMoves(c), Call(c) \notin Broadcasting,
           UNCHANGED <<todo, number, sent>>
    PROVE  NumberInv' /\ \A a, b \in Conns : OnItsWay(a, b)' => OnItsWay(a, b)
<1>1. number[c] = 0 /\ number'[c] = 0
  BY DEF NumberInv
<1>. QED  BY <1>1 DEF NumberInv, OnItsWay, OnlyMoves

\* A message is put into the sendChan of d.
LEMMA EnqueueStep ==
    ASSUME TypeOK, OrderInv, NEW d \in Conns, NEW msg \in Messages, Enqueue(d, msg),
           UNCHANGED <<lastGot, sent>>, NumberInv',
           \A c, e \in Conns : OnItsWay(c, e)' => OnItsWay(c, e),
           msg.n <= sent[msg.from], OnItsWay(msg.from, d)' => msg.n < sent[msg.from],
           msg.n = 0 \/ Behind(sendChan[d], lastGot[d], msg.from, msg.n)
    PROVE  OrderInv'
<1>1. /\ sendChan \in [Conns -> Seq(Messages)]
      /\ sendChan' = [sendChan EXCEPT ![d] = Append(sendChan[d], msg)]
      /\ \A c \in Conns : sent[c] \in Nat
      /\ msg.n \in Nat /\ msg.from \in Conns
  BY MessageFields DEF TypeOK, Enqueue
<1>2. /\ sendChan[d] \in Seq(Messages) /\ sendChan'[d] = Append(sendChan[d], msg)
      /\ \A e \in Conns \ {d} : sendChan'[e] = sendChan[e]
  BY <1>1
<1>3. \A e \in Conns : Ordered(sendChan'[e], lastGot'[e])
  BY <1>2, AppendOrdered DEF OrderInv
<1>4. \A c, e \in Conns : Behind(sendChan'[e], lastGot'[e], c, sent'[c] + 1)
  <2>1. ASSUME NEW c \in Conns
        PROVE  Behind(Append(sendChan[d], msg), lastGot[d], c, sent[c] + 1)
    <3>1. sent[c] + 1 \in Nat /\ (msg.from = c => msg.n < sent[c] + 1)
      BY <1>1
    <3>. QED  BY <1>2, <3>1, AppendBehind DEF OrderInv
  <2>. QED  BY <1>2, <2>1 DEF OrderInv
<1>5. \A c, e \in Conns : OnItsWay(c, e)' => Behind(sendChan'[e], lastGot'[e], c, sent'[c])
  <2>1. ASSUME NEW c \in Conns, OnItsWay(c, d)'
        PROVE  Behind(Append(sendChan[d], msg), lastGot[d], c, sent[c])
    <3>1. sent[c] \in Nat /\ (msg.from = c => msg.n < sent[c])
      BY <1>1, <2>1
    <3>2. Behind(sendChan[d], lastGot[d], c, sent[c])
      BY <2>1 DEF OrderInv
    <3>. QED  BY <1>2, <3>1, <3>2, AppendBehind
  <2>. QED  BY <1>2, <2>1 DEF OrderInv
<1>. QED  BY <1>3, <1>4, <1>5 DEF OrderInv

\* The client of c reads a message.
LEMMA WriteStep ==
    ASSUME TypeOK, OrderInv, NEW c \in Conns, SenderWrites(c)
    PROVE  OrderInv'
<1>1. /\ sendChan[c] \in Seq(Messages) /\ sendChan[c] # <<>>
      /\ sendChan' = [sendChan EXCEPT ![c] = Tail(sendChan[c])]
      /\ lastGot' = [lastGot EXCEPT ![c] = After(sendChan[c], lastGot[c])]
      /\ UNCHANGED <<calls, todo, number, sent>>
  BY WriteEffect DEF handlerVars
<1>2. /\ sendChan \in [Conns -> Seq(Messages)] /\ lastGot \in [Conns -> [Conns -> Nat]]
      /\ \A d \in Conns : sent[d] \in Nat
  BY DEF TypeOK
<1>3. /\ sendChan'[c] = Tail(sendChan[c]) /\ lastGot'[c] = After(sendChan[c], lastGot[c])
      /\ lastGot[c] \in [Conns -> Nat]
      /\ \A d \in Conns \ {c} : sendChan'[d] = sendChan[d] /\ lastGot'[d] = lastGot[d]
  BY <1>1, <1>2
<1>4. \A d \in Conns : Ordered(sendChan'[d], lastGot'[d])
  BY <1>1, <1>3, TailOrdered DEF OrderInv
<1>5. \A d \in Conns, k \in Nat : Behind(sendChan[c], lastGot[c], d, k)
                                  => Behind(sendChan'[c], lastGot'[c], d, k)
  <2>1. \A d \in Conns, k \in Nat :
           Behind(sendChan[c], lastGot[c], d, k)
           => Behind(Tail(sendChan[c]), After(sendChan[c], lastGot[c]), d, k)
    BY <1>1, <1>3, TailBehind, Zenon
  <2>. QED  BY <1>3, <2>1
<1>6. \A d, e \in Conns : Behind(sendChan'[e], lastGot'[e], d, sent'[d] + 1)
  <2>1. \A d \in Conns : sent[d] + 1 \in Nat /\ sent'[d] = sent[d]
    BY <1>1, <1>2
  <2>2. \A d, e \in Conns : Behind(sendChan[e], lastGot[e], d, sent[d] + 1)
    BY DEF OrderInv
  <2>. QED  BY <1>3, <1>5, <2>1, <2>2
<1>7. NumberInv' /\ \A d, e \in Conns : OnItsWay(d, e)' <=> OnItsWay(d, e)
  BY <1>1 DEF OnItsWay, OrderInv, NumberInv, Call
<1>8. \A d, e \in Conns : OnItsWay(d, e)' => Behind(sendChan'[e], lastGot'[e], d, sent'[d])
  BY <1>1, <1>2, <1>3, <1>5, <1>7 DEF OrderInv
<1>. QED  BY <1>4, <1>6, <1>7, <1>8 DEF OrderInv

\* startSending empties its channel.
LEMMA SenderEndsStep ==
    ASSUME TypeOK, OrderInv, NEW c \in Conns, SenderEnds(c)
    PROVE  OrderInv'
<1>1. /\ sendChan' = [sendChan EXCEPT ![c] = <<>>]
      /\ UNCHANGED <<lastGot, sent, calls, todo, number>>
  BY DEF SenderEnds, handlerVars
<1>2. sendChan'[c] = <<>> /\ \A d \in Conns \ {c} : sendChan'[d] = sendChan[d]
  BY <1>1 DEF TypeOK
<1>3. NumberInv' /\ \A a, b \in Conns : OnItsWay(a, b)' => OnItsWay(a, b)
  BY <1>1 DEF OnItsWay, OrderInv, NumberInv, Call
<1>4. \A got : Ordered(<<>>, got)
  BY DEF Ordered
<1>5. \A s, got, a, k : Behind(s, got, a, k) => Behind(<<>>, got, a, k)
  BY DEF Behind
<1>. QED  BY <1>1, <1>2, <1>3, <1>4, <1>5 DEF OrderInv

\* Requests: only a custom message gets under way.
LEMMA RequestOrder ==
    ASSUME TypeOK, OrderInv, NEW c \in Conns, Request(c) \/ DisconnectAny(c)
    PROVE  OrderInv'
<1>1. NumberInv /\ "select" \notin Broadcasting
  BY DEF OrderInv, Broadcasting
<1>2. ASSUME NEW script \in Seq(Calls), Begin(c, script), Call(c) = "select",
             UNCHANGED <<sendChan, lastGot, sent, todo, number>>
      PROVE  OrderInv'
  <2>1. OnlyMoves(c)
    BY <1>2, BeginEffect
  <2>. QED  BY <1>1, <1>2, <2>1, FreeMove, QuietStep
<1>3. CASE Join(c) \/ Answer(c) \/ ChangeSubscription(c)
  BY <1>2, <1>3, ScriptTypes DEF Join, Answer, ChangeSubscription, NothingElse, OnlyBegins, channelVars,
                                 Receiving, Selecting
<1>4. CASE Announce(c) \/ ChangeComponent(c)
  BY <1>2, <1>4, ScriptTypes DEF Announce, ChangeComponent, NothingElse, OnlyBegins, channelVars,
                                 Receiving, Selecting
<1>5. ASSUME NEW k \in 0 .. MaxEntities, SwitchSession(c, k)
      PROVE  OrderInv'
  <2>1. LeaveSession(k) \o <<"reply">> \in Seq(Calls)
    BY LeaveTypes, Bounds
  <2>. QED  BY <1>2, <1>5, <2>1 DEF SwitchSession, NothingElse, OnlyBegins, channelVars, Receiving, Selecting
<1>6. ASSUME NEW r \in Receipts, Receipt(c, r)
      PROVE  OrderInv'
  BY <1>2, <1>6, ScriptTypes DEF Receipt, OnlyBegins, channelVars, Receiving, Selecting
<1>7. ASSUME NEW k \in 0 .. MaxEntities, Disconnect(c, k)
      PROVE  OrderInv'
  <2>1. LeaveSession(k) \o <<"closed">> \in Seq(Calls) /\ <<"closed">> \in Seq(Calls)
    BY LeaveTypes, ScriptTypes, Bounds
  <2>2. \E script \in Seq(Calls) : Begin(c, script)
    BY <1>7, <2>1 DEF Disconnect
  <2>. QED  BY <1>2, <1>7, <2>2 DEF Disconnect, Selecting
<1>8. ASSUME NEW to, CustomMessage(c, to)
      PROVE  OrderInv'
  <2>1. /\ sent' = [sent EXCEPT ![c] = sent[c] + 1] /\ number' = [number EXCEPT ![c] = sent'[c]]
        /\ UNCHANGED <<sendChan, lastGot, todo>>
    BY <1>8 DEF CustomMessage, OnlyBegins, channelVars
  <2>2. /\ OnlyMoves(c) /\ calls'[c] = <<"broadcast">>
        /\ sent \in [Conns -> Nat] /\ number \in [Conns -> Nat]
    BY <1>8, BeginEffect, ScriptTypes DEF CustomMessage, TypeOK
  <2>3. Call(c)' = "broadcast"
    BY <2>2 DEF Call
  <2>4. /\ sent'[c] = sent[c] + 1 /\ number'[c] = sent'[c] /\ sent[c] \in Nat
        /\ \A a \in Conns \ {c} : sent'[a] = sent[a] /\ number'[a] = number[a] /\ Call(a)' = Call(a)
    BY <2>1, <2>2 DEF OnlyMoves
  <2>5. NumberInv'
    BY <1>1, <2>3, <2>4 DEF NumberInv, Broadcasting
  <2>6. \A b \in Conns : Behind(sendChan[b], lastGot[b], c, sent[c] + 2)
    <3> SUFFICES ASSUME NEW b \in Conns
                 PROVE  Behind(sendChan[b], lastGot[b], c, sent[c] + 2)
      OBVIOUS
    <3>1. Behind(sendChan[b], lastGot[b], c, sent[c] + 1)
      BY DEF OrderInv
    <3>2. /\ lastGot[b][c] \in Nat
          /\ \A i \in 1 .. Len(sendChan[b]) : sendChan[b][i].n \in Nat
      <4>1. sendChan[b] \in Seq(Messages) /\ lastGot[b][c] \in Nat
        BY DEF TypeOK
      <4>2. \A i \in 1 .. Len(sendChan[b]) : sendChan[b][i] \in Messages
        BY <4>1
      <4>. QED  BY <4>1, <4>2, MessageFields
    <3>. QED  BY <2>4, <3>1, <3>2 DEF Behind
  <2>7. \A a, b \in Conns : Behind(sendChan'[b], lastGot'[b], a, sent'[a] + 1)
    <3>1. (sent[c] + 1) + 1 = sent[c] + 2
      BY <2>4
    <3>. QED  BY <2>1, <2>4, <2>6, <3>1 DEF OrderInv
  <2>8. \A a, b \in Conns : OnItsWay(a, b)' => Behind(sendChan'[b], lastGot'[b], a, sent'[a])
    BY <2>1, <2>4 DEF OrderInv, OnItsWay
  <2>. QED  BY <2>1, <2>5, <2>7, <2>8 DEF OrderInv
<1>. QED  BY <1>3, <1>4, <1>5, <1>6, <1>7, <1>8 DEF Request, DisconnectAny

\* The calls of a handler.
LEMMA HandleOrder ==
    ASSUME TypeOK, OrderInv, NEW c \in Conns, Handle(c)
    PROVE  OrderInv'
<1>1. /\ NumberInv /\ OnlyMoves(c)
      /\ todo \in [Conns -> SUBSET Conns] /\ sent \in [Conns -> Nat] /\ number \in [Conns -> Nat]
  BY HandleMoves DEF OrderInv, TypeOK
<1>2. CASE \/ AddParticipant(c) \/ RemoveParticipant(c) \/ GetParticipants(c)
           \/ Subscribe(c) \/ Notify(c) \/ EndNotify(c)
  <2>1. UNCHANGED <<sendChan, lastGot, sent, todo, number>> /\ Call(c) \notin Broadcasting
    BY <1>2 DEF AddParticipant, RemoveParticipant, GetParticipants, Subscribe, Notify, EndNotify,
                channelVars, Broadcasting
  <2>. QED  BY <1>1, <2>1, FreeMove, QuietStep
<1>3. CASE FindRecipients(c)
  <2>1. /\ UNCHANGED <<sendChan, lastGot, sent, number>> /\ Call(c) = "broadcast"
        /\ \A a \in Conns \ {c} : todo'[a] = todo[a]
    BY <1>1, <1>3 DEF FindRecipients, channelVars
  <2>2. Call(c)' \in {"sending", "directing"}
    <3>1. {"sending", "directing"} \subseteq Calls
      BY DEF Calls
    <3>. QED  BY <1>3, <2>1, <3>1, BecomeEffect DEF FindRecipients
  <2>3. NumberInv'
    BY <1>1, <2>1, <2>2 DEF NumberInv, OnlyMoves, Broadcasting
  <2>4. \A a, b \in Conns : OnItsWay(a, b)' => OnItsWay(a, b)
    BY <1>1, <2>1, <2>2 DEF OnItsWay, OnlyMoves
  <2>. QED  BY <2>1, <2>3, <2>4, QuietStep
<1>4. ASSUME NEW d \in Conns, SendMsg(c, d)
      PROVE  OrderInv'
  <2>1. /\ Call(c) \in {"sending", "directing"} /\ d \in todo[c]
        /\ todo' = [todo EXCEPT ![c] = todo[c] \ {d}]
        /\ UNCHANGED <<calls, number, sent, lastGot>>
    BY <1>4 DEF SendMsg
  <2>2. PICK msg : msg = MessageTo(c, d)
    OBVIOUS
  <2>3. /\ msg \in Messages /\ msg.n = number[c] /\ msg.from = (IF number[c] = 0 THEN d ELSE c)
        /\ Enqueue(d, msg)
    BY <1>1, <1>4, <2>2 DEF SendMsg, Messages, MessageTo
  <2>4. NumberInv' /\ \A a, b \in Conns : OnItsWay(a, b)' => OnItsWay(a, b)
    BY <1>1, <2>1 DEF OnItsWay, NumberInv, Call
  <2>5. number[c] # 0 => number[c] = sent[c] /\ OnItsWay(c, d) /\ ~ OnItsWay(c, d)'
    BY <1>1, <2>1 DEF OnItsWay, NumberInv, Call
  <2>6. number[c] # 0 => Behind(sendChan[d], lastGot[d], c, sent[c])
    BY <2>5 DEF OrderInv
  <2>7. OnItsWay(d, d)' => 0 < sent[d]
    BY <1>1, <2>4 DEF OnItsWay, NumberInv
  <2>8. msg.n <= sent[msg.from] /\ (OnItsWay(msg.from, d)' => msg.n < sent[msg.from])
    BY <1>1, <2>3, <2>5, <2>7
  <2>9. msg.n = 0 \/ Behind(sendChan[d], lastGot[d], msg.from, msg.n)
    BY <2>3, <2>5, <2>6
  <2>. QED  BY <2>1, <2>3, <2>4, <2>8, <2>9, EnqueueStep
<1>5. CASE EndBroadcast(c)
  <2>1. UNCHANGED <<sendChan, lastGot, sent, todo>> /\ number' = [number EXCEPT ![c] = 0]
    BY <1>5 DEF EndBroadcast, channelVars
  <2>2. number'[c] = 0 /\ \A a \in Conns \ {c} : number'[a] = number[a] /\ Call(a)' = Call(a)
    BY <1>1, <2>1 DEF OnlyMoves
  <2>3. NumberInv' /\ \A a, b \in Conns : OnItsWay(a, b)' => OnItsWay(a, b)
    BY <1>1, <2>1, <2>2 DEF NumberInv, OnItsWay
  <2>. QED  BY <2>1, <2>3, QuietStep
<1>6. CASE Reply(c)
  <2>1. Call(c) \notin Broadcasting /\ UNCHANGED <<todo, number, sent, lastGot>>
    BY <1>6 DEF Reply, Broadcasting
  <2>2. PICK msg : msg = [from |-> c, n |-> 0]
    OBVIOUS
  <2>3. msg \in Messages /\ msg.from = c /\ msg.n = 0 /\ Enqueue(c, msg)
    BY <1>6, <2>2 DEF Reply, Messages
  <2>4. NumberInv' /\ \A a, b \in Conns : OnItsWay(a, b)' => OnItsWay(a, b)
    BY <1>1, <2>1, FreeMove
  <2>5. ~ OnItsWay(c, c)'
    BY <1>1, <2>1 DEF NumberInv, OnItsWay
  <2>6. msg.n <= sent[msg.from]
    BY <1>1, <2>3
  <2>. QED  BY <2>1, <2>3, <2>4, <2>5, <2>6, EnqueueStep
<1>. QED  BY <1>2, <1>3, <1>4, <1>5, <1>6 DEF Handle

LEMMA OrderStep ==
    ASSUME TypeOK, OrderInv, [Next]_vars
    PROVE  OrderInv'
<1>1. CASE \/ UNCHANGED vars \/ HandleReceipts \/ StopReceipts \/ ShutDown
           \/ \E r \in Receipts : ForwardToNCS(r)
           \/ \E c \in Conns : ClientStalls(c) \/ ClientCloses(c)
  <2>1. UNCHANGED <<sendChan, lastGot, sent, number, calls, todo>>
    BY <1>1 DEF vars, handlerVars, channelVars, HandleReceipts, StopReceipts, ShutDown, ForwardToNCS,
                ClientStalls, ClientCloses
  <2>2. NumberInv' /\ \A a, b \in Conns : OnItsWay(a, b)' => OnItsWay(a, b)
    BY <2>1 DEF OrderInv, NumberInv, OnItsWay, Call
  <2>. QED  BY <2>1, <2>2, QuietStep
<1>. QED  BY <1>1, RequestOrder, HandleOrder, WriteStep, SenderEndsStep DEF Next

\* A client reads the custom messages of another participant in the order they
\* were sent, and none twice, however the broadcasts of several handlers
\* interleave in its sendChan and whether it leaves, switches session or joins
\* again meanwhile.
THEOREM CustomMessagesStayInOrder == Spec => []MessagesStayInOrder
<1>1. Init => OrderInv
  <2>1. ASSUME Init
        PROVE  \A c, d \in Conns : /\ sendChan[d] = <<>> /\ lastGot[d][c] = 0 /\ sent[c] = 0
                                   /\ number[c] = 0
    BY <2>1 DEF Init
  <2>2. ASSUME NEW got PROVE Ordered(<<>>, got)
    BY DEF Ordered
  <2>3. ASSUME NEW got, NEW c, got[c] = 0 PROVE Behind(<<>>, got, c, 0 + 1)
    BY <2>3 DEF Behind
  <2>. QED  BY <2>1, <2>2, <2>3 DEF OrderInv, NumberInv, OnItsWay
<1>2. TypeOK /\ OrderInv /\ [Next]_vars => OrderInv'
  BY OrderStep
<1>3. TypeOK /\ OrderInv => MessagesStayInOrder
  <2>1. TypeOK => \A c \in Conns : DOMAIN sendChan[c] = 1 .. Len(sendChan[c])
    BY LenProperties DEF TypeOK
  <2>. QED  BY <2>1 DEF OrderInv, Ordered, MessagesStayInOrder
<1>. QED  BY <1>1, <1>2, <1>3, ForwardingTypes, PTL DEF Spec

-----------------------------------------------------------------------------
(* Who waits for whom.                                                     *)

LEMMA LockStep ==
    ASSUME TypeOK, LockInv, [Next]_vars
    PROVE  LockInv'
<1>1. ASSUME UNCHANGED <<calls, notifying>>
      PROVE  LockInv'
  BY <1>1 DEF LockInv, Call
<1>2. ASSUME NEW c \in Conns, OnlyMoves(c), c \notin notifying, notifying' = notifying
      PROVE  LockInv'
  <2>1. \A d \in notifying : d \in Conns \ {c}
    BY <1>2 DEF TypeOK
  <2>. QED  BY <1>2, <2>1 DEF LockInv, OnlyMoves
<1>3. \A c \in notifying : Call(c) \in Broadcasting \cup {"endNotify"}
  BY DEF LockInv
<1>4. ASSUME NEW c \in Conns, Request(c) \/ DisconnectAny(c)
      PROVE  LockInv'
  <2>1. Call(c) = "select" /\ notifying' = notifying
    BY <1>4 DEF Request, DisconnectAny, Join, SwitchSession, CustomMessage, Announce, ChangeComponent,
                ChangeSubscription, Answer, Receipt, Disconnect, NothingElse, OnlyBegins, Receiving, Selecting
  <2>2. c \notin notifying
    BY <1>3, <2>1 DEF Broadcasting
  <2>3. \A d \in Conns \ {c} : calls'[d] = calls[d]
    BY <1>4 DEF TypeOK, Begin, Request, DisconnectAny, Join, SwitchSession, CustomMessage, Announce,
                ChangeComponent, ChangeSubscription, Answer, Receipt, Disconnect
  <2>. QED  BY <2>1, <2>2, <2>3 DEF LockInv, Call, TypeOK
<1>5. ASSUME NEW c \in Conns, Handle(c)
      PROVE  LockInv'
  <2>1. OnlyMoves(c)
    BY <1>5, HandleMoves
  <2>2. CASE AddParticipant(c) \/ RemoveParticipant(c) \/ GetParticipants(c) \/ Subscribe(c) \/ Reply(c)
    <3>1. notifying' = notifying /\ Call(c) \notin Broadcasting \cup {"endNotify"}
      BY <2>2 DEF AddParticipant, RemoveParticipant, GetParticipants, Subscribe, Reply, Broadcasting
    <3>. QED  BY <1>2, <1>3, <2>1, <3>1
  <2>3. CASE FindRecipients(c)
    <3>1. {"sending", "directing"} \subseteq Calls
      BY DEF Calls
    <3>2. notifying' = notifying /\ Call(c) = "broadcast"
      BY <2>3 DEF FindRecipients
    <3>3. /\ Call(c)' \in {"sending", "directing"} /\ Len(calls'[c]) = Len(calls[c])
          /\ Len(calls[c]) > 1 => calls'[c][2] = calls[c][2]
      BY <2>3, <3>1, <3>2, BecomeEffect DEF FindRecipients
    <3>4. \A d \in notifying : d \in Conns
      BY DEF TypeOK
    <3>. QED  BY <2>1, <3>2, <3>3, <3>4 DEF LockInv, OnlyMoves, Broadcasting
  <2>4. ASSUME NEW d \in Conns, SendMsg(c, d)
        PROVE  LockInv'
    BY <1>1, <2>4 DEF SendMsg
  <2>5. CASE EndBroadcast(c)
    <3>1. notifying' = notifying /\ Call(c) \in {"sending", "directing"} /\ Return(c)
      BY <2>5 DEF EndBroadcast
    <3>2. calls[c] \in Seq(Calls) /\ calls[c] # <<>> /\ calls'[c] = Tail(calls[c])
      BY <3>1, CallAt, ReturnEffect
    <3>3. ASSUME c \in notifying
          PROVE  Call(c)' = "endNotify"
      <4>1. Len(calls[c]) > 1 /\ calls[c][2] = "endNotify"
        BY <3>1, <3>3 DEF LockInv
      <4>2. Tail(calls[c]) # <<>> /\ Head(Tail(calls[c])) = calls[c][2]
        <5>1. /\ Tail(calls[c]) \in Seq(Calls) /\ Len(Tail(calls[c])) > 0
              /\ Tail(calls[c])[1] = calls[c][2]
          BY <3>2, <4>1, TailAt
        <5>. QED  BY <5>1, HeadAt
      <4>. QED  BY <3>2, <4>1, <4>2 DEF Call
    <3>4. \A d \in notifying : d \in Conns
      BY DEF TypeOK
    <3>. QED  BY <2>1, <3>1, <3>3, <3>4 DEF LockInv, OnlyMoves
  <2>6. CASE Notify(c)
    <3>1. Call(c) = "notify"
      BY <2>6 DEF Notify
    <3>2. c \notin notifying
      BY <1>3, <3>1 DEF Broadcasting
    <3>3. CASE notifying' = notifying
      BY <1>2, <2>1, <3>2, <3>3
    <3>4. CASE notifying' = notifying \cup {c} /\ Begin(c, <<"broadcast", "endNotify">>)
      <4>1. calls'[c] = <<"broadcast", "endNotify">>
        BY <3>4, BeginEffect, ScriptTypes
      <4>2. Call(c)' = "broadcast" /\ Len(calls'[c]) = 2 /\ calls'[c][2] = "endNotify"
        BY <4>1 DEF Call
      <4>3. \A d \in notifying : d \in Conns
        BY DEF TypeOK
      <4>. QED  BY <2>1, <3>4, <4>2, <4>3 DEF LockInv, OnlyMoves, Broadcasting
    <3>. QED  BY <2>6, <3>3, <3>4 DEF Notify
  <2>7. CASE EndNotify(c)
    <3>1. notifying' = notifying \ {c} /\ \A d \in notifying : d \in Conns
      BY <2>7 DEF EndNotify, TypeOK
    <3>. QED  BY <2>1, <3>1 DEF LockInv, OnlyMoves
  <2>. QED  BY <1>5, <2>2, <2>3, <2>4, <2>5, <2>6, <2>7 DEF Handle
<1>6. CASE \/ UNCHANGED vars \/ HandleReceipts \/ StopReceipts \/ ShutDown
           \/ \E r \in Receipts : ForwardToNCS(r)
           \/ \E c \in Conns : SenderWrites(c) \/ SenderEnds(c) \/ ClientStalls(c) \/ ClientCloses(c)
  BY <1>1, <1>6 DEF vars, handlerVars, HandleReceipts, StopReceipts, ShutDown, ForwardToNCS,
                    SenderWrites, SenderEnds, ClientStalls, ClientCloses
<1>. QED  BY <1>4, <1>5, <1>6 DEF Next

\* The handler of c can do its next step.
CanGoOn(c) ==
    \/ Call(c) \in {"add", "remove"} /\ ParticipantReaders = {}
    \/ Call(c) \in ReadCalls /\ RLockParticipants(c)
    \/ Call(c) \in {"sending", "directing"} /\ (todo[c] = {} \/ \E d \in todo[c] : HasRoom(d))
    \/ Call(c) = "subscribe" /\ SubscriptionReaders = {}
    \/ Call(c) = "notify" /\ RLockSubscriptions(c)
    \/ Call(c) = "endNotify"
    \/ Call(c) = "reply" /\ HasRoom(c)

\* The sender of c can write, or its write to a closed connection fails.
CanWrite(c) == c \notin ended /\ client[c] # "stalled" /\ sendChan[c] # <<>>

\* A session whose handlers wait is held up by a client that does not read
\* or by a connection whose sender has ended, never by the handlers alone.
StuckByConnection ==
    \/ \A c \in Conns : AtRest(c)
    \/ \E c \in Conns : CanGoOn(c) \/ CanWrite(c)
    \/ \E d \in Conns : client[d] = "stalled" /\ ~ HasRoom(d)
    \/ \E d \in Conns : WaitsForEnded(d)

\* A full sendChan is emptied, or has one of the two reasons not to be.
LEMMA FullChannel ==
    ASSUME TypeOK, NEW d \in Conns, ~ HasRoom(d)
    PROVE  CanWrite(d) \/ client[d] = "stalled" \/ d \in ended
<1>1. SendCap \in Nat \ {0} /\ sendChan[d] \in Seq(Messages)
  BY Bounds DEF TypeOK
<1>2. sendChan[d] # <<>>
  BY <1>1 DEF HasRoom
<1>. QED  BY <1>2 DEF CanWrite

\* participantMutex, subscriptionMutex and the sendChans cannot make the
\* handlers of a session wait for each other in a circle, though Broadcast and
\* Notify keep a mutex while they wait for room and writers wait for it: when no
\* handler and no sender of any number of connections can go on, whether they
\* join, leave or broadcast, a client has stopped reading or a sendChan has
\* filled up whose sender has ended.
THEOREM NoCircularWait == Spec => []StuckByConnection
<1>1. ASSUME TypeOK, LockInv
      PROVE  StuckByConnection
  <2> SUFFICES ASSUME \A c \in Conns : ~ CanGoOn(c) /\ ~ CanWrite(c),
                      \A d \in Conns : client[d] # "stalled" \/ HasRoom(d),
                      \A d \in Conns : ~ WaitsForEnded(d),
                      NEW c \in Conns, ~ AtRest(c)
               PROVE  FALSE
    BY DEF StuckByConnection
  <2>1. \A d \in Conns : HasRoom(d) \/ d \in ended
    BY <1>1, FullChannel
  <2>2. \A e \in Conns : Call(e) \notin {"sending", "directing"}
    <3> SUFFICES ASSUME NEW e \in Conns, Call(e) \in {"sending", "directing"}
                 PROVE  FALSE
      OBVIOUS
    <3>1. PICK d \in todo[e] : ~ HasRoom(d)
      BY DEF CanGoOn
    <3>2. d \in Conns
      BY <1>1, <3>1 DEF TypeOK
    <3>. QED  BY <2>1, <3>1, <3>2 DEF WaitsForEnded, SendsTo
  <2>3. \A e \in Conns : Call(e) # "reply"
    BY <2>1 DEF CanGoOn, WaitsForEnded, SendsTo
  <2>4. ParticipantReaders = {}
    BY <2>2 DEF ParticipantReaders, CanGoOn, RLockParticipants
  <2>5. \A e \in Conns : Call(e) \notin {"add", "remove"}
    BY <2>4 DEF CanGoOn
  <2>6. \A e \in Conns : Call(e) \notin {"participants", "broadcast"}
    BY <2>5 DEF CanGoOn, ReadCalls, RLockParticipants, ParticipantWriterWaits
  <2>7. \A e \in Conns : Call(e) # "endNotify"
    BY DEF CanGoOn
  <2>8. SubscriptionReaders = {}
    <3>1. notifying = {}
      BY <1>1, <2>2, <2>6, <2>7 DEF LockInv, Broadcasting, TypeOK
    <3>2. granted \subseteq Conns
      BY <1>1 DEF TypeOK
    <3>. QED  BY <3>1, <3>2 DEF SubscriptionReaders, CanGoOn, RLockSubscriptions
  <2>9. \A e \in Conns : Call(e) # "subscribe"
    BY <2>8 DEF CanGoOn
  <2>10. Call(c) # "notify"
    BY <2>9 DEF CanGoOn, RLockSubscriptions
  <2>11. Call(c) \in Calls \cup {"select"}
    BY <1>1, CallAt
  <2>. QED  BY <2>2, <2>3, <2>5, <2>6, <2>7, <2>9, <2>10, <2>11 DEF AtRest, Calls
<1>2. Init => LockInv
  BY DEF Init, LockInv
<1>3. TypeOK /\ LockInv /\ [Next]_vars => LockInv'
  BY LockStep
<1>. QED  BY <1>1, <1>2, <1>3, ForwardingTypes, PTL DEF Spec

=============================================================================
