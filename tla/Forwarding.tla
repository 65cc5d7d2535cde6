----------------------------- MODULE Forwarding -----------------------------
(***************************************************************************)
(* What the server passes on: the broadcasts of a session (Broadcast and   *)
(* BroadcastTo of models/session.go, from the handlers of                  *)
(* websocket/realtime.go), custom messages among them, and receipts, from  *)
(* the participants to the network credit service (receipt/handler.go).    *)
(*                                                                         *)
(* The module composes several connections: each has a handler goroutine,  *)
(* which enqueues into the bounded sendChan of the others and of itself, a *)
(* sender goroutine that empties its sendChan as fast as its client reads, *)
(* and a client that may stop reading or go away.  A handler is described  *)
(* by the calls it has still to make; those that can make it wait are kept,*)
(* with their locks: participantMutex, which Broadcast holds for reading   *)
(* while it waits for room, and subscriptionMutex, which Notify holds      *)
(* around a broadcast.  Both are a sync.RWMutex: once a writer waits no new*)
(* reader gets it, and a writer that is done passes it to all readers that *)
(* wait.  Messages other than custom ones all have number 0.  What goes on *)
(* in the other sessions, and what a connection does about its timers and  *)
(* its disconnectChan, which ConnectionLoop has, is left out.              *)
(***************************************************************************)
EXTENDS Naturals, Sequences, FiniteSets, FiniteSetsExt

CONSTANTS Conns,       \* the connections to the session
          SendCap,     \* capacity of sendChan, sendChanSize (512)
          ReceiptCap,  \* capacity of ReceiptChan (128)
          Loads,       \* what the clients do, a set of kinds for each load
          MaxMessages, \* bound: custom messages sent by all clients
          MaxReceipts, \* bound: receipts accepted and not yet settled
          MaxEntities  \* bound: entities a participant leaves behind

ASSUME ForwardingAssumption ==
    /\ {SendCap, ReceiptCap} \subseteq Nat \ {0}
    /\ {MaxMessages, MaxReceipts, MaxEntities} \subseteq Nat

Receipts == 1 .. MaxReceipts

VARIABLES
    load,         \* what the clients do in this behaviour
    participants, \* Session.participants
    calls,        \* the calls the handler of each connection has to make
    granted,      \* the readers a writer has passed its mutex to
    notifying,    \* who holds subscriptionMutex for reading
    todo,         \* the recipients a broadcast has yet to reach
    targets,      \* the participants a broadcast is for, {} for everyone
    number,       \* the number of the custom message at hand, or 0
    sent,         \* custom messages the client sent
    sendChan,     \* the messages in the connection's sendChan
    lastGot,      \* the last message of each participant the client got
    client,       \* whether the client reads, or the connection is closed
    ended,        \* the connections whose startSending has ended
    receipts,     \* the accepted receipts; "none" before and after
    receiptChan,  \* ReceiptChan
    receiptLoop,  \* the goroutine of HandleReceipts
    shutdown      \* the server's context is cancelled

handlerVars == <<calls, granted, notifying, todo, targets, number, sent>>
channelVars == <<sendChan, lastGot, client, ended>>
receiptVars == <<receipts, receiptChan, receiptLoop, shutdown>>
vars == <<load, participants, handlerVars, channelVars, receiptVars>>

\* A custom message of one connection; number 0 is anything else.
Messages == [from : Conns, n : Nat]

Calls == {"add", "remove", "participants", "broadcast", "sending", "directing",
          "subscribe", "notify", "endNotify", "reply", "closed"}

TypeOK ==
    /\ load \in Loads
    /\ participants \in SUBSET Conns
    /\ calls \in [Conns -> Seq(Calls)]
    /\ granted \in SUBSET Conns /\ notifying \in SUBSET Conns
    /\ todo \in [Conns -> SUBSET Conns]
    /\ targets \in [Conns -> SUBSET Conns]
    /\ number \in [Conns -> Nat]
    /\ sent \in [Conns -> Nat]
    /\ sendChan \in [Conns -> Seq(Messages)]
    /\ \A c \in Conns : Len(sendChan[c]) <= SendCap
    /\ lastGot \in [Conns -> [Conns -> Nat]]
    /\ client \in [Conns -> {"reads", "stalled", "gone"}]
    /\ ended \in SUBSET Conns
    /\ receipts \in [Receipts -> {"none", "queued", "posting"}]
    /\ receiptChan \in Seq(Receipts) /\ Len(receiptChan) <= ReceiptCap
    /\ receiptLoop \in {"running", "done"} /\ shutdown \in BOOLEAN

Init ==
    /\ load \in Loads
    /\ participants \in SUBSET Conns
    /\ calls = [c \in Conns |-> <<>>]
    /\ granted = {} /\ notifying = {}
    /\ todo = [c \in Conns |-> {}]
    /\ targets = [c \in Conns |-> {}]
    /\ number = [c \in Conns |-> 0]
    /\ sent = [c \in Conns |-> 0]
    /\ sendChan = [c \in Conns |-> <<>>]
    /\ lastGot = [c \in Conns |-> [d \in Conns |-> 0]]
    /\ client = [c \in Conns |-> "reads"]
    /\ ended = {}
    /\ receipts = [r \in Receipts |-> "none"]
    /\ receiptChan = <<>>
    /\ receiptLoop = "running" /\ shutdown = FALSE

-----------------------------------------------------------------------------
(* Handlers, locks and channels.                                           *)

\* The call the handler of c is in; its loop selects when there is none.
Call(c) == IF calls[c] = <<>> THEN "select" ELSE Head(calls[c])

Begin(c, script) == calls' = [calls EXCEPT ![c] = script]
Become(c, call) == calls' = [calls EXCEPT ![c] = [@ EXCEPT ![1] = call]]
Return(c) == calls' = [calls EXCEPT ![c] = Tail(@)]

HasRoom(d) == Len(sendChan[d]) < SendCap

\* Mutant: the message does not wait for room.
EnqueueAtOnce(d, msg) == sendChan' = [sendChan EXCEPT ![d] = Append(@, msg)]

\* sendChan <- msg, which waits for room.
Enqueue(d, msg) ==
    /\ HasRoom(d)
    /\ sendChan' = [sendChan EXCEPT ![d] = Append(@, msg)]

\* The calls that read participants under participantMutex, and who holds it.
ReadCalls == {"participants", "broadcast"}
ParticipantReaders ==
    {c \in Conns : Call(c) = "sending" \/ (c \in granted /\ Call(c) \in ReadCalls)}
ParticipantWriterWaits == \E c \in Conns : Call(c) \in {"add", "remove"}
RLockParticipants(c) == c \in granted \/ ~ ParticipantWriterWaits
UnlockParticipants == granted' = granted \cup {d \in Conns : Call(d) \in ReadCalls}

\* The same for subscriptionMutex.
SubscriptionReaders == notifying \cup {c \in granted : Call(c) = "notify"}
RLockSubscriptions(c) == c \in granted \/ \A d \in Conns : Call(d) # "subscribe"
UnlockSubscriptions == granted' = granted \cup {d \in Conns : Call(d) = "notify"}

-----------------------------------------------------------------------------
(* Requests.                                                               *)

\* The select loop of c goes on; it ends when the server is shut down.
Selecting(c) == Call(c) = "select" /\ ~ shutdown

\* It takes a message of this kind.
Receiving(c, kind) == Selecting(c) /\ kind \in load

\* What a request does not change; the rest is for its handler.
OnlyBegins == UNCHANGED <<load, participants, granted, notifying, todo, channelVars>>
NothingElse == OnlyBegins /\ UNCHANGED <<targets, number, sent, receiptVars>>

\* HandleParticipantJoin: the response, SessionState and the announcement.
Join(c) ==
    /\ Receiving(c, "join") /\ c \notin participants
    /\ Begin(c, <<"add", "reply", "participants", "reply", "broadcast">>)
    /\ NothingElse

\* leaveSession, with a broadcast for each of the entities it deletes.
LeaveSession(entities) ==
    <<"subscribe">> \o [i \in 1 .. entities |-> "broadcast"]
                    \o <<"remove", "broadcast", "participants">>

\* A request to join another session: this one is left, then comes the answer
\* of the other; the connection stays open.
SwitchSession(c, entities) ==
    /\ Receiving(c, "join") /\ c \in participants
    /\ Begin(c, LeaveSession(entities) \o <<"reply">>)
    /\ NothingElse

\* Mutant: a connection is closed once its sendChan is flushed.
DisconnectAfterFlush(c, entities) ==
    /\ Selecting(c)
    /\ sendChan[c] = <<>>
    /\ client' = [client EXCEPT ![c] = "gone"]
    /\ Begin(c, IF c \in participants THEN LeaveSession(entities) \o <<"closed">> ELSE <<"closed">>)
    /\ UNCHANGED <<load, participants, granted, notifying, todo, targets, number, sent,
                   sendChan, lastGot, ended, receiptVars>>

\* The select loop takes an element of disconnectChan, left there by the
\* idle timeout, by a handler that failed or by the other goroutines.
Disconnect(c, entities) ==
    /\ Selecting(c)
    /\ client' = [client EXCEPT ![c] = "gone"]
    /\ Begin(c, IF c \in participants THEN LeaveSession(entities) \o <<"closed">> ELSE <<"closed">>)
    /\ UNCHANGED <<load, participants, granted, notifying, todo, targets, number, sent,
                   sendChan, lastGot, ended, receiptVars>>

MaySend == MapThenSumSet(LAMBDA c : sent[c], Conns) < MaxMessages

\* A custom message for the given participants, or for all when there are none.
\* (The sender's own id, if it is among them, is passed over.)
CustomMessage(c, to) ==
    /\ Receiving(c, "custom") /\ c \in participants
    /\ MaySend
    /\ sent' = [sent EXCEPT ![c] = @ + 1]
    /\ number' = [number EXCEPT ![c] = sent'[c]]
    /\ targets' = [targets EXCEPT ![c] = to]
    /\ Begin(c, <<"broadcast">>)
    /\ OnlyBegins /\ UNCHANGED receiptVars

\* An entity is added or deleted, with an answer, or its pose updated.
Announce(c) ==
    /\ Receiving(c, "announce") /\ c \in participants
    /\ \E answer \in {<<"reply">>, <<>>} : Begin(c, answer \o <<"broadcast">>)
    /\ NothingElse

\* The same for a component.
ChangeComponent(c) ==
    /\ Receiving(c, "component") /\ c \in participants
    /\ \E answer \in {<<"reply">>, <<>>} : Begin(c, answer \o <<"notify">>)
    /\ NothingElse

\* A subscription to a component type, or its end.
ChangeSubscription(c) ==
    /\ Receiving(c, "component") /\ c \in participants
    /\ Begin(c, <<"subscribe", "reply">>)
    /\ NothingElse

\* A request that is only answered: because it is refused (a receipt if there is
\* no room for it), or since nobody else need hear of it; or the sync clock.
Answer(c) ==
    /\ Receiving(c, "answer")
    /\ Begin(c, <<"reply">>)
    /\ NothingElse

\* HandleReceipt: a complete receipt is put into ReceiptChan if there is room.
Receipt(c, r) ==
    /\ Receiving(c, "receipt")
    /\ Len(receiptChan) < ReceiptCap
    /\ receipts[r] = "none" /\ \A q \in 1 .. r - 1 : receipts[q] # "none"
    /\ receiptChan' = Append(receiptChan, r)
    /\ receipts' = [receipts EXCEPT ![r] = "queued"]
    /\ Begin(c, <<"reply">>)
    /\ OnlyBegins /\ UNCHANGED <<targets, number, sent, receiptLoop, shutdown>>

-----------------------------------------------------------------------------
(* The calls.                                                              *)

AddParticipant(c) ==
    /\ Call(c) = "add" /\ ParticipantReaders = {}
    /\ participants' = participants \cup {c}
    /\ UnlockParticipants /\ Return(c)
    /\ UNCHANGED <<load, notifying, todo, targets, number, sent, channelVars, receiptVars>>

RemoveParticipant(c) ==
    /\ Call(c) = "remove" /\ ParticipantReaders = {}
    /\ participants' = participants \ {c}
    /\ UnlockParticipants /\ Return(c)
    /\ UNCHANGED <<load, notifying, todo, targets, number, sent, channelVars, receiptVars>>

\* GetParticipants and ParticipantCount.
GetParticipants(c) ==
    /\ Call(c) = "participants" /\ RLockParticipants(c)
    /\ granted' = granted \ {c}
    /\ Return(c)
    /\ UNCHANGED <<load, participants, notifying, todo, targets, number, sent, channelVars,
                   receiptVars>>

\* Broadcast takes participantMutex and keeps it; BroadcastTo holds it only
\* while GetParticipantsByIDs looks the recipients up.
FindRecipients(c) ==
    /\ Call(c) = "broadcast" /\ RLockParticipants(c)
    /\ granted' = granted \ {c}
    /\ IF targets[c] = {}
       THEN /\ todo' = [todo EXCEPT ![c] = participants \ {c}]
            /\ Become(c, "sending")
       ELSE /\ todo' = [todo EXCEPT ![c] = (participants \cap targets[c]) \ {c}]
            /\ Become(c, "directing")
    /\ UNCHANGED <<load, participants, notifying, targets, number, sent, channelVars, receiptVars>>

\* What c sends to d: its custom message, or anything else.
MessageTo(c, d) == [from |-> IF number[c] = 0 THEN d ELSE c, n |-> number[c]]

\* Mutant: isParticipantHandled is not updated.
SendMsgAgain(c, d) ==
    /\ Call(c) \in {"sending", "directing"}
    /\ d \in todo[c]
    /\ Enqueue(d, MessageTo(c, d))
    /\ UNCHANGED <<load, participants, handlerVars, lastGot, client, ended, receiptVars>>

\* SendMsg to the next recipient.
SendMsg(c, d) ==
    /\ Call(c) \in {"sending", "directing"}
    /\ d \in todo[c]
    /\ Enqueue(d, MessageTo(c, d))
    /\ todo' = [todo EXCEPT ![c] = @ \ {d}]
    /\ UNCHANGED <<load, participants, calls, granted, notifying, targets, number, sent,
                   lastGot, client, ended, receiptVars>>

EndBroadcast(c) ==
    /\ Call(c) \in {"sending", "directing"}
    /\ todo[c] = {}
    /\ targets' = [targets EXCEPT ![c] = {}]
    /\ number' = [number EXCEPT ![c] = 0]
    /\ Return(c)
    /\ UNCHANGED <<load, participants, granted, notifying, todo, sent, channelVars, receiptVars>>

\* Subscribe, Unsubscribe and UnsubscribeByParticipant.
Subscribe(c) ==
    /\ Call(c) = "subscribe" /\ SubscriptionReaders = {}
    /\ UnlockSubscriptions /\ Return(c)
    /\ UNCHANGED <<load, participants, notifying, todo, targets, number, sent, channelVars,
                   receiptVars>>

\* Notify, the last call of its handlers: if anybody has subscribed it keeps
\* subscriptionMutex while everybody is told of a component added or deleted,
\* or the subscribers of its update.
Notify(c) ==
    /\ Call(c) = "notify" /\ RLockSubscriptions(c)
    /\ granted' = granted \ {c}
    /\ \/ /\ Begin(c, <<>>)
          /\ UNCHANGED <<notifying, targets>>
       \/ /\ notifying' = notifying \cup {c}
          /\ Begin(c, <<"broadcast", "endNotify">>)
          /\ \E to \in SUBSET (Conns \ {c}) : targets' = [targets EXCEPT ![c] = to]
    /\ UNCHANGED <<load, participants, todo, number, sent, channelVars, receiptVars>>

EndNotify(c) ==
    /\ Call(c) = "endNotify"
    /\ notifying' = notifying \ {c}
    /\ Return(c)
    /\ UNCHANGED <<load, participants, granted, todo, targets, number, sent, channelVars,
                   receiptVars>>

\* respond.Send.
Reply(c) ==
    /\ Call(c) = "reply"
    /\ Enqueue(c, [from |-> c, n |-> 0])
    /\ Return(c)
    /\ UNCHANGED <<load, participants, granted, notifying, todo, targets, number, sent,
                   lastGot, client, ended, receiptVars>>

-----------------------------------------------------------------------------
(* ReceiptHandler.                                                         *)

\* Mutant: the loop ends at a receipt that is not valid.
HandleReceiptsUntilInvalid ==
    /\ receiptLoop = "running"
    /\ receiptChan # <<>>
    /\ receiptChan' = Tail(receiptChan)
    /\ \E verdict \in {"posting", "none"} :
          /\ receipts' = [receipts EXCEPT ![Head(receiptChan)] = verdict]
          /\ receiptLoop' = IF verdict = "none" THEN "done" ELSE receiptLoop
    /\ UNCHANGED <<load, participants, handlerVars, channelVars, shutdown>>

\* The loop of HandleReceipts takes a receipt, verifies it and starts a
\* goroutine that posts it.
HandleReceipts ==
    /\ receiptLoop = "running"
    /\ receiptChan # <<>>
    /\ receiptChan' = Tail(receiptChan)
    /\ \E verdict \in {"posting", "none"} :
          receipts' = [receipts EXCEPT ![Head(receiptChan)] = verdict]
    /\ UNCHANGED <<load, participants, handlerVars, channelVars, receiptLoop, shutdown>>

\* PostReceipt succeeds, or it fails (the service, or the cancelled context)
\* and is not tried again.
ForwardToNCS(r) ==
    /\ receipts[r] = "posting"
    /\ receipts' = [receipts EXCEPT ![r] = "none"]
    /\ UNCHANGED <<load, participants, handlerVars, channelVars, receiptChan, receiptLoop, shutdown>>

StopReceipts ==
    /\ receiptLoop = "running"
    /\ shutdown
    /\ receiptLoop' = "done"
    /\ UNCHANGED <<load, participants, handlerVars, channelVars, receipts, receiptChan, shutdown>>

-----------------------------------------------------------------------------
(* Senders, clients and the server's end.                                  *)

\* startSending writes the next message, and the client reads it.
SenderWrites(c) ==
    /\ c \notin ended /\ client[c] = "reads"
    /\ sendChan[c] # <<>>
    /\ sendChan' = [sendChan EXCEPT ![c] = Tail(@)]
    /\ lastGot' = LET msg == Head(sendChan[c]) IN
          IF msg.n = 0 THEN lastGot ELSE [lastGot EXCEPT ![c][msg.from] = msg.n]
    /\ UNCHANGED <<load, participants, handlerVars, client, ended, receiptVars>>

\* A write to a closed connection fails, or the context is cancelled, which
\* HandleDisconnect's caller does once the session is left: startSending
\* empties sendChan and ends.
SenderEnds(c) ==
    /\ c \notin ended
    /\ (client[c] = "gone" /\ sendChan[c] # <<>>) \/ Call(c) = "closed" \/ shutdown
    /\ ended' = ended \cup {c}
    /\ sendChan' = [sendChan EXCEPT ![c] = <<>>]
    /\ UNCHANGED <<load, participants, handlerVars, lastGot, client, receiptVars>>

ClientStalls(c) ==
    /\ "stall" \in load /\ client[c] = "reads"
    /\ client' = [client EXCEPT ![c] = "stalled"]
    /\ UNCHANGED <<load, participants, handlerVars, sendChan, lastGot, ended, receiptVars>>

\* The client goes away: the next write fails.
ClientCloses(c) ==
    /\ "stall" \in load /\ client[c] # "gone"
    /\ client' = [client EXCEPT ![c] = "gone"]
    /\ UNCHANGED <<load, participants, handlerVars, sendChan, lastGot, ended, receiptVars>>

ShutDown ==
    /\ ~ shutdown /\ "shutdown" \in load
    /\ shutdown' = TRUE
    /\ UNCHANGED <<load, participants, handlerVars, channelVars, receipts, receiptChan, receiptLoop>>

-----------------------------------------------------------------------------
\* The next step of what the handler goroutine of c is doing.
Handle(c) ==
    \/ AddParticipant(c) \/ RemoveParticipant(c) \/ GetParticipants(c)
    \/ FindRecipients(c) \/ (\E d \in Conns : SendMsg(c, d)) \/ EndBroadcast(c)
    \/ Subscribe(c) \/ Notify(c) \/ EndNotify(c) \/ Reply(c)

\* The steps of startSending that are not held up by the client.
Sender(c) == SenderWrites(c) \/ (client[c] # "stalled" /\ SenderEnds(c))

DisconnectAny(c) == \E k \in 0 .. MaxEntities : Disconnect(c, k)

Request(c) ==
    \/ Join(c) \/ (\E k \in 0 .. MaxEntities : SwitchSession(c, k))
    \/ \E to \in SUBSET (Conns \ {c}) : CustomMessage(c, to)
    \/ Announce(c) \/ ChangeComponent(c) \/ ChangeSubscription(c) \/ Answer(c)
    \/ \E r \in Receipts : Receipt(c, r)

Next ==
    \/ \E c \in Conns : \/ Request(c) \/ DisconnectAny(c) \/ Handle(c)
                        \/ SenderWrites(c) \/ SenderEnds(c) \/ ClientStalls(c) \/ ClientCloses(c)
    \/ HandleReceipts \/ StopReceipts \/ ShutDown
    \/ \E r \in Receipts : ForwardToNCS(r)

Spec == Init /\ [][Next]_vars

\* Goroutines that can go on do; of several that wait for a mutex or for room
\* in a channel each gets its turn; a silent client runs into the idle timeout.
\* Nothing makes a client join, send or read.
Fairness ==
    /\ \A c \in Conns : /\ SF_vars(Handle(c)) /\ WF_vars(DisconnectAny(c))
                        /\ WF_vars(Sender(c))
    /\ WF_vars(HandleReceipts) /\ \A r \in Receipts : WF_vars(ForwardToNCS(r))

FairSpec == Spec /\ Fairness

-----------------------------------------------------------------------------
(* Properties.                                                             *)

\* A client gets the custom messages of another in the order they were sent
\* and none of them twice, whatever kind each is and however the broadcasts
\* of several senders interleave in its sendChan.
MessagesStayInOrder ==
    \A c \in Conns : \A i \in DOMAIN sendChan[c] :
        LET msg == sendChan[c][i] IN msg.n # 0 =>
            /\ msg.n > lastGot[c][msg.from]
            /\ \A j \in 1 .. i - 1 : sendChan[c][j].from = msg.from => sendChan[c][j].n < msg.n

\* Waiting for a request, or for good.
AtRest(c) == Call(c) \in {"select", "closed"}

\* The handler of c has still to send to d.
SendsTo(c, d) ==
    (Call(c) \in {"sending", "directing"} /\ d \in todo[c]) \/ (Call(c) = "reply" /\ c = d)

\* A handler has still to send to d, whose sender has ended: nobody empties its
\* sendChan, which is full.
WaitsForEnded(d) == d \in ended /\ ~ HasRoom(d) /\ \E c \in Conns : SendsTo(c, d)

\* The client of d does not read, its sendChan is full, and the idle timeout does
\* nothing about it: d's handler is busy itself, or its loop has ended.
StalledForGood(d) == client[d] = "stalled" /\ ~ HasRoom(d) /\ (~ AtRest(d) \/ shutdown)

\* Handlers that join, leave, broadcast to each other, and to clients that stop
\* reading, get through, because the idle timeout takes a silent client down;
\* except when the handler of such a client is itself busy or the server is shut
\* down, and when a sendChan fills up again whose sender has ended.
HandlersReturn ==
    \A c \in Conns : []<>(AtRest(c) \/ \E d \in Conns : StalledForGood(d) \/ WaitsForEnded(d))

\* A receipt that was accepted is verified and, if valid, posted or given up;
\* it is not left in ReceiptChan unless the server is shut down.
ReceiptsAreSettled ==
    \A r \in Receipts :
        receipts[r] \in {"queued", "posting"} ~>
            receipts[r] = "none" \/ (receipts[r] = "queued" /\ shutdown)

=============================================================================
