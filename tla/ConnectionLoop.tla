--------------------------- MODULE ConnectionLoop ---------------------------
(***************************************************************************)
(* The goroutines of one websocket connection (websocket/handler.go):      *)
(* the select loop of Handle (main), startSending (sender) and             *)
(* startReceiving (receiver), the channels between them, the client at the *)
(* other end, the other connections' broadcasts into sendChan, and what    *)
(* Handle's goroutine does with the session: its handlers enqueue into the *)
(* channels of other connections and take locks that others hold while     *)
(* they enqueue, and joining another session or disconnecting leaves the   *)
(* current one.                                                            *)
(*                                                                         *)
(* Channels are counted, not listed: what matters here is who waits for    *)
(* room, for an element, or for a lock.                                    *)
(***************************************************************************)
EXTENDS Naturals

CONSTANTS DisconnectCap,  \* capacity of disconnectChan (8 in the code)
          SendCap,        \* capacity of sendChan, sendChanSize (512)
          InboxCap,       \* capacity of the scheduler's message channel
          MaxReplies,     \* bound: messages one request makes the handler send
          MaxMessages,    \* bound: messages the client sends
          MaxBroadcasts,  \* bound: broadcasts of others to this client
          MayFail,        \* whether handling a message may return an error
          MayStall,       \* whether the client may stop reading
          MayShutDown     \* whether the server may be shut down

ASSUME ConnectionLoopAssumption ==
    /\ {DisconnectCap, SendCap, InboxCap} \subseteq Nat \ {0}
    /\ {MaxReplies, MaxMessages, MaxBroadcasts} \subseteq Nat
    /\ {MayFail, MayStall, MayShutDown} \subseteq BOOLEAN

VARIABLES
    main,           \* where the goroutine of Handle stands
    joined,         \* the participant is in its session
    sends,          \* messages the handler being run has yet to enqueue
    fails,          \* the handler returned an error, which is being reported
    sender,         \* where startSending stands
    receiver,       \* where startReceiving stands
    broadcaster,    \* how another connection reaches this one: "broadcast"
                    \* (Session.Broadcast), "notify" (Notify), "directed"
                    \* (BroadcastTo outside Notify), or "idle"
    heldUp,         \* other connections hold up Handle's goroutine for ever
    disconnectChan, \* elements in disconnectChan
    sendChan,       \* elements in sendChan
    inbox,          \* elements in the scheduler's message channel
    idleTimer,      \* "armed", "fired" (the tick waits in its channel), "off"
    cancelled,      \* the connection's context
    shutdown,       \* the server's context
    connClosed,     \* Conn.Close was called
    left,           \* how often Handler.HandleDisconnect was called
    client,         \* the other end: "reading", "stalled" or "closed"
    messages,       \* messages sent by the client
    broadcasts      \* broadcasts begun by other connections

mainVars == <<main, joined, sends, fails>>
chanVars == <<disconnectChan, sendChan, inbox>>
ctxVars == <<cancelled, shutdown, connClosed, left>>
envVars == <<client, heldUp, messages, broadcasts>>
vars == <<mainVars, sender, receiver, broadcaster, chanVars, idleTimer, ctxVars, envVars>>

TypeOK ==
    /\ main \in {"loop", "select", "ticking", "handling", "broadcasting", "subscribing", "joining", "push",
                 "unsubscribing", "deleting", "announcing", "disconnected", "waiting", "returned"}
    /\ sends \in 0 .. MaxReplies
    /\ joined \in BOOLEAN /\ fails \in BOOLEAN /\ heldUp \in BOOLEAN
    /\ sender \in {"select", "writing", "reporting", "done"}
    /\ receiver \in {"check", "reading", "dispatching", "reporting", "done"}
    /\ broadcaster \in {"idle", "broadcast", "notify", "directed"}
    /\ disconnectChan \in 0 .. DisconnectCap
    /\ sendChan \in 0 .. SendCap
    /\ inbox \in 0 .. InboxCap
    /\ idleTimer \in {"armed", "fired", "off"}
    /\ cancelled \in BOOLEAN /\ shutdown \in BOOLEAN /\ connClosed \in BOOLEAN
    /\ left \in 0 .. 1
    /\ client \in {"reading", "stalled", "closed"}
    /\ messages \in 0 .. MaxMessages
    /\ broadcasts \in 0 .. MaxBroadcasts

Init ==
    /\ main = "loop" /\ joined = FALSE /\ sends = 0 /\ fails = FALSE
    /\ sender = "select" /\ receiver = "check" /\ broadcaster = "idle"
    /\ disconnectChan = 0 /\ sendChan = 0 /\ inbox = 0
    /\ idleTimer = "armed"
    /\ cancelled = FALSE /\ shutdown = FALSE /\ connClosed = FALSE
    /\ left = 0
    /\ client = "reading" /\ heldUp = FALSE /\ messages = 0 /\ broadcasts = 0

-----------------------------------------------------------------------------
(* The client and the rest of the server.                                  *)

ClientCloses ==
    /\ client # "closed"
    /\ client' = "closed"
    /\ UNCHANGED <<mainVars, sender, receiver, broadcaster, chanVars, idleTimer, ctxVars,
                   heldUp, messages, broadcasts>>

\* A client that stops reading without closing the connection.
ClientStalls ==
    /\ MayStall
    /\ client = "reading"
    /\ client' = "stalled"
    /\ UNCHANGED <<mainVars, sender, receiver, broadcaster, chanVars, idleTimer, ctxVars,
                   heldUp, messages, broadcasts>>

\* The signal that stops the server cancels the context handed to Handle.
ShutDown ==
    /\ MayShutDown
    /\ ~ shutdown
    /\ shutdown' = TRUE
    /\ cancelled' = TRUE
    /\ UNCHANGED <<mainVars, sender, receiver, broadcaster, chanVars, idleTimer,
                   connClosed, left, envVars>>

\* Handle's goroutine has to get past other connections: it broadcasts to them
\* or takes a lock.  One wait at such a place stands for any number in a row.
NeedsOthers ==
    main \in {"broadcasting", "subscribing", "joining", "unsubscribing", "deleting", "announcing"}

\* The others never let it get on: a sendChan of theirs stays full.  (To be
\* held up for a while is no different from being slow.)
OthersHoldUp ==
    /\ ~ heldUp
    /\ NeedsOthers
    /\ heldUp' = TRUE
    /\ UNCHANGED <<mainVars, sender, receiver, broadcaster, chanVars, idleTimer, ctxVars,
                   client, messages, broadcasts>>

\* Another participant's handler has found this one.  Until its message is
\* enqueued, Session.Broadcast keeps participantMutex and Notify keeps
\* subscriptionMutex, for reading; BroadcastTo alone keeps neither.  Notify
\* does not find a participant whose subscriptions are gone.
BroadcastBegins ==
    /\ broadcaster = "idle"
    /\ joined
    /\ broadcasts < MaxBroadcasts
    /\ broadcaster' \in {"broadcast", "directed"} \cup IF main = "deleting" THEN {} ELSE {"notify"}
    /\ broadcasts' = broadcasts + 1
    /\ UNCHANGED <<mainVars, sender, receiver, chanVars, idleTimer, ctxVars, client, heldUp, messages>>

BroadcastEnqueues ==
    /\ broadcaster # "idle"
    /\ sendChan < SendCap
    /\ sendChan' = sendChan + 1
    /\ broadcaster' = "idle"
    /\ UNCHANGED <<mainVars, sender, receiver, disconnectChan, inbox, idleTimer, ctxVars, envVars>>

\* Handle's goroutine waits for room in its own sendChan: its handler enqueues
\* an answer, or needs a lock of a broadcaster that enqueues there.
WaitsForRoom ==
    /\ sendChan = SendCap
    /\ \/ main = "ticking" \/ (main = "handling" /\ sends > 0)
       \/ main \in {"subscribing", "unsubscribing"} /\ broadcaster = "notify"
       \/ main = "deleting" /\ broadcaster = "broadcast"

\* Room in disconnectChan is waited for by the loop, which alone empties it,
\* or by a goroutine when the loop has ended.
WaitsInDisconnect ==
    /\ disconnectChan = DisconnectCap
    /\ main = "push" \/ (main = "waiting" /\ "reporting" \in {sender, receiver})

Stuck == WaitsForRoom \/ heldUp \/ WaitsInDisconnect

\* The idle timeout elapses.
IdleTimerFires ==
    /\ idleTimer = "armed"
    /\ idleTimer' = "fired"
    /\ UNCHANGED <<mainVars, sender, receiver, broadcaster, chanVars, ctxVars, envVars>>

-----------------------------------------------------------------------------
(* startReceiving.                                                         *)

ReceiverChecks ==
    /\ receiver = "check"
    /\ receiver' = IF cancelled THEN "done" ELSE "reading"
    /\ UNCHANGED <<mainVars, sender, broadcaster, chanVars, idleTimer, ctxVars, envVars>>

\* A message of the client arrives.
ReceiverReads ==
    /\ receiver = "reading"
    /\ client # "closed" /\ ~ connClosed
    /\ messages < MaxMessages
    /\ messages' = messages + 1
    /\ receiver' = "dispatching"
    /\ UNCHANGED <<mainVars, sender, broadcaster, chanVars, idleTimer, ctxVars,
                   client, heldUp, broadcasts>>

ReceiverFails ==
    /\ receiver = "reading"
    /\ client = "closed" \/ connClosed
    /\ receiver' = "reporting"
    /\ UNCHANGED <<mainVars, sender, broadcaster, chanVars, idleTimer, ctxVars, envVars>>

\* Scheduler.Dispatch hands the message to the select loop, or gives up once
\* the context is cancelled.
Dispatch ==
    /\ receiver = "dispatching"
    /\ \/ /\ inbox < InboxCap
          /\ inbox' = inbox + 1
          /\ receiver' = "check"
       \/ /\ cancelled
          /\ receiver' = "reporting"
          /\ UNCHANGED inbox
    /\ UNCHANGED <<mainVars, sender, broadcaster, disconnectChan, sendChan, idleTimer,
                   ctxVars, envVars>>

\* disconnect(err) waits for room, then startReceiving returns.
ReceiverReports ==
    /\ receiver = "reporting"
    /\ disconnectChan < DisconnectCap
    /\ disconnectChan' = disconnectChan + 1
    /\ receiver' = "done"
    /\ UNCHANGED <<mainVars, sender, broadcaster, sendChan, inbox, idleTimer, ctxVars, envVars>>

-----------------------------------------------------------------------------
(* startSending.  When it returns it empties sendChan.                     *)

\* Mutant: only handleDisconnect, not the server's context, ends it.
SenderExitsAfterLeaving ==
    /\ sender = "select"
    /\ left = 1 /\ cancelled
    /\ sender' = "done"
    /\ sendChan' = 0
    /\ UNCHANGED <<mainVars, receiver, broadcaster, disconnectChan, inbox, idleTimer,
                   ctxVars, envVars>>

\* The context is cancelled.
SenderExits ==
    /\ sender = "select"
    /\ cancelled
    /\ sender' = "done"
    /\ sendChan' = 0
    /\ UNCHANGED <<mainVars, receiver, broadcaster, disconnectChan, inbox, idleTimer,
                   ctxVars, envVars>>

SenderTakes ==
    /\ sender = "select"
    /\ sendChan > 0
    /\ sendChan' = sendChan - 1
    /\ sender' = "writing"
    /\ UNCHANGED <<mainVars, receiver, broadcaster, disconnectChan, inbox, idleTimer,
                   ctxVars, envVars>>

\* Writing to the connection waits while the client does not read.
SenderWrites ==
    /\ sender = "writing"
    /\ client = "reading" /\ ~ connClosed
    /\ sender' = "select"
    /\ UNCHANGED <<mainVars, receiver, broadcaster, chanVars, idleTimer, ctxVars, envVars>>

SenderFails ==
    /\ sender = "writing"
    /\ client = "closed" \/ connClosed
    /\ sender' = "reporting"
    /\ UNCHANGED <<mainVars, receiver, broadcaster, chanVars, idleTimer, ctxVars, envVars>>

SenderReports ==
    /\ sender = "reporting"
    /\ disconnectChan < DisconnectCap
    /\ disconnectChan' = disconnectChan + 1
    /\ sender' = "done"
    /\ sendChan' = 0
    /\ UNCHANGED <<mainVars, receiver, broadcaster, inbox, idleTimer, ctxVars, envVars>>

-----------------------------------------------------------------------------
(* The loop of Handle.                                                     *)

\* for ctx.Err() == nil
LoopTest ==
    /\ main = "loop"
    /\ main' = IF cancelled THEN "waiting" ELSE "select"
    /\ UNCHANGED <<joined, sends, fails, sender, receiver, broadcaster, chanVars, idleTimer, ctxVars, envVars>>

SelectContextDone ==
    /\ main = "select"
    /\ cancelled
    /\ main' = "push"
    /\ UNCHANGED <<joined, sends, fails, sender, receiver, broadcaster, chanVars, idleTimer, ctxVars, envVars>>

\* Mutant: the idle timeout is noticed and not reported.
SelectIdleSilently ==
    /\ main = "select"
    /\ idleTimer = "fired"
    /\ idleTimer' = "off"
    /\ main' = "loop"
    /\ UNCHANGED <<joined, sends, fails, sender, receiver, broadcaster, chanVars, ctxVars, envVars>>

SelectIdle ==
    /\ main = "select"
    /\ idleTimer = "fired"
    /\ idleTimer' = "off"
    /\ main' = "push"
    /\ UNCHANGED <<joined, sends, fails, sender, receiver, broadcaster, chanVars, ctxVars, envVars>>

\* The sync clock interval elapses.  It is long compared with the work of the
\* loop, so that happens while no other case is ready.
SelectSyncClock ==
    /\ main = "select"
    /\ disconnectChan = 0 /\ inbox = 0 /\ idleTimer # "fired" /\ ~ cancelled
    /\ main' = "ticking"
    /\ UNCHANGED <<joined, sends, fails, sender, receiver, broadcaster, chanVars, idleTimer,
                   ctxVars, envVars>>

\* SendSyncClock enqueues one message and returns no error.
SendSyncClock ==
    /\ main = "ticking"
    /\ sendChan < SendCap
    /\ sendChan' = sendChan + 1
    /\ main' = "loop"
    /\ UNCHANGED <<joined, sends, fails, sender, receiver, broadcaster, disconnectChan, inbox,
                   idleTimer, ctxVars, envVars>>

\* handleMessage: the idle timer is stopped and started again, then the
\* handler of the message runs.  It may take subscriptionMutex; a join leaves
\* the session the participant is in, if any, and adds it to another one.
SelectMessage ==
    /\ main = "select"
    /\ inbox > 0
    /\ inbox' = inbox - 1
    /\ idleTimer' = "armed"
    /\ main' \in {"handling"} \cup IF joined THEN {"subscribing", "unsubscribing"} ELSE {"joining"}
    /\ sends' \in 0 .. MaxReplies
    /\ UNCHANGED <<joined, fails, sender, receiver, broadcaster, disconnectChan, sendChan,
                   ctxVars, envVars>>

\* Subscribe and Unsubscribe: subscriptionMutex is taken and released.
Subscribe ==
    /\ main = "subscribing"
    /\ broadcaster # "notify" /\ ~ heldUp
    /\ main' = "handling"
    /\ UNCHANGED <<joined, sends, fails, sender, receiver, broadcaster, chanVars, idleTimer,
                   ctxVars, envVars>>

\* AddParticipant needs participantMutex of the session that is joined.
AddParticipant ==
    /\ main = "joining"
    /\ ~ heldUp
    /\ joined' = TRUE
    /\ main' = "handling"
    /\ UNCHANGED <<sends, fails, sender, receiver, broadcaster, chanVars, idleTimer, ctxVars, envVars>>

\* Mutant: the message does not wait for room.
HandlerSendsAtOnce ==
    /\ main = "handling"
    /\ sends > 0
    /\ sendChan' = sendChan + 1
    /\ sends' = sends - 1
    /\ UNCHANGED <<main, joined, fails, sender, receiver, broadcaster, disconnectChan, inbox,
                   idleTimer, ctxVars, envVars>>

\* send: sendChan <- msg waits for room.
HandlerSends ==
    /\ main = "handling"
    /\ sends > 0
    /\ sendChan < SendCap
    /\ sendChan' = sendChan + 1
    /\ sends' = sends - 1
    /\ UNCHANGED <<main, joined, fails, sender, receiver, broadcaster, disconnectChan, inbox,
                   idleTimer, ctxVars, envVars>>

\* Session.Broadcast, BroadcastTo or Notify, and lookups under a lock.
HandlerBroadcasts ==
    /\ main = "handling"
    /\ sends = 0 /\ joined
    /\ main' = "broadcasting"
    /\ UNCHANGED <<joined, sends, fails, sender, receiver, broadcaster, chanVars, idleTimer,
                   ctxVars, envVars>>

HandlerReturns ==
    /\ \/ main = "handling" /\ sends = 0
       \/ main = "broadcasting" /\ ~ heldUp
    /\ fails' \in {FALSE, MayFail}
    /\ main' = IF fails' THEN "push" ELSE "loop"
    /\ UNCHANGED <<joined, sends, sender, receiver, broadcaster, chanVars, idleTimer,
                   ctxVars, envVars>>

\* disconnect(err), called by the loop itself, waits for room.
PushDisconnect ==
    /\ main = "push"
    /\ disconnectChan < DisconnectCap
    /\ disconnectChan' = disconnectChan + 1
    /\ fails' = FALSE
    /\ main' = "loop"
    /\ UNCHANGED <<joined, sends, sender, receiver, broadcaster, sendChan, inbox, idleTimer,
                   ctxVars, envVars>>

\* handleDisconnect closes the connection and leaves the session, if any.
SelectDisconnect ==
    /\ main = "select"
    /\ disconnectChan > 0
    /\ disconnectChan' = disconnectChan - 1
    /\ connClosed' = TRUE
    /\ main' = IF joined THEN "unsubscribing" ELSE "disconnected"
    /\ UNCHANGED <<joined, sends, fails, sender, receiver, broadcaster, sendChan, inbox,
                   idleTimer, cancelled, shutdown, left, envVars>>

\* Mutant: the context is not cancelled.
HandleDisconnectNoCancel ==
    /\ main = "disconnected"
    /\ left' = left + 1
    /\ main' = "loop"
    /\ UNCHANGED <<joined, sends, fails, sender, receiver, broadcaster, chanVars, idleTimer,
                   cancelled, shutdown, connClosed, envVars>>

\* HandleDisconnect has returned; the context is cancelled.
HandleDisconnect ==
    /\ main = "disconnected"
    /\ left' = left + 1
    /\ cancelled' = TRUE
    /\ main' = "loop"
    /\ UNCHANGED <<joined, sends, fails, sender, receiver, broadcaster, chanVars, idleTimer,
                   shutdown, connClosed, envVars>>

\* Mutant: Handle returns without waiting for its goroutines.
ReturnAtOnce ==
    /\ main = "waiting"
    /\ main' = "returned"
    /\ disconnectChan' = 0
    /\ UNCHANGED <<joined, sends, fails, sender, receiver, broadcaster, sendChan, inbox,
                   idleTimer, ctxVars, envVars>>

\* wg.Wait(), then the deferred function empties disconnectChan.
Return ==
    /\ main = "waiting"
    /\ sender = "done" /\ receiver = "done"
    /\ main' = "returned"
    /\ disconnectChan' = 0
    /\ UNCHANGED <<joined, sends, fails, sender, receiver, broadcaster, sendChan, inbox,
                   idleTimer, ctxVars, envVars>>

-----------------------------------------------------------------------------
(* leaveSession, called by handleDisconnect or by a join.                  *)

\* The subscriptions go, under subscriptionMutex.
UnsubscribeByParticipant ==
    /\ main = "unsubscribing"
    /\ broadcaster # "notify" /\ ~ heldUp
    /\ main' = "deleting"
    /\ UNCHANGED <<joined, sends, fails, sender, receiver, broadcaster, chanVars, idleTimer,
                   ctxVars, envVars>>

\* The deletions of the participant's entities are broadcast, then
\* RemoveParticipant needs participantMutex.
RemoveParticipant ==
    /\ main = "deleting"
    /\ broadcaster # "broadcast" /\ ~ heldUp
    /\ joined' = FALSE
    /\ main' = "announcing"
    /\ UNCHANGED <<sends, fails, sender, receiver, broadcaster, chanVars, idleTimer, ctxVars, envVars>>

\* The leave is broadcast and leaveSession returns; a join goes on to the new
\* session or answers that there is none.
SessionLeft ==
    /\ main = "announcing"
    /\ ~ heldUp
    /\ main' \in IF connClosed THEN {"disconnected"} ELSE {"joining", "handling"}
    /\ UNCHANGED <<joined, sends, fails, sender, receiver, broadcaster, chanVars, idleTimer,
                   ctxVars, envVars>>

-----------------------------------------------------------------------------
Client == ClientCloses \/ ClientStalls
Receiver == ReceiverChecks \/ ReceiverReads \/ ReceiverFails \/ Dispatch \/ ReceiverReports
Sender == SenderExits \/ SenderTakes \/ SenderWrites \/ SenderFails \/ SenderReports
Broadcaster == BroadcastBegins \/ BroadcastEnqueues
Main == \/ LoopTest \/ SelectContextDone \/ SelectIdle \/ SelectSyncClock \/ SelectMessage
        \/ SendSyncClock \/ HandlerSends \/ HandlerBroadcasts \/ HandlerReturns \/ PushDisconnect
        \/ SelectDisconnect \/ HandleDisconnect \/ Return
        \/ Subscribe \/ AddParticipant \/ UnsubscribeByParticipant \/ RemoveParticipant \/ SessionLeft

Next == \/ Client \/ ShutDown \/ OthersHoldUp \/ IdleTimerFires
        \/ Receiver \/ Sender \/ Broadcaster \/ Main

Spec == Init /\ [][Next]_vars

\* Goroutines that can go on do go on and the idle timer fires in the end.
\* Nothing makes the client send, read again or close.
Fairness ==
    /\ WF_vars(Main) /\ WF_vars(Sender) /\ WF_vars(BroadcastEnqueues) /\ WF_vars(IdleTimerFires)
    /\ WF_vars(ReceiverChecks \/ ReceiverFails \/ Dispatch \/ ReceiverReports)

FairSpec == Spec /\ Fairness

-----------------------------------------------------------------------------
(* Properties.                                                             *)

\* Handle returns only after its goroutines have ended and, unless the
\* server was shut down, after the participant has left its session.
ReturnedIsClean ==
    main = "returned" =>
        sender = "done" /\ receiver = "done" /\ ((left = 1 /\ ~ joined) \/ shutdown)

\* HandleDisconnect runs at most once and is the last thing the loop does: no
\* message is handled, and nothing joined, for a participant that has left.
DisconnectIsFinal == left > 0 => left = 1 /\ ~ joined /\ main \in {"loop", "waiting", "returned"}

\* Once its client is silent or gone, the connection is taken down: the idle
\* timeout, the receiver or the sender reports and Handle returns, unless the
\* server is shut down or its goroutine is stuck for ever, the select loop not
\* back to see the timeout: its own sendChan is full and its client does not
\* read, other connections hold it up, or disconnectChan is full and nobody
\* empties it.  There is no other way to miss the end.
ConnectionEnds == <>(main = "returned" \/ shutdown) \/ <>[]Stuck

\* When the server is shut down, Handle returns as soon as the client is gone,
\* unless it is stuck in the same way; in particular none of its goroutines
\* waits for another that has ended already.
ShutDownEnds ==
    (shutdown /\ client = "closed") ~> (main = "returned" \/ []Stuck)

-----------------------------------------------------------------------------
(* What the comments say and full channels do not let happen.              *)

\* An error returned by a handler disconnects the client (modules/module.go).
FailureDisconnects == fails ~> main = "returned"

=============================================================================
