------------------------ MODULE ConnectionLoopProofs ------------------------
(***************************************************************************)
(* Proofs about ConnectionLoop, for any capacity of the channels and       *)
(* whatever the client and the server's shutdown do.                       *)
(***************************************************************************)
EXTENDS ConnectionLoop, TLAPS

\* The context is cancelled by handleDisconnect or by the server, never taken
\* back, and only its end lets the select loop end.  Who has gone through
\* leaveSession is in no session until it joins one.
ContextInv ==
    /\ left = 1 => cancelled
    /\ cancelled => left = 1 \/ shutdown
    /\ main \in {"waiting", "returned"} => cancelled
    /\ main = "returned" => sender = "done" /\ receiver = "done"
    /\ main \in {"announcing", "disconnected"} => ~ joined

LoopInv == TypeOK /\ DisconnectIsFinal /\ ContextInv

-----------------------------------------------------------------------------
(* Types.                                                                  *)

LEMMA TypeStep ==
    ASSUME LoopInv, [Next]_vars
    PROVE  TypeOK'
<1>1. TypeOK /\ (main = "disconnected" => left = 0)
  BY DEF LoopInv, DisconnectIsFinal, TypeOK
<1>2. DisconnectCap \in Nat /\ SendCap \in Nat /\ InboxCap \in Nat
      /\ MaxReplies \in Nat /\ MaxMessages \in Nat /\ MaxBroadcasts \in Nat
  BY ConnectionLoopAssumption
<1> USE <1>2, <1>1
    DEF TypeOK, mainVars, chanVars, ctxVars, envVars
<1>3. CASE UNCHANGED vars
  BY <1>3 DEF vars
<1>4. CASE ClientCloses \/ ClientStalls \/ IdleTimerFires
  BY <1>4 DEF ClientCloses, ClientStalls, IdleTimerFires
<1>5. CASE OthersHoldUp
  BY <1>5 DEF OthersHoldUp
<1>6. CASE ShutDown
  BY <1>6 DEF ShutDown
<1>7. CASE ReceiverChecks \/ ReceiverReads \/ ReceiverFails
  BY <1>7 DEF ReceiverChecks, ReceiverReads, ReceiverFails
<1>8. CASE Dispatch
  BY <1>8 DEF Dispatch
<1>9. CASE ReceiverReports
  BY <1>9 DEF ReceiverReports
<1>10. CASE SenderExits \/ SenderTakes
  BY <1>10 DEF SenderExits, SenderTakes
<1>11. CASE SenderWrites \/ SenderFails
  BY <1>11 DEF SenderWrites, SenderFails
<1>12. CASE SenderReports
  BY <1>12 DEF SenderReports
<1>13. CASE BroadcastBegins \/ BroadcastEnqueues
  BY <1>13 DEF BroadcastBegins, BroadcastEnqueues
<1>14. CASE LoopTest \/ SelectContextDone \/ SelectIdle
  BY <1>14 DEF LoopTest, SelectContextDone, SelectIdle
<1>15. CASE SelectSyncClock \/ SendSyncClock
  BY <1>15 DEF SelectSyncClock, SendSyncClock
<1>16. CASE SelectMessage
  <2>1. main' \in {"handling", "subscribing", "unsubscribing", "joining"}
    BY ONLY <1>16 DEF SelectMessage
  <2>. QED  BY <1>16, <2>1 DEF SelectMessage
<1>17. CASE HandlerSends \/ HandlerBroadcasts
  BY <1>17 DEF HandlerSends, HandlerBroadcasts
<1>18. CASE HandlerReturns
  <2>1. fails' \in BOOLEAN /\ main' \in {"push", "loop"}
    BY ONLY <1>18, ConnectionLoopAssumption DEF HandlerReturns
  <2>2. UNCHANGED <<joined, sends, sender, receiver, broadcaster, chanVars, idleTimer, ctxVars, envVars>>
    BY ONLY <1>18 DEF HandlerReturns
  <2>. QED  BY <2>1, <2>2
<1>19. CASE PushDisconnect
  <2>1. /\ disconnectChan < DisconnectCap /\ disconnectChan' = disconnectChan + 1
        /\ main' = "loop"
        /\ UNCHANGED <<joined, sends, sender, receiver, broadcaster, sendChan, inbox, idleTimer,
                       ctxVars, envVars>>
    BY ONLY <1>19 DEF PushDisconnect
  <2>2. fails' \in BOOLEAN
    BY ONLY <1>19 DEF PushDisconnect
  <2>. QED  BY <2>1, <2>2
<1>20. CASE SelectDisconnect
  <2>1. /\ disconnectChan > 0 /\ disconnectChan' = disconnectChan - 1
        /\ main' \in {"unsubscribing", "disconnected"}
        /\ UNCHANGED <<joined, sends, fails, sender, receiver, broadcaster, sendChan, inbox,
                       idleTimer, cancelled, shutdown, left, envVars>>
    BY ONLY <1>20 DEF SelectDisconnect
  <2>2. connClosed' \in BOOLEAN
    BY ONLY <1>20 DEF SelectDisconnect
  <2>. QED  BY <2>1, <2>2
<1>23. CASE Subscribe \/ AddParticipant
  BY <1>23 DEF Subscribe, AddParticipant
<1>24. CASE UnsubscribeByParticipant \/ RemoveParticipant
  BY <1>24 DEF UnsubscribeByParticipant, RemoveParticipant
<1>25. CASE SessionLeft
  <2>1. main' \in {"disconnected", "joining", "handling"}
    BY ONLY <1>25 DEF SessionLeft
  <2>. QED  BY <1>25, <2>1 DEF SessionLeft
<1>21. CASE HandleDisconnect
  BY <1>21 DEF HandleDisconnect
<1>22. CASE Return
  BY <1>22 DEF Return
<1>. QED  BY <1>3, <1>4, <1>5, <1>6, <1>7, <1>8, <1>9, <1>10, <1>11, <1>12,
             <1>13, <1>14, <1>15, <1>16, <1>17, <1>18, <1>19, <1>20, <1>21, <1>22,
             <1>23, <1>24, <1>25
          DEF Next, Client, Receiver, Sender, Broadcaster, Main

-----------------------------------------------------------------------------
(* The end of the loop.                                                    *)

LEMMA FinalStep ==
    ASSUME LoopInv, [Next]_vars
    PROVE  DisconnectIsFinal' /\ ContextInv'
<1>1. DisconnectIsFinal /\ ContextInv /\ left \in 0 .. 1
  BY DEF LoopInv, TypeOK
<1> USE <1>1 DEF DisconnectIsFinal, ContextInv
<1>2. CASE UNCHANGED vars
  BY <1>2 DEF vars, mainVars, ctxVars
\* The client, the timers and the other connections.
<1>3. CASE \/ ClientCloses \/ ClientStalls \/ IdleTimerFires \/ OthersHoldUp
           \/ BroadcastBegins \/ BroadcastEnqueues
  BY <1>3 DEF ClientCloses, ClientStalls, IdleTimerFires, OthersHoldUp,
              BroadcastBegins, BroadcastEnqueues, mainVars, ctxVars
<1>4. CASE ShutDown
  BY <1>4 DEF ShutDown, mainVars
\* The goroutines of the connection: one that is done stays so.
<1>5. CASE Receiver
  <2>1. UNCHANGED <<main, joined, sender, left, cancelled, shutdown>> /\ receiver # "done"
    BY <1>5 DEF Receiver, ReceiverChecks, ReceiverReads, ReceiverFails, Dispatch, ReceiverReports,
                mainVars, ctxVars
  <2>. QED  BY <2>1
<1>6. CASE Sender
  <2>1. UNCHANGED <<main, joined, receiver, left, cancelled, shutdown>> /\ sender # "done"
    BY <1>6 DEF Sender, SenderExits, SenderTakes, SenderWrites, SenderFails, SenderReports,
                mainVars, ctxVars
  <2>. QED  BY <2>1
\* The loop of Handle.  Steps other than its test, HandleDisconnect and the
\* return begin where nothing has been left yet, and do not touch the context.
<1>7. CASE \/ SelectContextDone \/ SelectIdle \/ SelectSyncClock \/ SendSyncClock \/ SelectMessage
           \/ HandlerSends \/ HandlerBroadcasts \/ HandlerReturns \/ PushDisconnect
           \/ SelectDisconnect \/ Subscribe \/ UnsubscribeByParticipant
  <2>1. /\ main \in {"select", "ticking", "handling", "broadcasting", "subscribing", "unsubscribing", "push"}
        /\ main' \notin {"announcing", "waiting", "returned"}
        /\ main' = "disconnected" => ~ joined
        /\ UNCHANGED <<joined, left, cancelled, shutdown>>
    BY <1>7 DEF SelectContextDone, SelectIdle, SelectSyncClock, SendSyncClock, SelectMessage,
                HandlerSends, HandlerBroadcasts, HandlerReturns, PushDisconnect, SelectDisconnect,
                Subscribe, UnsubscribeByParticipant, ctxVars
  <2>. QED  BY <2>1
<1>11. CASE AddParticipant \/ RemoveParticipant \/ SessionLeft
  <2>1. /\ main \in {"joining", "deleting", "announcing"}
        /\ main' \in {"handling", "announcing", "disconnected", "joining"}
        /\ main' \in {"announcing", "disconnected"} => ~ joined'
        /\ UNCHANGED <<left, cancelled, shutdown>>
    BY <1>11 DEF AddParticipant, RemoveParticipant, SessionLeft, ctxVars
  <2>. QED  BY <2>1
<1>8. CASE LoopTest
  BY <1>8 DEF LoopTest, ctxVars
<1>9. CASE HandleDisconnect
  BY <1>9 DEF HandleDisconnect
<1>10. CASE Return
  BY <1>10 DEF Return, ctxVars
<1>. QED  BY <1>2, <1>3, <1>4, <1>5, <1>6, <1>7, <1>8, <1>9, <1>10, <1>11
          DEF Next, Client, Broadcaster, Main

\* The invariant of Handle: the context ends with handleDisconnect or with the
\* server, and the loop leaves its select only then.
THEOREM LoopIsConsistent == Spec => []LoopInv
<1>1. Init => LoopInv
  <2>1. Init => TypeOK
    <3>1. Init => /\ joined \in BOOLEAN /\ fails \in BOOLEAN /\ heldUp \in BOOLEAN
                  /\ cancelled \in BOOLEAN /\ shutdown \in BOOLEAN /\ connClosed \in BOOLEAN
      BY Zenon DEF Init
    <3>2. Init => /\ sends \in 0 .. MaxReplies /\ disconnectChan \in 0 .. DisconnectCap
                  /\ sendChan \in 0 .. SendCap /\ inbox \in 0 .. InboxCap /\ left \in 0 .. 1
                  /\ messages \in 0 .. MaxMessages /\ broadcasts \in 0 .. MaxBroadcasts
      BY ConnectionLoopAssumption DEF Init
    <3>. QED  BY <3>1, <3>2, Zenon DEF Init, TypeOK
  <2>. QED  BY <2>1 DEF Init, LoopInv, DisconnectIsFinal, ContextInv
<1>2. LoopInv /\ [Next]_vars => LoopInv'
  BY TypeStep, FinalStep DEF LoopInv
<1>. QED  BY <1>1, <1>2, PTL DEF Spec

\* Every variable keeps its type: no channel holds more than its capacity.
THEOREM ConnectionLoopTypes == Spec => []TypeOK
<1>1. LoopInv => TypeOK
  BY DEF LoopInv
<1>. QED  BY <1>1, LoopIsConsistent, PTL

\* handleDisconnect runs at most once, however many goroutines report an error
\* to disconnectChan, and no message is handled after it.
THEOREM SessionIsLeftOnce == Spec => []DisconnectIsFinal
<1>1. LoopInv => DisconnectIsFinal
  BY DEF LoopInv
<1>. QED  BY <1>1, LoopIsConsistent, PTL

\* Handle returns only when both its goroutines have ended and the participant
\* has left its session, or when the server is shut down.
THEOREM HandleReturnsClean == Spec => []ReturnedIsClean
<1>1. LoopInv => ReturnedIsClean
  BY DEF LoopInv, ContextInv, DisconnectIsFinal, ReturnedIsClean
<1>. QED  BY <1>1, LoopIsConsistent, PTL

=============================================================================
