------------------------- MODULE SessionMembership -------------------------
(***************************************************************************)
(* What joining and leaving sessions amounts to, without the store, its    *)
(* ids, the frame dispatchers or the goroutines: the abstract              *)
(* specification that SessionLifecycle implements.                         *)
(*                                                                         *)
(* A session is opened once and closed once, and only after it was seen    *)
(* empty.  A connection picks a session that is open at that moment,       *)
(* enters it later, and leaves it again.  Between the pick and the entry   *)
(* the session may be closed, and between being seen empty and being       *)
(* closed it may be entered: the code excludes neither.                    *)
(***************************************************************************)
CONSTANTS Conns,     \* the connections
          Sessions,  \* the sessions
          NoSession  \* not a session

VARIABLES phase,     \* "new", "open" or "closed", by session
          picked,    \* the session a connection is about to enter
          members,   \* the connections in the session
          doomed     \* the open sessions that were seen empty

vars == <<phase, picked, members, doomed>>

Init ==
    /\ phase = [s \in Sessions |-> "new"]
    /\ picked = [c \in Conns |-> NoSession]
    /\ members = [s \in Sessions |-> {}]
    /\ doomed = {}

\* The connection is in no session and enters none.
Unattached(c) == picked[c] = NoSession /\ \A s \in Sessions : c \notin members[s]

Open(c, s) ==
    /\ Unattached(c)
    /\ phase[s] = "new"
    /\ phase' = [phase EXCEPT ![s] = "open"]
    /\ picked' = [picked EXCEPT ![c] = s]
    /\ UNCHANGED <<members, doomed>>

Pick(c, s) ==
    /\ Unattached(c)
    /\ phase[s] = "open"
    /\ picked' = [picked EXCEPT ![c] = s]
    /\ UNCHANGED <<phase, members, doomed>>

Enter(c, s) ==
    /\ picked[c] = s
    /\ members' = [members EXCEPT ![s] = @ \cup {c}]
    /\ picked' = [picked EXCEPT ![c] = NoSession]
    /\ UNCHANGED <<phase, doomed>>

Exit(c, s) ==
    /\ c \in members[s]
    /\ members' = [members EXCEPT ![s] = @ \ {c}]
    /\ UNCHANGED <<phase, picked, doomed>>

SeenEmpty(s) ==
    /\ phase[s] = "open"
    /\ members[s] = {}
    /\ s \notin doomed
    /\ doomed' = doomed \cup {s}
    /\ UNCHANGED <<phase, picked, members>>

Close(s) ==
    /\ s \in doomed
    /\ phase' = [phase EXCEPT ![s] = "closed"]
    /\ doomed' = doomed \ {s}
    /\ UNCHANGED <<picked, members>>

Next ==
    \E s \in Sessions :
        \/ SeenEmpty(s) \/ Close(s)
        \/ \E c \in Conns : Open(c, s) \/ Pick(c, s) \/ Enter(c, s) \/ Exit(c, s)

Spec == Init /\ [][Next]_vars

\* Who picked a session enters it, an open session that stays empty is seen
\* to be, and a doomed one is closed.  Nobody has to join or to leave.
Fairness ==
    \A s \in Sessions :
        /\ WF_vars(SeenEmpty(s)) /\ WF_vars(Close(s))
        /\ \A c \in Conns : WF_vars(Enter(c, s))

FairSpec == Spec /\ Fairness

=============================================================================
