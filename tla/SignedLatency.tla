---------------------------- MODULE SignedLatency ----------------------------
(***************************************************************************)
(* The signed latency measurement of one participant                       *)
(* (models/signed_latency.go) and the handlers that drive it,              *)
(* HandleSignedLatency and HandlePingResponse (websocket/realtime.go).     *)
(*                                                                         *)
(* Each ping is answered, late, twice or never; requests may replace each  *)
(* other.  A ping stands here for its number, in the order of sending.  Its*)
(* id, the clock cut to 32 bits, comes again after 4.3 seconds: a ping may *)
(* get the id of one on record, whose place it takes and whose late answer *)
(* then counts as its own.  Latencies, statistics and the signature are    *)
(* left out; what is kept of a response is which pings it was computed     *)
(* from.                                                                   *)
(***************************************************************************)
EXTENDS Naturals, FiniteSets

CONSTANTS Counts,      \* iteration counts asked for, some out of range
          MinCount,    \* the smallest count accepted (3 in the code)
          MaxCount,    \* the largest (50)
          Modulus,     \* Iteration is an unsigned integer (2^32)
          MaxRequests, \* bound: how many measurements are started
          MaxPings     \* bound: how many pings are sent

ASSUME SignedLatencyAssumption ==
    /\ Counts \subseteq Nat
    /\ {MinCount, MaxCount, Modulus} \subseteq Nat \ {0}
    /\ {MaxRequests, MaxPings} \subseteq Nat
    /\ MaxPings < Modulus

Requests == 1 .. MaxRequests
Pings == 1 .. MaxPings

VARIABLES
    request,      \* SignedLatency.RequestID, 0 before the first Start
    count,        \* the iteration count of each request
    iteration,    \* SignedLatency.Iteration
    pingRequests, \* the keys of SignedLatency.PingRequests
    ended,        \* those with an End
    sent,         \* how many pings were ever sent
    sentFor,      \* the request each ping was sent for
    replaced,     \* history: pings of the request that lost their place
    repeated,     \* history: pings that were answered more than once
    responses     \* the signed responses, numbered: for which request, from
                  \* which pings, which of those had an End, and how many
                  \* had lost their place

vars == <<request, count, iteration, pingRequests, ended, sent, sentFor, replaced, repeated,
          responses>>

TypeOK ==
    /\ request \in 0 .. MaxRequests
    /\ count \in [Requests -> Nat]
    /\ iteration \in 0 .. Modulus - 1
    /\ pingRequests \in SUBSET Pings
    /\ ended \in SUBSET pingRequests
    /\ sent \in 0 .. MaxPings
    /\ sentFor \in [Pings -> 0 .. MaxRequests]
    /\ replaced \in Nat
    /\ repeated \in SUBSET Pings
    /\ \A r \in responses : /\ r.request \in Requests
                            /\ r.pings \in SUBSET Pings /\ r.ended \in SUBSET r.pings
                            /\ r.replaced \in Nat

Init ==
    /\ request = 0
    /\ count = [r \in Requests |-> 0]
    /\ iteration = 0
    /\ pingRequests = {} /\ ended = {}
    /\ sent = 0
    /\ sentFor = [p \in Pings |-> 0]
    /\ replaced = 0
    /\ repeated = {}
    /\ responses = {}

-----------------------------------------------------------------------------
\* sendPingRequest, for request r, with others the pings on record that keep
\* their place.
SendPingRequest(r, others) ==
    /\ sent < MaxPings
    /\ sent' = sent + 1
    /\ sentFor' = [sentFor EXCEPT ![sent + 1] = r]
    /\ pingRequests' = others \cup {sent + 1}

\* Mutant: the pings of the measurement before stay on record.
StartKeepingPings(n) ==
    /\ request < MaxRequests /\ sent + n <= MaxPings
    /\ n \in MinCount .. MaxCount
    /\ request' = request + 1
    /\ count' = [count EXCEPT ![request + 1] = n]
    /\ iteration' = n
    /\ SendPingRequest(request + 1, pingRequests)
    /\ replaced' = 0
    /\ UNCHANGED <<ended, repeated, responses>>

\* HandleSignedLatency with an acceptable count: Start forgets the pings of
\* the measurement before and sends the first one.  MaxPings has room for all.
Start(n) ==
    /\ request < MaxRequests /\ sent + n <= MaxPings
    /\ n \in MinCount .. MaxCount
    /\ request' = request + 1
    /\ count' = [count EXCEPT ![request + 1] = n]
    /\ iteration' = n
    /\ ended' = {}
    /\ replaced' = 0
    /\ SendPingRequest(request + 1, {})
    /\ UNCHANGED <<repeated, responses>>

\* Mutant: the counter is wider than its type and goes on counting up.
WideDecrement == iteration + Modulus - 1

\* s.Iteration--
Decrement == (iteration + Modulus - 1) % Modulus

\* Mutant: the end of the ping is not recorded.
EndedBefore(p) == ended

\* PingRequests[p] gets its End.
EndedAfter(p) == ended \cup {p}

\* Mutant: off by one, so that another ping is always due.
PingsRemainAtZero == Decrement >= 0

\* Another ping is due after this answer.
PingsRemain == Decrement > 0

\* The pings on record whose id the clock may give again: at most one.
SameID == {{}} \cup {{q} : q \in pingRequests}

\* HandlePingResponse for ping p: OnPing refuses one that is not on record.
OnPing(p) ==
    /\ p \in pingRequests
    /\ iteration' = Decrement
    /\ repeated' = IF p \in ended THEN repeated \cup {p} ELSE repeated
    /\ IF PingsRemain
       THEN \E old \in SameID :
               /\ SendPingRequest(request, pingRequests \ old)
               /\ ended' = EndedAfter(p) \ old
               /\ replaced' = IF old = {} THEN replaced ELSE replaced + 1
               /\ UNCHANGED responses
       ELSE /\ ended' = EndedAfter(p)
            /\ responses' = responses \cup {[nth |-> Cardinality(responses) + 1, request |-> request,
                                             pings |-> pingRequests, ended |-> ended',
                                             replaced |-> replaced]}
            /\ UNCHANGED <<pingRequests, sent, sentFor, replaced>>
    /\ UNCHANGED <<request, count>>

Next == (\E n \in Counts : Start(n)) \/ (\E p \in Pings : OnPing(p))

Spec == Init /\ [][Next]_vars

\* A client that answers the ping it was sent last.  Nothing makes it ask
\* for another measurement.
FairSpec == Spec /\ WF_vars(OnPing(sent))

-----------------------------------------------------------------------------
(* Properties.                                                             *)

\* A signed response is computed from pings of its own request only, and
\* from as many as the request asked for, less those whose id came again, also
\* when answers are repeated or come after another measurement was started;
\* and a request gets no second response until the counter has wrapped around.
ResponseIsComplete ==
    /\ \A r \in responses : /\ \A p \in r.pings : sentFor[p] = r.request
                            /\ Cardinality(r.pings) + r.replaced = count[r.request]
    /\ \A r, q \in responses : r.request = q.request => r = q

\* If no ping of its request was answered twice, every ping of a response had
\* its End.
ResponseIsMeasured ==
    \A r \in responses :
        (\A p \in repeated : sentFor[p] # r.request) => r.ended = r.pings

\* If the client answers, every measurement ends with a response, or is
\* replaced by another one.
MeasurementEnds ==
    \A r \in Requests : request = r ~> (request # r \/ \E x \in responses : x.request = r)

=============================================================================
