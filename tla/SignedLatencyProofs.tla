------------------------ MODULE SignedLatencyProofs ------------------------
(***************************************************************************)
(* Proofs about SignedLatency, for any iteration counts, any width of      *)
(* Iteration and any bounds.                                               *)
(***************************************************************************)
EXTENDS SignedLatency, FiniteSetTheorems, TLAPS

\* The pings on record are those of the current request, and a response was
\* computed from pings that were sent before it.
RecordInv ==
    /\ pingRequests \subseteq 1 .. sent /\ IsFiniteSet(pingRequests)
    /\ \A p \in pingRequests : sentFor[p] = request
    /\ repeated \subseteq 1 .. sent
    /\ \A r \in responses : r.request <= request /\ r.pings \subseteq 1 .. sent

\* The current request has its response.
Answered == \E r \in responses : r.request = request

\* No ping of the current request was answered twice.
AnsweredOnce == \A q \in repeated : sentFor[q] # request

\* The measurement goes on: the pings on record, those that lost their place and
\* those to come make the count, and the last ping is the only one without an
\* End, unless one was answered twice.
Measuring ==
    /\ ~ Answered
    /\ iteration \in 1 .. count[request]
    /\ Cardinality(pingRequests) + replaced = count[request] - iteration + 1
    /\ sent \in pingRequests
    /\ AnsweredOnce => ended = pingRequests \ {sent}

\* It is over: the counter is zero or has wrapped around, and then it has more
\* steps to go than there are pings left to send.
Over ==
    /\ Answered
    /\ iteration = 0 \/ iteration + sent > Modulus

PhaseInv ==
    /\ request = 0 => pingRequests = {}
    /\ request # 0 => Measuring \/ Over

LatencyInv == TypeOK /\ RecordInv /\ PhaseInv /\ ResponseIsComplete /\ ResponseIsMeasured

-----------------------------------------------------------------------------
(* The counter and the record.                                             *)

\* The unsigned counter goes down, and from zero to the top.
LEMMA DecrementValue ==
    ASSUME NEW m \in Nat \ {0}, NEW i \in 0 .. m - 1
    PROVE  (i + m - 1) % m = IF i = 0 THEN m - 1 ELSE i - 1
OBVIOUS

LEMMA DecrementIs ==
    ASSUME TypeOK
    PROVE  Decrement = IF iteration = 0 THEN Modulus - 1 ELSE iteration - 1
BY DecrementValue, SignedLatencyAssumption DEF TypeOK, Decrement

LEMMA DropPing ==
    ASSUME NEW S, IsFiniteSet(S), NEW q \in S
    PROVE  Cardinality(S \ {q}) + 1 = Cardinality(S) /\ Cardinality(S \ {q}) \in Nat
<1>1. IsFiniteSet(S \ {q}) /\ Cardinality(S \ {q}) = Cardinality(S) - 1
  BY FS_RemoveElement
<1>2. Cardinality(S) \in Nat /\ Cardinality(S \ {q}) \in Nat
  BY <1>1, FS_CardinalityType
<1>. QED  BY <1>1, <1>2

LEMMA AddPing ==
    ASSUME NEW others, NEW p, IsFiniteSet(others), p \notin others
    PROVE  /\ IsFiniteSet(others \cup {p})
           /\ Cardinality(others \cup {p}) = Cardinality(others) + 1
BY FS_AddElement

\* The constants as numbers.
LEMMA Bounds ==
    /\ MinCount \in Nat \ {0} /\ MaxCount \in Nat \ {0} /\ Modulus \in Nat \ {0}
    /\ MaxRequests \in Nat /\ MaxPings \in Nat /\ MaxPings < Modulus
    /\ Counts \subseteq Nat
BY SignedLatencyAssumption

\* What every sending does to the record of pings.
LEMMA SendEffect ==
    ASSUME TypeOK, RecordInv, NEW r \in Requests, NEW others \in SUBSET pingRequests,
           SendPingRequest(r, others)
    PROVE  /\ sent' = sent + 1 /\ sent' \in Pings
           /\ sentFor' \in [Pings -> 0 .. MaxRequests]
           /\ sentFor'[sent'] = r
           /\ \A p \in 1 .. sent : sentFor'[p] = sentFor[p]
           /\ pingRequests' = others \cup {sent'}
           /\ pingRequests' \subseteq 1 .. sent'
           /\ IsFiniteSet(pingRequests')
           /\ Cardinality(pingRequests') = Cardinality(others) + 1
<1>1. sent \in 0 .. MaxPings /\ sentFor \in [Pings -> 0 .. MaxRequests] /\ MaxPings \in Nat
  BY Bounds DEF TypeOK
<1>2. /\ sent < MaxPings /\ sent' = sent + 1
      /\ sentFor' = [sentFor EXCEPT ![sent + 1] = r]
      /\ pingRequests' = others \cup {sent + 1}
  BY DEF SendPingRequest
<1>3. sent' \in Pings /\ r \in 0 .. MaxRequests
  BY <1>1, <1>2, Bounds DEF Pings, Requests
<1>4. IsFiniteSet(others) /\ sent + 1 \notin others
  <2>1. IsFiniteSet(others)
    BY FS_Subset DEF RecordInv
  <2>2. others \subseteq 1 .. sent
    BY DEF RecordInv
  <2>3. sent + 1 \notin 1 .. sent
    BY <1>1
  <2>. QED  BY <2>1, <2>2, <2>3
<1>5. IsFiniteSet(pingRequests') /\ Cardinality(pingRequests') = Cardinality(others) + 1
  BY <1>2, <1>4, AddPing
<1>6. \A p \in 1 .. sent : p \in Pings /\ p # sent + 1
  BY <1>1 DEF Pings
<1>7. pingRequests' \subseteq 1 .. sent'
  <2>1. others \subseteq 1 .. sent
    BY DEF RecordInv
  <2>2. 1 .. sent \subseteq 1 .. sent' /\ sent + 1 \in 1 .. sent'
    BY <1>1, <1>2
  <2>. QED  BY <1>2, <2>1, <2>2
<1>. QED  BY <1>1, <1>2, <1>3, <1>5, <1>6, <1>7

-----------------------------------------------------------------------------
(* Start.                                                                  *)

LEMMA StartStep ==
    ASSUME LatencyInv, NEW n \in Counts, Start(n)
    PROVE  LatencyInv'
<1>1. TypeOK /\ RecordInv /\ PhaseInv /\ ResponseIsComplete /\ ResponseIsMeasured
  BY DEF LatencyInv
<1>2. /\ request < MaxRequests /\ sent + n <= MaxPings /\ n \in MinCount .. MaxCount
      /\ request' = request + 1 /\ iteration' = n /\ ended' = {}
      /\ count' = [count EXCEPT ![request + 1] = n]
      /\ replaced' = 0 /\ UNCHANGED <<repeated, responses>>
      /\ SendPingRequest(request + 1, {})
  BY DEF Start
<1>3. /\ request \in Nat /\ request + 1 \in Requests /\ sent \in Nat /\ n \in Nat \ {0}
      /\ count \in [Requests -> Nat]
  BY <1>1, <1>2, Bounds DEF TypeOK, Requests
<1>4. /\ sent' = sent + 1 /\ sent' \in Pings
      /\ sentFor' \in [Pings -> 0 .. MaxRequests]
      /\ sentFor'[sent'] = request + 1
      /\ \A p \in 1 .. sent : sentFor'[p] = sentFor[p]
      /\ pingRequests' = {sent'}
      /\ pingRequests' \subseteq 1 .. sent'
      /\ IsFiniteSet(pingRequests')
      /\ Cardinality(pingRequests') = 1
  BY <1>1, <1>2, <1>3, SendEffect, FS_EmptySet
<1>5. \A r \in responses : /\ r.request \in Requests /\ r.request <= request
                           /\ r.pings \in SUBSET Pings /\ r.ended \in SUBSET r.pings
                           /\ r.pings \subseteq 1 .. sent /\ r.replaced \in Nat
  BY <1>1 DEF TypeOK, RecordInv
<1>6. \A k \in Requests : k <= request => k # request + 1 /\ k <= request + 1
  BY <1>3 DEF Requests
<1>7. count'[request'] = n /\ \A r \in responses : count'[r.request] = count[r.request]
  <2>1. \A r \in responses : r.request \in Requests /\ r.request # request + 1
    BY <1>5, <1>6
  <2>. QED  BY <1>2, <1>3, <2>1
<1>8. TypeOK'
  <2>1. n \in 0 .. Modulus - 1
    BY <1>2, <1>3, Bounds
  <2>2. count' \in [Requests -> Nat]
    BY <1>2, <1>3
  <2>3. request' \in 0 .. MaxRequests /\ sent' \in 0 .. MaxPings /\ pingRequests' \in SUBSET Pings
    BY <1>2, <1>3, <1>4, Bounds DEF Pings
  <2>4. repeated' \in SUBSET Pings /\ responses' = responses
    BY <1>1, <1>2 DEF TypeOK
  <2>. QED  BY <1>2, <1>4, <1>5, <2>1, <2>2, <2>3, <2>4 DEF TypeOK
<1>9. RecordInv'
  <2>1. \A r \in responses' : r.request <= request' /\ r.pings \subseteq 1 .. sent'
    <3>1. 1 .. sent \subseteq 1 .. sent'
      BY <1>3, <1>4
    <3>. QED  BY <1>2, <1>5, <1>6, <3>1
  <2>2. \A p \in pingRequests' : sentFor'[p] = request'
    BY <1>2, <1>4
  <2>3. repeated' \subseteq 1 .. sent'
    <3>1. 1 .. sent \subseteq 1 .. sent'
      BY <1>3, <1>4
    <3>. QED  BY <1>1, <1>2, <3>1 DEF RecordInv
  <2>. QED  BY <1>4, <2>1, <2>2, <2>3 DEF RecordInv
<1>10. PhaseInv'
  <2>1. ~ Answered'
    BY <1>2, <1>5, <1>6 DEF Answered
  <2>2. iteration' \in 1 .. count'[request']
    BY <1>2, <1>3, <1>7
  <2>3. Cardinality(pingRequests') + replaced' = count'[request'] - iteration' + 1
    BY <1>2, <1>3, <1>4, <1>7
  <2>4. ended' = pingRequests' \ {sent'}
    BY <1>2, <1>4
  <2>5. sent' \in pingRequests' /\ request' # 0
    BY <1>2, <1>3, <1>4
  <2>. QED  BY <2>1, <2>2, <2>3, <2>4, <2>5 DEF PhaseInv, Measuring
<1>11. ResponseIsComplete'
  BY <1>1, <1>2, <1>4, <1>5, <1>7 DEF ResponseIsComplete
<1>12. ResponseIsMeasured'
  <2>1. \A q \in repeated : sentFor'[q] = sentFor[q]
    BY <1>1, <1>4 DEF RecordInv
  <2>. QED  BY <1>1, <1>2, <2>1 DEF ResponseIsMeasured
<1>. QED  BY <1>8, <1>9, <1>10, <1>11, <1>12 DEF LatencyInv

-----------------------------------------------------------------------------
(* OnPing.                                                                 *)

\* Another ping is sent.
LEMMA NextPingStep ==
    ASSUME LatencyInv, NEW p \in Pings, OnPing(p), PingsRemain
    PROVE  LatencyInv'
<1>1. TypeOK /\ RecordInv /\ PhaseInv /\ ResponseIsComplete /\ ResponseIsMeasured
  BY DEF LatencyInv
<1>2. /\ p \in pingRequests /\ iteration' = Decrement /\ Decrement > 0
      /\ repeated' = IF p \in ended THEN repeated \cup {p} ELSE repeated
      /\ UNCHANGED <<request, count, responses>>
  BY DEF OnPing, PingsRemain
<1>a. PICK old \in SameID : /\ SendPingRequest(request, pingRequests \ old)
                            /\ ended' = (ended \cup {p}) \ old
                            /\ replaced' = IF old = {} THEN replaced ELSE replaced + 1
  BY DEF OnPing, EndedAfter
<1>3. /\ request # 0 /\ request \in Requests /\ sent \in Nat /\ sent # 0
      /\ iteration \in 0 .. Modulus - 1 /\ count[request] \in Nat
  <2>1. request # 0
    BY <1>1, <1>2 DEF PhaseInv
  <2>2. request \in Requests /\ count[request] \in Nat
    BY <1>1, <2>1, Bounds DEF TypeOK, Requests
  <2>3. sent \in Nat /\ iteration \in 0 .. Modulus - 1
    BY <1>1, Bounds DEF TypeOK
  <2>4. p \in 1 .. sent
    BY <1>1, <1>2 DEF RecordInv
  <2>. QED  BY <2>1, <2>2, <2>3, <2>4
<1>4. /\ sent' = sent + 1 /\ sent' \in Pings
      /\ sentFor' \in [Pings -> 0 .. MaxRequests]
      /\ sentFor'[sent'] = request
      /\ \A q \in 1 .. sent : sentFor'[q] = sentFor[q]
      /\ pingRequests' = (pingRequests \ old) \cup {sent'}
      /\ pingRequests' \subseteq 1 .. sent'
      /\ IsFiniteSet(pingRequests')
      /\ Cardinality(pingRequests') = Cardinality(pingRequests \ old) + 1
  BY <1>1, <1>3, <1>a, SendEffect
<1>b. /\ replaced \in Nat /\ replaced' \in Nat
      /\ Cardinality(pingRequests) \in Nat /\ Cardinality(pingRequests') \in Nat
      /\ Cardinality(pingRequests') + replaced' = Cardinality(pingRequests) + replaced + 1
  <2>1. replaced \in Nat /\ IsFiniteSet(pingRequests) /\ Cardinality(pingRequests) \in Nat
    BY <1>1, FS_CardinalityType DEF TypeOK, RecordInv
  <2>2. CASE old = {}
    <3>1. pingRequests \ old = pingRequests /\ replaced' = replaced
      BY <1>a, <2>2
    <3>. QED  BY <1>4, <2>1, <3>1
  <2>3. CASE old # {}
    <3>1. PICK q \in pingRequests : old = {q}
      BY <2>3 DEF SameID
    <3>2. Cardinality(pingRequests \ old) + 1 = Cardinality(pingRequests)
      BY <2>1, <3>1, DropPing
    <3>3. Cardinality(pingRequests \ old) \in Nat
      BY <2>1, <3>1, DropPing
    <3>. QED  BY <1>4, <1>a, <2>1, <2>3, <3>2, <3>3
  <2>. QED  BY <2>2, <2>3
<1>5. iteration' = (IF iteration = 0 THEN Modulus - 1 ELSE iteration - 1) /\ iteration' > 0
  BY <1>1, <1>2, DecrementIs
<1>6. \A r \in responses : r.pings \subseteq 1 .. sent
  BY <1>1 DEF RecordInv
<1>7. TypeOK'
  <2>1. iteration' \in 0 .. Modulus - 1
    BY <1>3, <1>5, Bounds
  <2>2. /\ ended' \in SUBSET pingRequests' /\ pingRequests' \in SUBSET Pings
        /\ repeated' \in SUBSET Pings
    BY <1>1, <1>2, <1>4, <1>a DEF TypeOK
  <2>3. sent' \in 0 .. MaxPings
    BY <1>4, Bounds DEF Pings
  <2>. QED  BY <1>1, <1>2, <1>4, <1>b, <2>1, <2>2, <2>3 DEF TypeOK
<1>8. RecordInv'
  <2>1. 1 .. sent \subseteq 1 .. sent'
    BY <1>3, <1>4
  <2>2. \A r \in responses : r.request <= request /\ r.pings \subseteq 1 .. sent'
    BY <1>1, <2>1 DEF RecordInv
  <2>3. \A q \in pingRequests' : sentFor'[q] = request
    BY <1>1, <1>4 DEF RecordInv
  <2>4. repeated' \subseteq 1 .. sent'
    BY <1>1, <1>2, <2>1 DEF RecordInv
  <2>. QED  BY <1>2, <1>4, <2>2, <2>3, <2>4 DEF RecordInv
<1>9. PhaseInv'
  <2>1. Answered' <=> Answered
    BY <1>2 DEF Answered
  <2>2. CASE Measuring
    <3>1. /\ iteration \in 1 .. count[request] /\ sent \in pingRequests /\ ~ Answered
          /\ Cardinality(pingRequests) + replaced = count[request] - iteration + 1
          /\ AnsweredOnce => ended = pingRequests \ {sent}
      BY <2>2 DEF Measuring
    <3>2. iteration' = iteration - 1 /\ iteration' \in 1 .. count'[request']
      BY <1>2, <1>3, <1>5, <3>1
    <3>3. Cardinality(pingRequests') + replaced' = count'[request'] - iteration' + 1
      BY <1>2, <1>3, <1>b, <3>1, <3>2
    <3>4. ASSUME AnsweredOnce'
          PROVE  ended' = pingRequests' \ {sent'}
      <4>1. \A q \in repeated' : q \in 1 .. sent => sentFor[q] # request
        BY <1>2, <1>4, <3>4 DEF AnsweredOnce
      <4>2. p \in 1 .. sent /\ sentFor[p] = request /\ repeated \subseteq 1 .. sent
        BY <1>1, <1>2 DEF RecordInv
      <4>3. p \notin ended
        BY <1>2, <4>1, <4>2
      <4>4. AnsweredOnce
        BY <1>2, <4>1, <4>2 DEF AnsweredOnce
      <4>5. ended = pingRequests \ {sent} /\ p = sent
        BY <1>2, <3>1, <4>3, <4>4
      <4>6. sent' \notin pingRequests
        BY <1>1, <1>3, <1>4 DEF RecordInv
      <4>. QED  BY <1>2, <1>4, <1>a, <4>5, <4>6
    <3>5. Measuring'
      BY <1>4, <2>1, <3>1, <3>2, <3>3, <3>4 DEF Measuring
    <3>. QED  BY <1>2, <1>3, <3>5 DEF PhaseInv
  <2>3. CASE Over
    <3>1. iteration' + sent' > Modulus
      BY <1>3, <1>4, <1>5, <2>3, Bounds DEF Over
    <3>. QED  BY <1>2, <1>3, <2>1, <2>3, <3>1 DEF PhaseInv, Over
  <2>. QED  BY <1>1, <1>3, <2>2, <2>3 DEF PhaseInv
<1>10. ResponseIsComplete'
  <2>1. \A r \in responses : \A q \in r.pings : sentFor'[q] = sentFor[q]
    BY <1>4, <1>6
  <2>. QED  BY <1>1, <1>2, <2>1 DEF ResponseIsComplete
<1>11. ResponseIsMeasured'
  <2>1. \A q \in repeated : q \in repeated' /\ sentFor'[q] = sentFor[q]
    BY <1>1, <1>2, <1>4 DEF RecordInv
  <2>. QED  BY <1>1, <1>2, <2>1 DEF ResponseIsMeasured
<1>. QED  BY <1>7, <1>8, <1>9, <1>10, <1>11 DEF LatencyInv

\* The last answer: the response is made.
LEMMA ResponseStep ==
    ASSUME LatencyInv, NEW p \in Pings, OnPing(p), ~ PingsRemain
    PROVE  LatencyInv'
<1>1. TypeOK /\ RecordInv /\ PhaseInv /\ ResponseIsComplete /\ ResponseIsMeasured
  BY DEF LatencyInv
<1>2. PICK made : /\ made.request = request /\ made.pings = pingRequests /\ made.ended = ended'
                  /\ made.replaced = replaced
                  /\ responses' = responses \cup {made}
  BY DEF OnPing
<1>3. /\ p \in pingRequests /\ iteration' = Decrement /\ ~ Decrement > 0
      /\ ended' = ended \cup {p}
      /\ repeated' = IF p \in ended THEN repeated \cup {p} ELSE repeated
      /\ UNCHANGED <<request, count, pingRequests, sent, sentFor, replaced>>
  BY DEF OnPing, PingsRemain, EndedAfter
<1>4. /\ request # 0 /\ request \in Requests /\ sent \in 0 .. MaxPings
      /\ iteration \in 0 .. Modulus - 1 /\ count[request] \in Nat
  <2>1. request # 0
    BY <1>1, <1>3 DEF PhaseInv
  <2>2. request \in Requests /\ count[request] \in Nat
    BY <1>1, <2>1, Bounds DEF TypeOK, Requests
  <2>. QED  BY <1>1, <2>1, <2>2 DEF TypeOK
<1>5. Decrement = (IF iteration = 0 THEN Modulus - 1 ELSE iteration - 1)
  BY <1>1, DecrementIs
<1>6. 1 \in 1 .. MaxPings /\ Modulus > 1
  <2>1. p \in 1 .. MaxPings
    BY DEF Pings
  <2>. QED  BY <2>1, Bounds
<1>7. iteration = 1 /\ iteration' = 0
  BY <1>3, <1>4, <1>5, <1>6, Bounds
<1>8. Measuring
  <2>1. ~ Over
    BY <1>4, <1>7, Bounds DEF Over
  <2>. QED  BY <1>1, <1>4, <2>1 DEF PhaseInv
<1>9. /\ \A r \in responses : r.request # request
      /\ Cardinality(pingRequests) + replaced = count[request]
      /\ AnsweredOnce => ended = pingRequests \ {sent}
  BY <1>4, <1>7, <1>8 DEF Measuring, Answered
<1>10. /\ made.request \in Requests /\ made.pings \in SUBSET Pings
       /\ made.ended \in SUBSET made.pings /\ made.replaced \in Nat
  BY <1>1, <1>2, <1>3, <1>4 DEF TypeOK
<1>11. TypeOK'
  <2>1. iteration' \in 0 .. Modulus - 1
    BY <1>6, <1>7, Bounds
  <2>2. ended' \in SUBSET pingRequests' /\ repeated' \in SUBSET Pings
    BY <1>1, <1>3 DEF TypeOK
  <2>. QED  BY <1>1, <1>2, <1>3, <1>10, <2>1, <2>2 DEF TypeOK
<1>12. RecordInv'
  <2>1. made.request <= request /\ made.pings \subseteq 1 .. sent
    BY <1>1, <1>2, <1>4 DEF RecordInv, Requests
  <2>2. repeated' \subseteq 1 .. sent
    BY <1>1, <1>3 DEF RecordInv
  <2>. QED  BY <1>1, <1>2, <1>3, <2>1, <2>2 DEF RecordInv
<1>13. PhaseInv'
  <2>1. Answered'
    BY <1>2, <1>3 DEF Answered
  <2>. QED  BY <1>3, <1>4, <1>7, <2>1 DEF PhaseInv, Over
<1>14. ResponseIsComplete'
  <2>1. \A q \in made.pings : sentFor[q] = made.request
    BY <1>1, <1>2 DEF RecordInv
  <2>2. Cardinality(made.pings) + made.replaced = count[made.request]
    BY <1>2, <1>9
  <2>. QED  BY <1>1, <1>2, <1>3, <1>9, <2>1, <2>2 DEF ResponseIsComplete
<1>15. ResponseIsMeasured'
  <2>1. ASSUME \A q \in repeated' : sentFor[q] # made.request
        PROVE  made.ended = made.pings
    <3>1. p \notin ended /\ AnsweredOnce
      BY <1>1, <1>2, <1>3, <2>1 DEF RecordInv, AnsweredOnce
    <3>. QED  BY <1>2, <1>3, <1>9, <3>1
  <2>2. repeated \subseteq repeated'
    BY <1>3
  <2>. QED  BY <1>1, <1>2, <1>3, <2>1, <2>2 DEF ResponseIsMeasured
<1>. QED  BY <1>11, <1>12, <1>13, <1>14, <1>15 DEF LatencyInv

-----------------------------------------------------------------------------
(* The theorems.                                                           *)

\* The invariant of a measurement: until it is answered, the pings on record
\* and the iterations to go add up to the count that was asked for; after
\* that, the counter is zero or out of reach of zero.
THEOREM MeasurementsAreConsistent == Spec => []LatencyInv
<1>1. Init => LatencyInv
  <2>1. Init => TypeOK
    BY Bounds DEF Init, TypeOK
  <2>2. Init => RecordInv /\ PhaseInv
    BY FS_EmptySet DEF Init, RecordInv, PhaseInv
  <2>. QED  BY <2>1, <2>2 DEF Init, LatencyInv, ResponseIsComplete, ResponseIsMeasured
<1>2. LatencyInv /\ [Next]_vars => LatencyInv'
  <2>1. ASSUME LatencyInv, UNCHANGED vars
        PROVE  LatencyInv'
    BY <2>1 DEF vars, LatencyInv, TypeOK, RecordInv, PhaseInv, Measuring, Over, Answered,
                AnsweredOnce, ResponseIsComplete, ResponseIsMeasured
  <2>. QED  BY <2>1, StartStep, NextPingStep, ResponseStep DEF Next
<1>. QED  BY <1>1, <1>2, PTL DEF Spec

\* Every variable keeps its type; the unsigned counter stays in its range.
THEOREM SignedLatencyTypes == Spec => []TypeOK
<1>1. LatencyInv => TypeOK
  BY DEF LatencyInv
<1>. QED  BY <1>1, MeasurementsAreConsistent, PTL

\* A signed response is computed from as many pings as its request asked for,
\* less those whose id came again, all of them sent for that request, and a
\* request gets no second response:
\* whatever answers come late, twice or after another HandleSignedLatency.
THEOREM ResponsesAreComplete == Spec => []ResponseIsComplete
<1>1. LatencyInv => ResponseIsComplete
  BY DEF LatencyInv
<1>. QED  BY <1>1, MeasurementsAreConsistent, PTL

\* A response to a request none of whose pings was answered twice was computed
\* from measured pings only: each had its End before GetSignedLatency read it.
THEOREM ResponsesAreMeasured == Spec => []ResponseIsMeasured
<1>1. LatencyInv => ResponseIsMeasured
  BY DEF LatencyInv
<1>. QED  BY <1>1, MeasurementsAreConsistent, PTL

=============================================================================
