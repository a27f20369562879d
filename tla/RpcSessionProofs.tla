-------------------------- MODULE RpcSessionProofs --------------------------
(***************************************************************************)
(* Proofs about RpcSession: what a session keeps whatever is torn, joined  *)
(* or lost on the way, for every number of requests, connections and       *)
(* packets and every socket buffer.                                        *)
(***************************************************************************)
EXTENDS RpcSession, SequenceFacts

-----------------------------------------------------------------------------
(***************************************************************************)
(* The inductive invariant.                                                *)
(***************************************************************************)
\* How many of the first j messages are such messages.
Count(cmd, messages, j) == Cardinality(Those(cmd, messages) \cap (1..j))

\* Calls are bounded, and list_rules waits only where nothing else can be called.
Bounded ==
    /\ Len(calls) <= MaxRequests
    /\ waiting => ~connected /\ Len(calls) < MaxRequests /\ "list_rules" \in Kinds

\* The notifications made and those to be made are of packets that were blocked.
NotesArePackets ==
    \A c \in Conns : noteId[c] + Cardinality(Those("BLOCKED_PACKET", netlink[c])) <= packets + 1

\* What is on its way back: responses to calls there were, and notifications by
\* the thread's own counter.
Returning ==
    \A c \in Conns : \A i \in DOMAIN toUi[c] :
        IF toUi[c][i].type = "success" THEN toUi[c][i].id \in DOMAIN calls
                                       ELSE toUi[c][i].id < noteId[c]

\* A request says of its call what kind it is.
KindsMatch ==
    \A c \in Conns : \A i \in DOMAIN toService[c] :
        calls[toService[c][i].id].kind = toService[c][i].kind

\* A table that may be told to call i: nothing carried out before the call is
\* missing, and not what the call itself asked for.
Fresh(i, made, told) ==
    /\ made[i].since \subseteq told
    /\ made[i].kind \in Mutations => i \in told

\* Nothing a call has seen is lost, and a request in the queue was carried out.
Carried ==
    /\ \A i \in DOMAIN calls : calls[i].since \subseteq applied
    /\ \A c \in Conns : \A r \in DOMAIN requests[c] : Fresh(requests[c][r], calls, applied)

\* The k-th listing on a socket can be told to each of the first k requests in
\* the queue: they were all carried out before it was made.
ListingsFresh ==
    \A c \in Conns : \A j \in Those("LIST_RULES", netlink[c]) :
        netlink[c][j].table # {} =>
            \A r \in 1..Count("LIST_RULES", netlink[c], j) :
                Fresh(requests[c][r], calls, netlink[c][j].table)

ResponsesFresh ==
    \A c \in Conns : \A i \in DOMAIN toUi[c] :
        toUi[c][i].type = "success" /\ toUi[c][i].table # {} =>
            Fresh(toUi[c][i].id, calls, toUi[c][i].table)

\* AnswersInOrder, message by message.
InOrder(c) ==
    /\ \A i, j \in DOMAIN toUi[c] :
         i < j /\ toUi[c][i].type = "success" /\ toUi[c][j].type = "success" =>
            toUi[c][i].id < toUi[c][j].id
    /\ \A i, j \in DOMAIN requests[c] : i < j => requests[c][i] < requests[c][j]
    /\ \A i, j \in DOMAIN toService[c] : i < j => toService[c][i].id < toService[c][j].id
    /\ \A i \in DOMAIN toUi[c] : toUi[c][i].type = "success" =>
         /\ \A j \in DOMAIN requests[c] : toUi[c][i].id < requests[c][j]
         /\ \A j \in DOMAIN toService[c] : toUi[c][i].id < toService[c][j].id
    /\ \A i \in DOMAIN requests[c], j \in DOMAIN toService[c] : requests[c][i] < toService[c][j].id

IInv ==
    /\ TypeOK /\ Bounded /\ NotesArePackets /\ Returning /\ KindsMatch
    /\ NeverWaitsForRequest /\ \A c \in Conns : InOrder(c)
    /\ Carried /\ ListingsFresh /\ ResponsesFresh
    /\ AnswersAreFresh /\ FailsOnlyByCollision

-----------------------------------------------------------------------------
(***************************************************************************)
(* Counting the messages on a socket.                                      *)
(***************************************************************************)
\* The numbers of messages in a queue, and up to a place in it.
LEMMA CountFacts ==
    ASSUME NEW S, NEW s \in Seq(S), NEW cmd
    PROVE  /\ Those(cmd, s) \subseteq 1..Len(s) /\ Len(s) \in Nat
           /\ IsFiniteSet(Those(cmd, s)) /\ Cardinality(Those(cmd, s)) \in Nat
           /\ Count(cmd, s, Len(s)) = Cardinality(Those(cmd, s))
           /\ \A j \in 0..Len(s) : /\ Count(cmd, s, j) \in Nat
                                   /\ Count(cmd, s, j) <= Cardinality(Those(cmd, s))
                                   /\ IsFiniteSet(Those(cmd, s) \cap (1..j))
<1>1. /\ Those(cmd, s) \subseteq 1..Len(s) /\ Len(s) \in Nat
      /\ Those(cmd, s) \cap (1..Len(s)) = Those(cmd, s)
  BY LenProperties DEF Those
<1>2. IsFiniteSet(1..Len(s))
  BY <1>1, FS_Interval
<1>3. IsFiniteSet(Those(cmd, s)) /\ Cardinality(Those(cmd, s)) \in Nat
  BY <1>1, <1>2, FS_Subset, FS_CardinalityType
<1>4. ASSUME NEW j \in 0..Len(s)
      PROVE  /\ Count(cmd, s, j) \in Nat /\ Count(cmd, s, j) <= Cardinality(Those(cmd, s))
             /\ IsFiniteSet(Those(cmd, s) \cap (1..j))
  <2>1. Those(cmd, s) \cap (1..j) \in SUBSET Those(cmd, s)
    OBVIOUS
  <2> QED  BY <1>3, <2>1, FS_Subset, FS_CardinalityType DEF Count
<1> QED  BY <1>1, <1>3, <1>4 DEF Count

\* A message more counts, if it is of the kind, behind all the others.
LEMMA CountAppend ==
    ASSUME NEW S, NEW s \in Seq(S), NEW m \in S, NEW cmd
    PROVE  /\ Those(cmd, Append(s, m)) =
                Those(cmd, s) \cup IF m.cmd = cmd THEN {Len(s) + 1} ELSE {}
           /\ Cardinality(Those(cmd, Append(s, m))) =
                Cardinality(Those(cmd, s)) + IF m.cmd = cmd THEN 1 ELSE 0
           /\ \A j \in 1..Len(s) : Count(cmd, Append(s, m), j) = Count(cmd, s, j)
<1>1. /\ Append(s, m) \in Seq(S) /\ Len(s) \in Nat /\ DOMAIN s = 1..Len(s)
      /\ DOMAIN Append(s, m) = 1..Len(s) + 1
      /\ \A i \in 1..Len(s) : Append(s, m)[i] = s[i]
      /\ Append(s, m)[Len(s) + 1] = m
  BY AppendProperties, LenProperties
<1>2. Those(cmd, Append(s, m)) = Those(cmd, s) \cup IF m.cmd = cmd THEN {Len(s) + 1} ELSE {}
  <2>1. \A i : i \in Those(cmd, Append(s, m)) <=>
               i \in Those(cmd, s) \/ (m.cmd = cmd /\ i = Len(s) + 1)
    BY <1>1 DEF Those
  <2> QED  BY <2>1
<1>3. Cardinality(Those(cmd, Append(s, m))) =
        Cardinality(Those(cmd, s)) + IF m.cmd = cmd THEN 1 ELSE 0
  <2>1. Len(s) + 1 \notin Those(cmd, s)
    BY <1>1 DEF Those
  <2>2. IsFiniteSet(Those(cmd, s)) /\ Cardinality(Those(cmd, s)) \in Nat
    BY CountFacts
  <2>3. Cardinality(Those(cmd, s) \cup {Len(s) + 1}) = Cardinality(Those(cmd, s)) + 1
    BY <2>1, <2>2, FS_AddElement
  <2>4. CASE m.cmd = cmd
    BY <1>2, <2>3, <2>4
  <2>5. CASE m.cmd # cmd
    <3>1. Those(cmd, Append(s, m)) = Those(cmd, s)
      BY <1>2, <2>5
    <3> QED  BY <2>2, <2>5, <3>1
  <2> QED  BY <2>4, <2>5
<1>4. ASSUME NEW j \in 1..Len(s) PROVE Count(cmd, Append(s, m), j) = Count(cmd, s, j)
  <2>1. Those(cmd, Append(s, m)) \cap (1..j) = Those(cmd, s) \cap (1..j)
    <3>1. Len(s) + 1 \notin 1..j
      BY <1>1
    <3> QED  BY <1>2, <3>1
  <2> QED  BY <2>1 DEF Count
<1> QED  BY <1>2, <1>3, <1>4

\* A message less at the head counts no more.
LEMMA CountTail ==
    ASSUME NEW S, NEW s \in Seq(S), s # <<>>, NEW cmd
    PROVE  LET gone == IF Head(s).cmd = cmd THEN 1 ELSE 0
           IN  /\ Cardinality(Those(cmd, Tail(s))) = Cardinality(Those(cmd, s)) - gone
               /\ \A j \in 0..Len(s) - 1 : Count(cmd, Tail(s), j) = Count(cmd, s, j+1) - gone
<1> DEFINE gone == IF Head(s).cmd = cmd THEN 1 ELSE 0
<1>1. /\ Len(s) \in Nat /\ Len(s) >= 1 /\ DOMAIN s = 1..Len(s)
      /\ Tail(s) \in Seq(S) /\ Len(Tail(s)) = Len(s) - 1 /\ DOMAIN Tail(s) = 1..Len(s) - 1
      /\ \A i \in 1..Len(s) - 1 : Tail(s)[i] = s[i+1]
      /\ Head(s) = s[1]
  BY HeadTailProperties, LenProperties, EmptySeq
<1>2. ASSUME NEW j \in 0..Len(s) - 1 PROVE Count(cmd, Tail(s), j) = Count(cmd, s, j+1) - gone
  <2> DEFINE A == Those(cmd, Tail(s)) \cap (1..j)
             B == Those(cmd, s) \cap (1..j+1)
  <2>1. {i + 1 : i \in A} = B \ {1}
    <3>1. ASSUME NEW i \in A PROVE i + 1 \in B \ {1}
      BY <1>1, <3>1 DEF Those
    <3>2. ASSUME NEW i \in B \ {1} PROVE i - 1 \in A /\ i = (i - 1) + 1
      BY <1>1, <3>2 DEF Those
    <3> QED  BY <3>1, <3>2
  <2>2. A \in SUBSET Nat /\ IsFiniteSet(A) /\ IsFiniteSet(B) /\ Cardinality(B) \in Nat
    <3>1. j \in 0..Len(Tail(s)) /\ j + 1 \in 0..Len(s)
      BY <1>1
    <3>2. IsFiniteSet(A)
      BY <1>1, <3>1, CountFacts
    <3>3. IsFiniteSet(B)
      BY <3>1, CountFacts
    <3>4. A \in SUBSET Nat
      BY <1>1
    <3> QED  BY <3>2, <3>3, <3>4, FS_CardinalityType
  <2>3. 1 \in B <=> Head(s).cmd = cmd
    BY <1>1 DEF Those
  <2> HIDE DEF A, B
  <2>4. Cardinality(A) = Cardinality(B \ {1})
    BY <2>1, <2>2, ShiftedUp
  <2>5. Cardinality(B \ {1}) = Cardinality(B) - gone
    <3>1. Cardinality(B \ {1}) = IF 1 \in B THEN Cardinality(B) - 1 ELSE Cardinality(B)
      BY <2>2, FS_RemoveElement
    <3> QED  BY <2>2, <2>3, <3>1
  <2> QED  BY <2>4, <2>5 DEF Count, A, B
<1>3. Cardinality(Those(cmd, Tail(s))) = Cardinality(Those(cmd, s)) - gone
  <2>1. Count(cmd, Tail(s), Len(s) - 1) = Count(cmd, s, (Len(s) - 1) + 1) - gone
    BY <1>1, <1>2
  <2>2. (Len(s) - 1) + 1 = Len(s)
    BY <1>1
  <2>3. /\ Count(cmd, Tail(s), Len(s) - 1) = Cardinality(Those(cmd, Tail(s)))
        /\ Count(cmd, s, Len(s)) = Cardinality(Those(cmd, s))
    <3>1. Count(cmd, Tail(s), Len(Tail(s))) = Cardinality(Those(cmd, Tail(s)))
      BY <1>1, CountFacts
    <3>2. Count(cmd, s, Len(s)) = Cardinality(Those(cmd, s))
      BY CountFacts
    <3> QED  BY <1>1, <3>1, <3>2
  <2> QED  BY <2>1, <2>2, <2>3
<1> QED  BY <1>2, <1>3

-----------------------------------------------------------------------------
(***************************************************************************)
(* The steps.                                                              *)
(***************************************************************************)
CallSet == [kind : Kinds, state : {"pending", "resolved", "failed"},
            table : SUBSET Ids, since : SUBSET Ids]
Asked(n) == [id : 1..n, kind : Kinds]
Told     == [type : {"success", "request"}, id : Nat, table : SUBSET Ids]
Sent     == [cmd : {"LIST_RULES", "BLOCKED_PACKET"}, table : SUBSET Ids]

\* The calls are those with an id below the next one.
LEMMA CallFacts ==
    ASSUME TypeOK
    PROVE  /\ calls \in Seq(CallSet) /\ Len(calls) \in Nat /\ DOMAIN calls = 1..Len(calls)
           /\ nextId = Len(calls) + 1 /\ DOMAIN calls = 1..nextId - 1 /\ nextId \in Nat
           /\ \A i \in DOMAIN calls : calls[i] \in CallSet
           /\ MaxRequests \in Nat /\ MaxConnections \in Nat /\ MaxPackets \in Nat
           /\ conn \in Nat /\ packets \in Nat
<1>1. calls \in Seq(CallSet) /\ nextId = Len(calls) + 1
  BY DEF TypeOK, CallSet
<1>2. /\ Len(calls) \in Nat /\ DOMAIN calls = 1..Len(calls)
      /\ \A i \in DOMAIN calls : calls[i] \in CallSet
  BY <1>1, LenProperties, ElementOfSeq
<1>3. MaxRequests \in Nat /\ MaxConnections \in Nat /\ MaxPackets \in Nat
  BY RpcSessionAssumption
<1> QED  BY <1>1, <1>2, <1>3 DEF TypeOK

\* What is on the wires and in the queues of a connection.
LEMMA WireFacts ==
    ASSUME TypeOK, NEW c \in Conns
    PROVE  /\ toService[c] \in Seq(Asked(nextId - 1)) /\ DOMAIN toService[c] = 1..Len(toService[c])
           /\ Len(toService[c]) \in Nat
           /\ \A i \in DOMAIN toService[c] : toService[c][i] \in Asked(nextId - 1)
           /\ toUi[c] \in Seq(Told) /\ DOMAIN toUi[c] = 1..Len(toUi[c]) /\ Len(toUi[c]) \in Nat
           /\ \A i \in DOMAIN toUi[c] : toUi[c][i] \in Told
           /\ requests[c] \in Seq(1..nextId - 1) /\ DOMAIN requests[c] = 1..Len(requests[c])
           /\ Len(requests[c]) \in Nat
           /\ \A i \in DOMAIN requests[c] : requests[c][i] \in 1..nextId - 1
           /\ netlink[c] \in Seq(Sent) /\ DOMAIN netlink[c] = 1..Len(netlink[c]) /\ Len(netlink[c]) \in Nat
           /\ \A i \in DOMAIN netlink[c] : netlink[c][i] \in Sent
<1>1. /\ toService[c] \in Seq(Asked(nextId - 1))
      /\ toUi[c] \in Seq(Told)
      /\ requests[c] \in Seq(1..nextId - 1)
      /\ netlink[c] \in Seq(Sent)
  BY DEF TypeOK, Asked, Told, Sent
<1> QED  BY <1>1, LenProperties, ElementOfSeq

\* InOrder says what AnswersInOrder says.
LEMMA InOrderIsOrder ==
    ASSUME \A c \in Conns : InOrder(c)
    PROVE  AnswersInOrder
BY DEF InOrder, AnswersInOrder

\* As many requests are in the queue as there are listings to answer them with.
LEMMA ListingInQueue ==
    ASSUME TypeOK, NeverWaitsForRequest, NEW c \in Conns,
           NEW j \in Those("LIST_RULES", netlink[c]),
           NEW r \in 1..Count("LIST_RULES", netlink[c], j)
    PROVE  r \in DOMAIN requests[c]
<1>1. netlink[c] \in Seq(Sent) /\ DOMAIN requests[c] = 1..Len(requests[c]) /\ Len(requests[c]) \in Nat
  BY WireFacts
<1>2. j \in 0..Len(netlink[c])
  BY <1>1, CountFacts
<1>3. /\ Count("LIST_RULES", netlink[c], j) \in Nat
      /\ Count("LIST_RULES", netlink[c], j) <= Cardinality(Those("LIST_RULES", netlink[c]))
      /\ Cardinality(Those("LIST_RULES", netlink[c])) \in Nat
  BY <1>1, <1>2, CountFacts
<1>4. Cardinality(Those("LIST_RULES", netlink[c])) <= Len(requests[c])
  BY DEF NeverWaitsForRequest
<1> QED  BY <1>1, <1>3, <1>4

\* A call is made: whether its request gets on a wire or is lost at once.
LEMMA CallMade ==
    ASSUME IInv, NEW kind \in Kinds, Len(calls) < MaxRequests,
           nextId' = nextId + 1, calls' = Append(calls, Call(kind)),
           toService' = [c \in Conns |-> toService'[c]],
           \A c \in Conns : \/ toService'[c] = toService[c]
                            \/ toService'[c] = Append(toService[c], [id |-> nextId, kind |-> kind])
                            \/ toService'[c] = <<[id |-> nextId, kind |-> kind]>>,
           {waiting', connected', spoilt'} \subseteq BOOLEAN,
           conn' \in 0..MaxConnections, connected' => conn' \in Conns, ~waiting',
           UNCHANGED <<toUi, service, kernel>>
    PROVE  IInv'
<1> DEFINE n == Len(calls)
           m == [id |-> nextId, kind |-> kind]
<1>0. TypeOK
  BY DEF IInv
<1>1. /\ calls \in Seq(CallSet) /\ n \in Nat /\ DOMAIN calls = 1..n
      /\ nextId = n + 1 /\ DOMAIN calls = 1..nextId - 1 /\ MaxRequests \in Nat
      /\ n + 1 <= MaxRequests
  BY <1>0, CallFacts
<1>2. UNCHANGED <<toUi, alive, requests, noteId, netlink, applied, packets>>
  BY DEF service, kernel
<1>3. Call(kind) \in CallSet
  <2>1. applied \subseteq Ids
    BY <1>0, <1>1 DEF TypeOK, Ids
  <2> QED  BY <2>1 DEF Call, CallSet
<1>4. /\ calls' \in Seq(CallSet) /\ Len(calls') = n + 1 /\ DOMAIN calls' = 1..n+1
      /\ \A i \in DOMAIN calls : calls'[i] = calls[i] /\ i \in DOMAIN calls'
      /\ calls'[n+1] = Call(kind)
  <2>1. /\ Append(calls, Call(kind)) \in Seq(CallSet)
        /\ Len(Append(calls, Call(kind))) = n + 1
        /\ \A i \in 1..n+1 : Append(calls, Call(kind))[i] = IF i <= n THEN calls[i] ELSE Call(kind)
    BY <1>1, <1>3, AppendProperties
  <2> QED  BY <1>1, <2>1, LenProperties
<1>5. ASSUME NEW c \in Conns
      PROVE  /\ toService'[c] \in Seq(Asked(nextId))
             /\ DOMAIN toService'[c] = 1..Len(toService'[c])
             /\ \A i \in DOMAIN toService'[c] :
                  \/ i \in DOMAIN toService[c] /\ toService'[c][i] = toService[c][i]
                  \/ i = Len(toService'[c]) /\ toService'[c][i] = m
  <2>1. Asked(nextId - 1) \subseteq Asked(nextId) /\ m \in Asked(nextId)
    BY <1>1 DEF Asked
  <2>2. /\ toService[c] \in Seq(Asked(nextId)) /\ Len(toService[c]) \in Nat
        /\ DOMAIN toService[c] = 1..Len(toService[c])
    BY <1>0, <2>1, SeqMonotonic, WireFacts
  <2>3. CASE toService'[c] = toService[c]
    BY <2>2, <2>3
  <2>4. CASE toService'[c] = Append(toService[c], m)
    <3>1. /\ toService'[c] \in Seq(Asked(nextId)) /\ Len(toService'[c]) = Len(toService[c]) + 1
          /\ \A i \in 1..Len(toService[c]) + 1 :
                toService'[c][i] = IF i <= Len(toService[c]) THEN toService[c][i] ELSE m
      BY <2>1, <2>2, <2>4, AppendProperties
    <3> QED  BY <2>2, <3>1, LenProperties
  <2>5. CASE toService'[c] = <<m>>
    <3>1. toService'[c] \in Seq(Asked(nextId)) /\ DOMAIN toService'[c] = 1..1
          /\ Len(toService'[c]) = 1 /\ toService'[c][1] = m
      BY <2>1, <2>5
    <3> QED  BY <3>1
  <2> QED  BY <2>3, <2>4, <2>5
<1>6. TypeOK'
  <2>1. toService' \in [Conns -> Seq(Asked(nextId))] /\ nextId' - 1 = nextId
    BY <1>1, <1>5
  <2>2. requests' \in [Conns -> Seq(1..nextId)]
    <3>1. 1..nextId - 1 \subseteq 1..nextId
      BY <1>1
    <3>2. ASSUME NEW c \in Conns PROVE requests[c] \in Seq(1..nextId)
      <4>1. requests[c] \in Seq(1..nextId - 1)
        BY <1>0, WireFacts
      <4> QED  BY <3>1, <4>1, SeqMonotonic
    <3> QED  BY <1>0, <1>2, <3>2 DEF TypeOK
  <2>3. applied \subseteq 1..nextId
    BY <1>0, <1>1 DEF TypeOK
  <2>4. calls' \in Seq(CallSet) /\ nextId' = Len(calls') + 1
    BY <1>1, <1>4
  <2> QED  BY <1>0, <1>2, <2>1, <2>2, <2>3, <2>4 DEF TypeOK, Asked, CallSet
<1>7. Bounded' /\ NotesArePackets' /\ NeverWaitsForRequest'
  BY <1>1, <1>2, <1>4 DEF IInv, Bounded, NotesArePackets, NeverWaitsForRequest
<1>8. Returning' /\ ResponsesFresh'
  BY <1>2, <1>4 DEF IInv, Returning, ResponsesFresh, Fresh
<1>9. KindsMatch'
  <2> SUFFICES ASSUME NEW c \in Conns, NEW i \in DOMAIN toService'[c]
               PROVE  calls'[toService'[c][i].id].kind = toService'[c][i].kind
    BY DEF KindsMatch
  <2>1. \/ i \in DOMAIN toService[c] /\ toService'[c][i] = toService[c][i]
        \/ toService'[c][i] = m
    BY <1>5
  <2>2. CASE i \in DOMAIN toService[c] /\ toService'[c][i] = toService[c][i]
    <3>1. toService[c][i].id \in DOMAIN calls
      BY <1>0, <1>1, <2>2, WireFacts DEF Asked
    <3> QED  BY <1>4, <2>2, <3>1 DEF IInv, KindsMatch
  <2>3. CASE toService'[c][i] = m
    BY <1>1, <1>4, <2>3 DEF Call
  <2> QED  BY <2>1, <2>2, <2>3
<1>10. ASSUME NEW c \in Conns PROVE InOrder(c)'
  <2>0. InOrder(c)
    BY DEF IInv
  <2>1. /\ \A i \in DOMAIN requests[c] : requests[c][i] \in Nat /\ requests[c][i] < nextId
        /\ \A i \in DOMAIN toService[c] : toService[c][i].id \in Nat /\ toService[c][i].id < nextId
        /\ \A i \in DOMAIN toUi[c] : toUi[c][i].type = "success" => toUi[c][i].id \in Nat /\ toUi[c][i].id < nextId
    BY <1>0, <1>1, WireFacts DEF IInv, Returning, Asked
  <2>2. \A i \in DOMAIN toService'[c] :
          \/ i \in DOMAIN toService[c] /\ toService'[c][i] = toService[c][i]
          \/ i = Len(toService'[c]) /\ toService'[c][i] = m
    BY <1>5
  <2>3. \A i, j \in DOMAIN toService'[c] : i < j => toService'[c][i].id < toService'[c][j].id
    <3> SUFFICES ASSUME NEW i \in DOMAIN toService'[c], NEW j \in DOMAIN toService'[c], i < j
                 PROVE  toService'[c][i].id < toService'[c][j].id
      OBVIOUS
    <3>1. i \in DOMAIN toService[c] /\ toService'[c][i] = toService[c][i]
      <4>1. toService'[c] \in Seq(Asked(nextId)) /\ DOMAIN toService'[c] = 1..Len(toService'[c])
        BY <1>5
      <4>2. i # Len(toService'[c])
        BY <4>1, LenProperties
      <4> QED  BY <2>2, <4>2
    <3>2. CASE j \in DOMAIN toService[c] /\ toService'[c][j] = toService[c][j]
      BY <2>0, <3>1, <3>2 DEF InOrder
    <3>3. CASE toService'[c][j] = m
      BY <2>1, <3>1, <3>3
    <3> QED  BY <2>2, <3>2, <3>3
  <2>4. \A i \in DOMAIN toUi[c] : toUi[c][i].type = "success" =>
          \A j \in DOMAIN toService'[c] : toUi[c][i].id < toService'[c][j].id
    BY <2>0, <2>1, <2>2 DEF InOrder
  <2>5. \A i \in DOMAIN requests[c], j \in DOMAIN toService'[c] : requests[c][i] < toService'[c][j].id
    BY <2>0, <2>1, <2>2 DEF InOrder
  <2> QED  BY <1>2, <2>0, <2>3, <2>4, <2>5 DEF InOrder
<1>11. Carried'
  <2>1. \A i \in DOMAIN calls' : calls'[i].since \subseteq applied
    BY <1>1, <1>4 DEF IInv, Carried, Call
  <2>2. ASSUME NEW c \in Conns, NEW r \in DOMAIN requests[c]
        PROVE  Fresh(requests[c][r], calls', applied)
    <3>1. requests[c][r] \in DOMAIN calls
      BY <1>0, <1>1, WireFacts
    <3> QED  BY <1>4, <3>1 DEF IInv, Carried, Fresh
  <2> QED  BY <1>2, <2>1, <2>2 DEF Carried
<1>12. ListingsFresh'
  <2> SUFFICES ASSUME NEW c \in Conns, NEW j \in Those("LIST_RULES", netlink[c]), netlink[c][j].table # {},
                      NEW r \in 1..Count("LIST_RULES", netlink[c], j)
               PROVE  Fresh(requests[c][r], calls', netlink[c][j].table)
    BY <1>2 DEF ListingsFresh
  <2>1. Fresh(requests[c][r], calls, netlink[c][j].table)
    BY DEF IInv, ListingsFresh
  <2>2. r \in DOMAIN requests[c]
    BY <1>0, ListingInQueue DEF IInv
  <2>3. requests[c][r] \in DOMAIN calls
    BY <1>0, <1>1, <2>2, WireFacts
  <2> QED  BY <1>4, <2>1, <2>3 DEF Fresh
<1>13. AnswersAreFresh' /\ FailsOnlyByCollision'
  <2>1. \A i \in DOMAIN calls' : i \notin DOMAIN calls => calls'[i].state = "pending"
    BY <1>1, <1>4 DEF Call
  <2> QED  BY <1>2, <1>4, <2>1 DEF IInv, AnswersAreFresh, FailsOnlyByCollision
<1> QED  BY <1>6, <1>7, <1>8, <1>9, <1>10, <1>11, <1>12, <1>13 DEF IInv

\* A call is made, and its request goes on the wire: the invariant stays.
LEMMA RequestStep ==
    ASSUME IInv, NEW kind \in Kinds, Request(kind)
    PROVE  IInv'
<1>0. TypeOK
  BY DEF IInv
<1>1. toService' = [toService EXCEPT ![conn] = Append(@, [id |-> nextId, kind |-> kind])]
  BY DEF Request
<1>2. /\ toService' = [c \in Conns |-> toService'[c]]
      /\ \A c \in Conns : \/ toService'[c] = toService[c]
                          \/ toService'[c] = Append(toService[c], [id |-> nextId, kind |-> kind])
  BY <1>0, <1>1 DEF TypeOK
<1>3. connected /\ ~waiting /\ waiting' = waiting /\ connected' = connected /\ conn' = conn
  BY DEF Request, IInv, Bounded
<1>4. {waiting', connected', spoilt'} \subseteq BOOLEAN
  BY <1>0, <1>3 DEF Request, TypeOK
<1>5. conn' \in 0..MaxConnections /\ (connected' => conn' \in Conns)
  BY <1>0, <1>3 DEF TypeOK
<1>6. /\ Len(calls) < MaxRequests /\ nextId' = nextId + 1 /\ calls' = Append(calls, Call(kind))
      /\ UNCHANGED <<toUi, service, kernel>>
  BY DEF Request
<1> QED  BY <1>2, <1>3, <1>4, <1>5, <1>6, CallMade

\* A listing asked for while there is no connection waits for one; nothing else
\* changes.
LEMMA RequestLaterStep ==
    ASSUME IInv, RequestLater
    PROVE  IInv'
<1>1. /\ ~connected /\ "list_rules" \in Kinds /\ Len(calls) < MaxRequests /\ waiting' = TRUE
      /\ UNCHANGED <<nextId, calls, connected, conn, toUi, toService, alive, requests, noteId,
                     netlink, applied, packets, spoilt>>
  BY DEF RequestLater, service, kernel
<1>2. TypeOK' /\ Bounded'
  BY <1>1 DEF IInv, TypeOK, Bounded
<1>3. NotesArePackets' /\ Returning' /\ KindsMatch' /\ NeverWaitsForRequest' /\ Carried'
  BY <1>1 DEF IInv, NotesArePackets, Returning, KindsMatch, NeverWaitsForRequest, Carried
<1>4. ListingsFresh' /\ ResponsesFresh' /\ AnswersAreFresh' /\ FailsOnlyByCollision'
  BY <1>1 DEF IInv, ListingsFresh, ResponsesFresh, AnswersAreFresh, FailsOnlyByCollision
<1>5. \A c \in Conns : InOrder(c)'
  BY <1>1 DEF IInv, InOrder
<1> QED  BY <1>2, <1>3, <1>4, <1>5 DEF IInv

\* So it does with a new connection, which starts with nothing on its wires, or with
\* the listing that waited for it.
LEMMA ConnectStep ==
    ASSUME IInv, Connect
    PROVE  IInv'
<1>0. TypeOK /\ MaxConnections \in Nat /\ conn \in Nat
  BY CallFacts DEF IInv
<1>1. /\ conn' = conn + 1 /\ connected' = TRUE /\ waiting' = FALSE /\ conn < MaxConnections
      /\ UNCHANGED <<toUi, service, kernel>>
  BY DEF Connect
<1>2. conn' \in 0..MaxConnections /\ conn' \in Conns
  BY <1>0, <1>1 DEF Conns
<1>3. CASE waiting
  <2>1. "list_rules" \in Kinds /\ Len(calls) < MaxRequests
    BY <1>3 DEF IInv, Bounded
  <2>2. nextId' = nextId + 1 /\ calls' = Append(calls, Call("list_rules"))
    BY <1>3 DEF Connect
  <2>3. \/ /\ toService' = [toService EXCEPT ![conn'] = <<[id |-> nextId, kind |-> "list_rules"]>>]
           /\ spoilt' = spoilt
        \/ spoilt' = TRUE /\ toService' = toService
    BY <1>3 DEF Connect
  <2>4. /\ toService' = [c \in Conns |-> toService'[c]]
        /\ \A c \in Conns : \/ toService'[c] = toService[c]
                            \/ toService'[c] = <<[id |-> nextId, kind |-> "list_rules"]>>
    BY <1>0, <1>2, <2>3 DEF TypeOK
  <2>5. {waiting', connected', spoilt'} \subseteq BOOLEAN /\ ~waiting'
    BY <1>0, <1>1, <2>3 DEF TypeOK
  <2> QED  BY <1>1, <1>2, <2>1, <2>2, <2>4, <2>5, CallMade
<1>4. CASE ~waiting
  <2>1. UNCHANGED <<nextId, calls, toService, spoilt, toUi, alive, requests, noteId, netlink, applied, packets>>
    BY <1>1, <1>4 DEF Connect, service, kernel
  <2>2. TypeOK' /\ Bounded'
    BY <1>0, <1>1, <1>2, <2>1 DEF IInv, TypeOK, Bounded
  <2>3. NotesArePackets' /\ Returning' /\ KindsMatch' /\ NeverWaitsForRequest' /\ Carried'
    BY <2>1 DEF IInv, NotesArePackets, Returning, KindsMatch, NeverWaitsForRequest, Carried
  <2>4. ListingsFresh' /\ ResponsesFresh' /\ AnswersAreFresh' /\ FailsOnlyByCollision'
    BY <2>1 DEF IInv, ListingsFresh, ResponsesFresh, AnswersAreFresh, FailsOnlyByCollision
  <2>5. \A c \in Conns : InOrder(c)'
    BY <2>1 DEF IInv, InOrder
  <2> QED  BY <2>2, <2>3, <2>4, <2>5 DEF IInv
<1> QED  BY <1>3, <1>4

\* What is lost on the way takes nothing from what remains.
LEMMA DisconnectStep ==
    ASSUME IInv, Disconnect
    PROVE  IInv'
<1>0. TypeOK
  BY DEF IInv
<1>1. /\ connected' = FALSE /\ spoilt' = TRUE /\ conn \in Conns
      /\ toUi' = [toUi EXCEPT ![conn] = <<>>]
      /\ UNCHANGED <<nextId, calls, waiting, conn, alive, requests, noteId, netlink, applied, packets>>
  BY <1>0 DEF Disconnect, service, kernel, TypeOK
<1>2. PICK n \in 0..Len(toService[conn]) : toService' = [toService EXCEPT ![conn] = SubSeq(@, 1, n)]
  BY DEF Disconnect
<1>3. /\ SubSeq(toService[conn], 1, n) \in Seq(Asked(nextId - 1))
      /\ DOMAIN SubSeq(toService[conn], 1, n) = 1..n
      /\ \A i \in 1..n : SubSeq(toService[conn], 1, n)[i] = toService[conn][i]
  <2>1. toService[conn] \in Seq(Asked(nextId - 1))
    BY <1>0, <1>1, WireFacts
  <2> QED  BY <2>1, PrefixProperties
<1>4. ASSUME NEW c \in Conns
      PROVE  /\ toService'[c] \in Seq(Asked(nextId - 1))
             /\ DOMAIN toService'[c] \subseteq DOMAIN toService[c]
             /\ \A i \in DOMAIN toService'[c] : toService'[c][i] = toService[c][i]
             /\ DOMAIN toUi'[c] \subseteq DOMAIN toUi[c]
             /\ \A i \in DOMAIN toUi'[c] : toUi'[c][i] = toUi[c][i]
  <2>1. CASE c = conn
    <3>1. toUi'[c] = <<>> /\ toService'[c] = SubSeq(toService[c], 1, n)
      BY <1>0, <1>1, <1>2, <2>1 DEF TypeOK
    <3>2. 1..n \subseteq DOMAIN toService[c]
      BY <1>0, <2>1, WireFacts
    <3> QED  BY <1>3, <2>1, <3>1, <3>2
  <2>2. CASE c # conn
    <3>1. toUi'[c] = toUi[c] /\ toService'[c] = toService[c]
      BY <1>0, <1>1, <1>2, <2>2 DEF TypeOK
    <3> QED  BY <1>0, <3>1, WireFacts
  <2> QED  BY <2>1, <2>2
<1>5. TypeOK'
  <2>1. toUi' \in [Conns -> Seq(Told)]
    <3>1. <<>> \in Seq(Told)
      OBVIOUS
    <3> QED  BY <1>0, <1>1, <3>1 DEF TypeOK, Told
  <2>2. toService' \in [Conns -> Seq(Asked(nextId - 1))]
    BY <1>0, <1>2, <1>4 DEF TypeOK
  <2> QED  BY <1>0, <1>1, <2>1, <2>2 DEF TypeOK, Told, Asked
<1>6. Bounded' /\ NotesArePackets' /\ NeverWaitsForRequest' /\ Carried'
  BY <1>1 DEF IInv, Bounded, NotesArePackets, NeverWaitsForRequest, Carried
<1>7. Returning' /\ KindsMatch' /\ ResponsesFresh'
  BY <1>1, <1>4 DEF IInv, Returning, KindsMatch, ResponsesFresh
<1>8. ListingsFresh' /\ AnswersAreFresh' /\ FailsOnlyByCollision'
  BY <1>1 DEF IInv, ListingsFresh, AnswersAreFresh, FailsOnlyByCollision
<1>9. ASSUME NEW c \in Conns PROVE InOrder(c)'
  <2>1. InOrder(c)
    BY DEF IInv
  <2> QED  BY <1>1, <1>4, <2>1 DEF InOrder
<1> QED  BY <1>5, <1>6, <1>7, <1>8, <1>9 DEF IInv

\* A chunk off a wire: what is left are the messages behind those it takes.
LEMMA ChunkFacts ==
    ASSUME NEW S, NEW wire \in Seq(S), NEW chunk \in Chunks(wire)
    PROVE  /\ chunk.read \in 1..Len(wire) /\ Len(wire) \in Nat
           /\ chunk.message # <<>> => wire # <<>> /\ 1 \in DOMAIN wire /\ chunk.message[1] = wire[1]
           /\ Rest(wire, chunk) \in Seq(S)
           /\ DOMAIN Rest(wire, chunk) = 1..Len(wire) - chunk.read
           /\ \A i \in DOMAIN Rest(wire, chunk) :
                /\ i + chunk.read \in DOMAIN wire
                /\ Rest(wire, chunk)[i] = wire[i + chunk.read]
<1>1. /\ chunk.read \in 1..Len(wire) /\ chunk.message \in {<<>>, <<Head(wire)>>}
      /\ Len(wire) \in Nat /\ DOMAIN wire = 1..Len(wire)
  BY LenProperties DEF Chunks
<1>2. chunk.message # <<>> => wire # <<>> /\ 1 \in DOMAIN wire /\ chunk.message[1] = wire[1]
  BY <1>1
<1>3. /\ SubSeq(wire, chunk.read + 1, Len(wire)) \in Seq(S)
      /\ DOMAIN SubSeq(wire, chunk.read + 1, Len(wire)) = 1..Len(wire) - chunk.read
      /\ \A i \in 1..Len(wire) - chunk.read :
            SubSeq(wire, chunk.read + 1, Len(wire))[i] = wire[chunk.read + i]
  <2>1. chunk.read \in 0..Len(wire)
    BY <1>1
  <2> QED  BY <2>1, SuffixProperties
<1>4. \A i \in 1..Len(wire) - chunk.read : /\ i + chunk.read \in DOMAIN wire
                                           /\ chunk.read + i = i + chunk.read
  BY <1>1
<1> QED  BY <1>1, <1>2, <1>3, <1>4 DEF Rest

\* So it does when the application reads: an answer settles the call of its id.
LEMMA UiReceiveStep ==
    ASSUME IInv, UiReceive
    PROVE  IInv'
<1>0. TypeOK
  BY DEF IInv
<1>1. PICK chunk \in Chunks(toUi[conn]) :
         /\ toUi' = [toUi EXCEPT ![conn] = Rest(@, chunk)]
         /\ calls' = IF chunk.message = <<>> THEN calls ELSE Settled(chunk.message[1])
         /\ spoilt' = (spoilt \/ ~Intact(chunk))
  BY DEF UiReceive
<1>2. /\ conn \in Conns
      /\ UNCHANGED <<nextId, waiting, connected, conn, toService, alive, requests, noteId,
                     netlink, applied, packets>>
  BY <1>0 DEF UiReceive, service, kernel, TypeOK
<1>3. /\ calls \in Seq(CallSet) /\ Len(calls) \in Nat /\ DOMAIN calls = 1..Len(calls)
      /\ \A i \in DOMAIN calls : calls[i] \in CallSet
  BY <1>0, CallFacts
<1> DEFINE message == toUi[conn][1]
<1>4. /\ toUi[conn] \in Seq(Told)
      /\ chunk.message # <<>> => 1 \in DOMAIN toUi[conn] /\ chunk.message[1] = message /\ message \in Told
      /\ Rest(toUi[conn], chunk) \in Seq(Told)
      /\ \A i \in DOMAIN Rest(toUi[conn], chunk) :
            /\ i + chunk.read \in DOMAIN toUi[conn]
            /\ Rest(toUi[conn], chunk)[i] = toUi[conn][i + chunk.read]
      /\ chunk.read \in Nat
      /\ DOMAIN Rest(toUi[conn], chunk) \subseteq Nat
  <2>1. toUi[conn] \in Seq(Told) /\ \A i \in DOMAIN toUi[conn] : toUi[conn][i] \in Told
    BY <1>0, <1>2, WireFacts
  <2> QED  BY <2>1, ChunkFacts
<1>5. /\ toUi'[conn] = Rest(toUi[conn], chunk)
      /\ \A c \in Conns \ {conn} : toUi'[c] = toUi[c]
  BY <1>0, <1>1, <1>2 DEF TypeOK
<1>6. /\ calls' \in Seq(CallSet) /\ Len(calls') = Len(calls) /\ DOMAIN calls' = DOMAIN calls
      /\ \A i \in DOMAIN calls :
            /\ calls'[i].since = calls[i].since /\ calls'[i].kind = calls[i].kind
            /\ \/ calls'[i] = calls[i]
               \/ /\ chunk.message # <<>> /\ i = message.id /\ calls'[i].table = message.table
                  /\ calls'[i].state = IF message.type = "success" THEN "resolved" ELSE "failed"
  <2>1. CASE chunk.message = <<>>
    BY <1>1, <1>3, <2>1
  <2>2. CASE chunk.message # <<>>
    <3>1. /\ calls' = Settled(message) /\ message \in Told
          /\ DOMAIN calls' = DOMAIN calls
      BY <1>1, <1>4, <2>2 DEF Settled
    <3>2. ASSUME NEW i \in DOMAIN calls
          PROVE  /\ calls'[i] \in CallSet
                 /\ calls'[i].since = calls[i].since /\ calls'[i].kind = calls[i].kind
                 /\ \/ calls'[i] = calls[i]
                    \/ /\ i = message.id /\ calls'[i].table = message.table
                       /\ calls'[i].state = IF message.type = "success" THEN "resolved" ELSE "failed"
      <4>1. calls[i] \in CallSet
        BY <1>3
      <4>2. CASE calls[i].state = "pending" /\ i = message.id
        <5>1. calls'[i] = [calls[i] EXCEPT
                             !.state = IF message.type = "success" THEN "resolved" ELSE "failed",
                             !.table = message.table]
          BY <3>1, <4>2 DEF Settled
        <5> QED  BY <3>1, <4>1, <4>2, <5>1 DEF CallSet, Told
      <4>3. CASE ~(calls[i].state = "pending" /\ i = message.id)
        BY <3>1, <4>1, <4>3 DEF Settled
      <4> QED  BY <4>2, <4>3
    <3>3. calls' \in [1..Len(calls) -> CallSet]
      <4>1. calls' = [i \in DOMAIN calls |-> calls'[i]]
        BY <3>1 DEF Settled
      <4> QED  BY <1>3, <3>2, <4>1
    <3> QED  BY <1>3, <2>2, <3>1, <3>2, <3>3, SeqOfFunction
  <2> QED  BY <2>1, <2>2
<1>7. TypeOK'
  <2>1. toUi' \in [Conns -> Seq(Told)]
    BY <1>0, <1>1, <1>4 DEF TypeOK, Told
  <2>2. spoilt' \in BOOLEAN
    BY <1>0, <1>1 DEF TypeOK, Intact
  <2> QED  BY <1>0, <1>2, <1>6, <2>1, <2>2 DEF TypeOK, Told, CallSet
<1>8. Bounded' /\ NotesArePackets' /\ NeverWaitsForRequest'
  BY <1>2, <1>6 DEF IInv, Bounded, NotesArePackets, NeverWaitsForRequest
<1>9. ASSUME NEW c \in Conns
      PROVE  \E d \in Nat : \A i \in DOMAIN toUi'[c] :
                i \in Int /\ i + d \in DOMAIN toUi[c] /\ toUi'[c][i] = toUi[c][i + d]
  <2>1. CASE c = conn
    <3>1. \A i \in DOMAIN toUi'[c] :
             i \in Int /\ i + chunk.read \in DOMAIN toUi[c] /\ toUi'[c][i] = toUi[c][i + chunk.read]
      BY <1>4, <1>5, <2>1
    <3>2. chunk.read \in Nat
      BY <1>4
    <3> QED  BY <3>1, <3>2
  <2>2. CASE c # conn
    <3>1. \A i \in DOMAIN toUi[c] : i \in Int /\ i + 0 = i
      BY <1>0, WireFacts
    <3>2. \A i \in DOMAIN toUi'[c] :
             i \in Int /\ i + 0 \in DOMAIN toUi[c] /\ toUi'[c][i] = toUi[c][i + 0]
      BY <1>5, <2>2, <3>1
    <3> QED  BY <3>2
  <2> QED  BY <2>1, <2>2
<1>10. Returning' /\ ResponsesFresh'
  <2>1. ASSUME NEW c \in Conns, NEW i \in DOMAIN toUi'[c]
        PROVE  /\ IF toUi'[c][i].type = "success" THEN toUi'[c][i].id \in DOMAIN calls
                                                  ELSE toUi'[c][i].id < noteId[c]
               /\ toUi'[c][i].type = "success" /\ toUi'[c][i].table # {} =>
                      Fresh(toUi'[c][i].id, calls', toUi'[c][i].table)
    <3>1. PICK k \in DOMAIN toUi[c] : toUi'[c][i] = toUi[c][k]
      BY <1>9
    <3>2. IF toUi[c][k].type = "success" THEN toUi[c][k].id \in DOMAIN calls
                                         ELSE toUi[c][k].id < noteId[c]
      BY DEF IInv, Returning
    <3>3. toUi[c][k].type = "success" /\ toUi[c][k].table # {} =>
             Fresh(toUi[c][k].id, calls, toUi[c][k].table)
      BY DEF IInv, ResponsesFresh
    <3> QED  BY <1>6, <3>1, <3>2, <3>3 DEF Fresh
  <2> QED  BY <1>2, <1>6, <2>1 DEF Returning, ResponsesFresh
<1>11. KindsMatch' /\ Carried' /\ ListingsFresh'
  <2>1. ASSUME NEW c \in Conns, NEW i \in DOMAIN toService[c]
        PROVE  calls'[toService[c][i].id].kind = toService[c][i].kind
    <3>1. toService[c][i].id \in DOMAIN calls
      BY <1>0, CallFacts, WireFacts DEF Asked
    <3> QED  BY <1>6, <3>1 DEF IInv, KindsMatch
  <2>2. ASSUME NEW c \in Conns, NEW r \in DOMAIN requests[c], NEW T, Fresh(requests[c][r], calls, T)
        PROVE  Fresh(requests[c][r], calls', T)
    <3>1. requests[c][r] \in DOMAIN calls
      BY <1>0, CallFacts, WireFacts
    <3> QED  BY <1>6, <2>2, <3>1 DEF Fresh
  <2>3. ASSUME NEW c \in Conns, NEW j \in Those("LIST_RULES", netlink[c]),
               NEW r \in 1..Count("LIST_RULES", netlink[c], j)
        PROVE  r \in DOMAIN requests[c]
    BY <1>0, ListingInQueue DEF IInv
  <2>4. KindsMatch'
    BY <1>2, <2>1 DEF KindsMatch
  <2>5. Carried'
    BY <1>2, <1>6, <2>2 DEF IInv, Carried
  <2>6. ListingsFresh'
    BY <1>2, <2>2, <2>3 DEF IInv, ListingsFresh
  <2> QED  BY <2>4, <2>5, <2>6
<1>12. ASSUME NEW c \in Conns PROVE InOrder(c)'
  <2>1. InOrder(c)
    BY DEF IInv
  <2>2. PICK d \in Nat : \A i \in DOMAIN toUi'[c] :
                i \in Int /\ i + d \in DOMAIN toUi[c] /\ toUi'[c][i] = toUi[c][i + d]
    BY <1>9
  <2>3. \A i, j \in DOMAIN toUi'[c] : i < j => i + d < j + d
    BY <2>2
  <2> QED  BY <1>2, <2>1, <2>2, <2>3 DEF InOrder
<1>13. AnswersAreFresh'
  <2> SUFFICES ASSUME NEW i \in DOMAIN calls, calls'[i].state = "resolved", calls'[i].table # {}
               PROVE  Fresh(i, calls', calls'[i].table)
    BY <1>6 DEF AnswersAreFresh, Fresh
  <2>1. CASE calls'[i] = calls[i]
    BY <2>1 DEF IInv, AnswersAreFresh, Fresh
  <2>2. CASE /\ chunk.message # <<>> /\ i = message.id /\ calls'[i].table = message.table
             /\ calls'[i].state = IF message.type = "success" THEN "resolved" ELSE "failed"
    <3>1. 1 \in DOMAIN toUi[conn] /\ message.type = "success"
      BY <1>4, <2>2
    <3>2. Fresh(message.id, calls, message.table)
      BY <1>2, <2>2, <3>1 DEF IInv, ResponsesFresh
    <3> QED  BY <1>6, <2>2, <3>2 DEF Fresh
  <2> QED  BY <1>6, <2>1, <2>2
<1>14. FailsOnlyByCollision'
  <2> SUFFICES ASSUME NEW i \in DOMAIN calls, calls'[i].state = "failed"
               PROVE  \E c \in Conns : i < noteId[c]
    BY <1>2, <1>6 DEF FailsOnlyByCollision
  <2>1. CASE calls'[i] = calls[i]
    BY <2>1 DEF IInv, FailsOnlyByCollision
  <2>2. CASE /\ chunk.message # <<>> /\ i = message.id /\ calls'[i].table = message.table
             /\ calls'[i].state = IF message.type = "success" THEN "resolved" ELSE "failed"
    <3>1. 1 \in DOMAIN toUi[conn] /\ message.type # "success"
      BY <1>4, <2>2
    <3>2. message.id < noteId[conn]
      BY <1>2, <3>1 DEF IInv, Returning
    <3> QED  BY <1>2, <2>2, <3>2
  <2> QED  BY <1>6, <2>1, <2>2
<1> QED  BY <1>7, <1>8, <1>10, <1>11, <1>12, <1>13, <1>14 DEF IInv

\* What the service makes of a request: it is put in the queue and carried out, or
\* nothing but the thread and the queue is touched.
LEMMA HandleCases ==
    ASSUME TypeOK, NEW c \in Conns, NEW request \in Asked(nextId - 1), Handle(c, request)
    PROVE  /\ alive' \in [Conns -> BOOLEAN]
           /\ \/ UNCHANGED <<requests, netlink, applied>>
              \/ /\ requests' = [requests EXCEPT ![c] = Append(@, request.id)]
                 /\ \/ /\ request.kind = "list_rules" /\ UNCHANGED applied
                       /\ \E table \in {applied, {}} :
                             netlink' = [netlink EXCEPT ![c] = Append(@, [cmd |-> "LIST_RULES", table |-> table])]
                    \/ request.kind \in Mutations /\ applied' = applied \cup {request.id} /\ UNCHANGED netlink
                    \/ request.kind = "unfit" /\ UNCHANGED <<netlink, applied>>
<1>1. alive \in [Conns -> BOOLEAN]
  BY DEF TypeOK
<1>2. CASE /\ request.kind = "list_rules"
           /\ requests' = [requests EXCEPT ![c] = Queued(c, request)]
           /\ \E table \in {applied, {}} :
                netlink' = [netlink EXCEPT ![c] = Append(@, [cmd |-> "LIST_RULES", table |-> table])]
           /\ UNCHANGED <<alive, applied>>
  BY <1>1, <1>2 DEF Queued
<1>3. CASE /\ request.kind \in Mutations
           /\ requests' = [requests EXCEPT ![c] = Queued(c, request)]
           /\ applied' = applied \cup {request.id}
           /\ UNCHANGED <<alive, netlink>>
  BY <1>1, <1>3 DEF Queued
<1>4. CASE /\ request.kind = "unfit"
           /\ requests' \in {requests, [requests EXCEPT ![c] = Queued(c, request)]}
           /\ alive' = [alive EXCEPT ![c] = FALSE]
           /\ UNCHANGED <<netlink, applied>>
  BY <1>1, <1>4 DEF Queued
<1> QED  BY <1>2, <1>3, <1>4 DEF Handle

\* So it does when a thread of the service reads: it asks the kernel, changes the
\* table, or dies, and its queue of requests grows or not.
LEMMA ServiceReceiveStep ==
    ASSUME IInv, NEW c0 \in Conns, ServiceReceive(c0)
    PROVE  IInv'
<1>0. TypeOK
  BY DEF IInv
<1>1. PICK chunk \in Chunks(toService[c0]) :
         /\ toService' = [toService EXCEPT ![c0] = Rest(@, chunk)]
         /\ IF chunk.message = <<>> THEN UNCHANGED <<alive, requests, netlink, applied>>
                                    ELSE Handle(c0, chunk.message[1])
         /\ spoilt' = (spoilt \/ ~Intact(chunk))
  BY DEF ServiceReceive
<1>2. UNCHANGED <<nextId, calls, waiting, connected, conn, toUi, noteId, packets>>
  BY DEF ServiceReceive, ui
<1>3. /\ DOMAIN calls = 1..nextId - 1 /\ nextId \in Nat /\ nextId - 1 <= MaxRequests /\ MaxRequests \in Nat
      /\ \A i \in DOMAIN calls : calls[i] \in CallSet
  BY <1>0, CallFacts DEF IInv, Bounded
<1> DEFINE request == toService[c0][1]
           queue   == requests[c0]
           socket  == netlink[c0]
<1>4. /\ toService[c0] \in Seq(Asked(nextId - 1))
      /\ chunk.message # <<>> => 1 \in DOMAIN toService[c0] /\ chunk.message[1] = request
      /\ Rest(toService[c0], chunk) \in Seq(Asked(nextId - 1))
      /\ \A i \in DOMAIN Rest(toService[c0], chunk) :
            /\ i + chunk.read \in DOMAIN toService[c0] /\ i \in Int /\ 1 <= i
            /\ Rest(toService[c0], chunk)[i] = toService[c0][i + chunk.read]
      /\ chunk.read \in Nat /\ 1 <= chunk.read
  <2>1. toService[c0] \in Seq(Asked(nextId - 1))
    BY <1>0, WireFacts
  <2> QED  BY <2>1, ChunkFacts
<1>5. /\ toService'[c0] = Rest(toService[c0], chunk)
      /\ \A c \in Conns \ {c0} : toService'[c] = toService[c]
      /\ toService' \in [Conns -> Seq(Asked(nextId - 1))]
  BY <1>0, <1>1, <1>4 DEF TypeOK, Asked
<1>6. chunk.message # <<>> => /\ 1 \in DOMAIN toService[c0]
                              /\ request \in Asked(nextId - 1) /\ request.id \in DOMAIN calls
                              /\ calls[request.id].kind = request.kind
  <2> SUFFICES ASSUME chunk.message # <<>>
               PROVE  /\ 1 \in DOMAIN toService[c0]
                      /\ request \in Asked(nextId - 1) /\ request.id \in DOMAIN calls
                      /\ calls[request.id].kind = request.kind
    OBVIOUS
  <2>1. 1 \in DOMAIN toService[c0] /\ request \in Asked(nextId - 1)
    BY <1>0, <1>4, WireFacts
  <2> QED  BY <1>3, <2>1 DEF IInv, KindsMatch, Asked
<1>7. /\ alive' \in [Conns -> BOOLEAN]
      /\ \/ UNCHANGED <<requests, netlink, applied>>
         \/ /\ chunk.message # <<>>
            /\ requests' = [requests EXCEPT ![c0] = Append(@, request.id)]
            /\ \/ /\ request.kind = "list_rules" /\ UNCHANGED applied
                  /\ \E table \in {applied, {}} :
                        netlink' = [netlink EXCEPT ![c0] = Append(@, [cmd |-> "LIST_RULES", table |-> table])]
               \/ request.kind \in Mutations /\ applied' = applied \cup {request.id} /\ UNCHANGED netlink
               \/ request.kind = "unfit" /\ UNCHANGED <<netlink, applied>>
  <2>1. CASE chunk.message = <<>>
    BY <1>0, <1>1, <2>1 DEF TypeOK
  <2>2. CASE chunk.message # <<>>
    BY <1>0, <1>1, <1>4, <1>6, <2>2, HandleCases
  <2> QED  BY <2>1, <2>2
<1>8. ASSUME NEW c \in Conns, NEW i \in DOMAIN toService'[c]
      PROVE  /\ i \in Int
             /\ \E k \in DOMAIN toService[c] : toService'[c][i] = toService[c][k]
             /\ c = c0 => i + chunk.read \in DOMAIN toService[c]
                          /\ toService'[c][i] = toService[c][i + chunk.read] /\ 1 < i + chunk.read
             /\ c # c0 => toService'[c] = toService[c]
  <2>1. CASE c = c0
    <3>1. /\ i + chunk.read \in DOMAIN toService[c] /\ i \in Int /\ 1 <= i
          /\ toService'[c][i] = toService[c][i + chunk.read]
      BY <1>4, <1>5, <2>1
    <3> QED  BY <1>4, <2>1, <3>1
  <2>2. CASE c # c0
    <3>1. toService'[c] = toService[c] /\ DOMAIN toService[c] = 1..Len(toService[c])
      BY <1>0, <1>5, <2>2, WireFacts
    <3> QED  BY <2>2, <3>1
  <2> QED  BY <2>1, <2>2
\* The queues.
<1>9. ASSUME NEW c \in Conns
      PROVE  /\ requests'[c] \in Seq(1..nextId - 1) /\ Len(requests[c]) <= Len(requests'[c])
             /\ \A r \in DOMAIN requests[c] : r \in DOMAIN requests'[c] /\ requests'[c][r] = requests[c][r]
             /\ \/ requests'[c] = requests[c]
                \/ /\ c = c0 /\ chunk.message # <<>> /\ requests'[c] = Append(requests[c], request.id)
                   /\ DOMAIN requests'[c] = 1..Len(requests[c]) + 1
                   /\ requests'[c][Len(requests[c]) + 1] = request.id
                   /\ Len(requests'[c]) = Len(requests[c]) + 1
  <2>1. /\ requests[c] \in Seq(1..nextId - 1) /\ Len(requests[c]) \in Nat
        /\ DOMAIN requests[c] = 1..Len(requests[c])
    BY <1>0, WireFacts
  <2>2. CASE requests'[c] = requests[c]
    BY <2>1, <2>2
  <2>3. CASE requests'[c] # requests[c]
    <3>1. c = c0 /\ chunk.message # <<>> /\ requests'[c] = Append(requests[c], request.id)
      BY <1>0, <1>7, <2>3 DEF TypeOK
    <3>2. request.id \in 1..nextId - 1
      BY <1>3, <1>6, <3>1
    <3>3. /\ Append(requests[c], request.id) \in Seq(1..nextId - 1)
          /\ Len(Append(requests[c], request.id)) = Len(requests[c]) + 1
          /\ DOMAIN Append(requests[c], request.id) = 1..Len(requests[c]) + 1
          /\ \A r \in 1..Len(requests[c]) : Append(requests[c], request.id)[r] = requests[c][r]
          /\ Append(requests[c], request.id)[Len(requests[c]) + 1] = request.id
      BY <2>1, <3>2, AppendProperties, LenProperties
    <3> QED  BY <2>1, <3>1, <3>3
  <2> QED  BY <2>2, <2>3
<1>10. requests' \in [Conns -> Seq(1..nextId - 1)]
  <2>1. requests' = [c \in Conns |-> requests'[c]]
    BY <1>0, <1>7 DEF TypeOK
  <2> QED  BY <1>9, <2>1
\* The sockets.
<1>11. applied' \subseteq 1..nextId - 1 /\ applied \subseteq applied'
  <2>1. applied \subseteq 1..nextId - 1
    BY <1>0 DEF TypeOK
  <2> QED  BY <1>3, <1>6, <1>7, <2>1
<1>12. ASSUME NEW c \in Conns
       PROVE  /\ netlink'[c] \in Seq(Sent)
              /\ \/ netlink'[c] = netlink[c]
                 \/ /\ c = c0 /\ requests'[c] = Append(requests[c], request.id) /\ UNCHANGED applied
                    /\ Len(requests'[c]) = Len(requests[c]) + 1
                    /\ \E table \in {applied, {}} :
                          /\ netlink'[c] = Append(netlink[c], [cmd |-> "LIST_RULES", table |-> table])
                          /\ [cmd |-> "LIST_RULES", table |-> table] \in Sent
  <2>1. netlink[c] \in Seq(Sent) /\ requests[c] \in Seq(1..nextId - 1)
    BY <1>0, WireFacts
  <2>2. CASE netlink'[c] = netlink[c]
    BY <2>1, <2>2
  <2>3. CASE netlink'[c] # netlink[c]
    <3>1. PICK table \in {applied, {}} :
             netlink' = [netlink EXCEPT ![c0] = Append(@, [cmd |-> "LIST_RULES", table |-> table])]
      BY <1>7, <2>3
    <3>2. c = c0 /\ requests'[c] = Append(requests[c], request.id) /\ UNCHANGED applied
      BY <1>0, <1>7, <2>3, <3>1 DEF TypeOK
    <3>3. netlink'[c] = Append(netlink[c], [cmd |-> "LIST_RULES", table |-> table])
      BY <1>0, <3>1, <3>2 DEF TypeOK
    <3>4. [cmd |-> "LIST_RULES", table |-> table] \in Sent
      <4>1. applied \subseteq Ids
        BY <1>0, <1>3 DEF TypeOK, Ids
      <4> QED  BY <4>1 DEF Sent
    <3>5. Append(netlink[c], [cmd |-> "LIST_RULES", table |-> table]) \in Seq(Sent)
      BY <2>1, <3>4, AppendProperties
    <3>6. Len(requests'[c]) = Len(requests[c]) + 1
      <4>1. request.id \in 1..nextId - 1
        BY <1>3, <1>6, <1>7, <2>3
      <4> QED  BY <2>1, <3>2, <4>1, AppendProperties
    <3> QED  BY <3>2, <3>3, <3>4, <3>5, <3>6
  <2> QED  BY <2>2, <2>3
<1>13. netlink' \in [Conns -> Seq(Sent)]
  <2>1. netlink' = [c \in Conns |-> netlink'[c]]
    BY <1>0, <1>7 DEF TypeOK
  <2> QED  BY <1>12, <2>1
<1>14. TypeOK'
  <2>1. spoilt' \in BOOLEAN
    BY <1>0, <1>1 DEF TypeOK, Intact
  <2> QED  BY <1>0, <1>2, <1>5, <1>7, <1>10, <1>11, <1>13, <2>1 DEF TypeOK, Asked, Sent
<1>15. Bounded' /\ Returning' /\ ResponsesFresh' /\ AnswersAreFresh' /\ FailsOnlyByCollision'
  BY <1>2 DEF IInv, Bounded, Returning, ResponsesFresh, AnswersAreFresh, FailsOnlyByCollision
<1>16. KindsMatch'
  BY <1>2, <1>8 DEF IInv, KindsMatch
<1>17. ASSUME NEW c \in Conns
       PROVE  /\ Cardinality(Those("BLOCKED_PACKET", netlink'[c])) = Cardinality(Those("BLOCKED_PACKET", netlink[c]))
              /\ \/ netlink'[c] = netlink[c]
                 \/ /\ Cardinality(Those("LIST_RULES", netlink'[c])) = Cardinality(Those("LIST_RULES", netlink[c])) + 1
                    /\ Len(requests'[c]) = Len(requests[c]) + 1
  <2>1. CASE netlink'[c] = netlink[c]
    BY <2>1
  <2>2. CASE netlink'[c] # netlink[c]
    <3>1. PICK table \in {applied, {}} :
             /\ netlink'[c] = Append(netlink[c], [cmd |-> "LIST_RULES", table |-> table])
             /\ [cmd |-> "LIST_RULES", table |-> table] \in Sent
      BY <1>12, <2>2
    <3> DEFINE listing == [cmd |-> "LIST_RULES", table |-> table]
    <3>2. netlink[c] \in Seq(Sent) /\ listing \in Sent
      BY <1>0, <3>1, WireFacts
    <3>3. Len(requests'[c]) = Len(requests[c]) + 1
      BY <1>12, <2>2
    <3>4. Cardinality(Those("LIST_RULES", Append(netlink[c], listing)))
            = Cardinality(Those("LIST_RULES", netlink[c])) + 1
      BY <3>2, CountAppend
    <3>5. Cardinality(Those("BLOCKED_PACKET", Append(netlink[c], listing)))
            = Cardinality(Those("BLOCKED_PACKET", netlink[c])) + 0
      BY <3>2, CountAppend
    <3>6. Cardinality(Those("BLOCKED_PACKET", netlink[c])) \in Nat
      BY <3>2, CountFacts
    <3> QED  BY <3>1, <3>3, <3>4, <3>5, <3>6
  <2> QED  BY <2>1, <2>2
<1>18. NotesArePackets'
  BY <1>2, <1>17 DEF IInv, NotesArePackets
<1>19. NeverWaitsForRequest'
  <2> SUFFICES ASSUME NEW c \in Conns
               PROVE  Cardinality(Those("LIST_RULES", netlink'[c])) <= Len(requests'[c])
    BY DEF NeverWaitsForRequest
  <2>1. Cardinality(Those("LIST_RULES", netlink[c])) <= Len(requests[c])
    BY DEF IInv, NeverWaitsForRequest
  <2>2. netlink[c] \in Seq(Sent) /\ Len(requests[c]) \in Nat
    BY <1>0, WireFacts
  <2>3. Cardinality(Those("LIST_RULES", netlink[c])) \in Nat
    BY <2>2, CountFacts
  <2>4. requests'[c] = requests[c] \/ Len(requests'[c]) = Len(requests[c]) + 1
    BY <1>9
  <2> QED  BY <1>17, <2>1, <2>2, <2>3, <2>4
<1>20. ASSUME NEW c \in Conns PROVE InOrder(c)'
  <2>0. InOrder(c)
    BY DEF IInv
  <2>1. CASE c # c0
    <3>1. toService'[c] = toService[c] /\ requests'[c] = requests[c]
      BY <1>5, <1>9, <2>1
    <3> QED  BY <1>2, <2>0, <3>1 DEF InOrder
  <2>2. CASE c = c0
    <3>1. \A i \in DOMAIN toService'[c] :
             /\ i + chunk.read \in DOMAIN toService[c] /\ 1 < i + chunk.read /\ i \in Int
             /\ toService'[c][i] = toService[c][i + chunk.read]
      BY <1>8, <2>2
    <3>2. \A i, j \in DOMAIN toService'[c] : i < j => toService'[c][i].id < toService'[c][j].id
      <4>1. \A i, j \in DOMAIN toService'[c] : i < j => i + chunk.read < j + chunk.read
        BY <1>4, <3>1
      <4> QED  BY <2>0, <3>1, <4>1 DEF InOrder
    <3>3. CASE requests'[c] = requests[c]
      BY <1>2, <2>0, <3>1, <3>2, <3>3 DEF InOrder
    <3>4. CASE requests'[c] # requests[c]
      <4>1. /\ chunk.message # <<>> /\ requests'[c][Len(requests[c]) + 1] = request.id
            /\ DOMAIN requests'[c] = 1..Len(requests[c]) + 1
            /\ \A r \in DOMAIN requests[c] : requests'[c][r] = requests[c][r]
        BY <1>9, <3>4
      <4>2. 1 \in DOMAIN toService[c] /\ request = toService[c][1]
        BY <1>6, <2>2, <4>1
      <4>3. DOMAIN requests[c] = 1..Len(requests[c]) /\ Len(requests[c]) \in Nat
        BY <1>0, WireFacts
      <4>4. \A r \in DOMAIN requests'[c] :
               \/ r \in DOMAIN requests[c] /\ requests'[c][r] = requests[c][r]
               \/ r = Len(requests[c]) + 1 /\ requests'[c][r] = toService[c][1].id
        BY <4>1, <4>2, <4>3
      <4>5. \A r \in DOMAIN requests[c] : requests[c][r] < toService[c][1].id
        BY <2>0, <4>2 DEF InOrder
      <4>6. \A r, q \in DOMAIN requests'[c] : r < q => requests'[c][r] < requests'[c][q]
        <5> SUFFICES ASSUME NEW r \in DOMAIN requests'[c], NEW q \in DOMAIN requests'[c], r < q
                     PROVE  requests'[c][r] < requests'[c][q]
          OBVIOUS
        <5>1. r \in DOMAIN requests[c] /\ requests'[c][r] = requests[c][r]
          BY <4>1, <4>3, <4>4
        <5> QED  BY <2>0, <4>4, <4>5, <5>1 DEF InOrder
      <4>7. \A i \in DOMAIN toUi[c] : toUi[c][i].type = "success" =>
               \A r \in DOMAIN requests'[c] : toUi[c][i].id < requests'[c][r]
        BY <2>0, <4>2, <4>4 DEF InOrder
      <4>8. \A i \in DOMAIN toUi[c] : toUi[c][i].type = "success" =>
               \A j \in DOMAIN toService'[c] : toUi[c][i].id < toService'[c][j].id
        BY <2>0, <3>1 DEF InOrder
      <4>9. \A r \in DOMAIN requests'[c], j \in DOMAIN toService'[c] : requests'[c][r] < toService'[c][j].id
        <5>1. \A j \in DOMAIN toService'[c] : toService[c][1].id < toService'[c][j].id
          BY <2>0, <3>1, <4>2 DEF InOrder
        <5> QED  BY <2>0, <3>1, <4>4, <5>1 DEF InOrder
      <4> QED  BY <1>2, <2>0, <3>2, <4>6, <4>7, <4>8, <4>9 DEF InOrder
    <3> QED  BY <3>3, <3>4
  <2> QED  BY <2>1, <2>2
<1>21. Carried'
  <2>1. \A i \in DOMAIN calls : calls[i].since \subseteq applied'
    BY <1>11 DEF IInv, Carried
  <2>2. ASSUME NEW c \in Conns, NEW r \in DOMAIN requests'[c]
        PROVE  Fresh(requests'[c][r], calls, applied')
    <3>1. CASE r \in DOMAIN requests[c]
      <4>1. Fresh(requests[c][r], calls, applied) /\ requests'[c][r] = requests[c][r]
        BY <1>9, <3>1 DEF IInv, Carried
      <4> QED  BY <1>11, <4>1 DEF Fresh
    <3>2. CASE r \notin DOMAIN requests[c]
      <4>1. /\ c = c0 /\ chunk.message # <<>> /\ requests'[c] # requests[c]
            /\ requests'[c][r] = request.id
        <5>1. DOMAIN requests[c] = 1..Len(requests[c]) /\ Len(requests[c]) \in Nat
          BY <1>0, WireFacts
        <5> QED  BY <1>9, <3>2, <5>1
      <4>2. request.id \in DOMAIN calls /\ calls[request.id].kind = request.kind
        BY <1>6, <4>1
      <4>3. request.kind \in Mutations => request.id \in applied'
        BY <1>7, <4>1 DEF Mutations
      <4> QED  BY <2>1, <4>1, <4>2, <4>3 DEF Fresh
    <3> QED  BY <3>1, <3>2
  <2> QED  BY <1>2, <2>1, <2>2 DEF Carried
<1>22. ListingsFresh'
  <2> SUFFICES ASSUME NEW c \in Conns, NEW j \in Those("LIST_RULES", netlink'[c]), netlink'[c][j].table # {},
                      NEW r \in 1..Count("LIST_RULES", netlink'[c], j)
               PROVE  Fresh(requests'[c][r], calls, netlink'[c][j].table)
    BY <1>2 DEF ListingsFresh
  <2>1. /\ netlink[c] \in Seq(Sent) /\ Len(netlink[c]) \in Nat /\ DOMAIN netlink[c] = 1..Len(netlink[c])
        /\ Len(requests[c]) \in Nat
    BY <1>0, WireFacts
  <2>2. CASE /\ j \in Those("LIST_RULES", netlink[c]) /\ netlink'[c][j] = netlink[c][j]
             /\ Count("LIST_RULES", netlink'[c], j) = Count("LIST_RULES", netlink[c], j)
    <3>1. r \in DOMAIN requests[c]
      BY <1>0, <2>2, ListingInQueue DEF IInv
    <3>2. requests'[c][r] = requests[c][r]
      BY <1>9, <3>1
    <3>3. Fresh(requests[c][r], calls, netlink[c][j].table)
      BY <2>2 DEF IInv, ListingsFresh
    <3> QED  BY <2>2, <3>2, <3>3
  <2>3. CASE netlink'[c] = netlink[c]
    BY <2>2, <2>3
  <2>4. CASE netlink'[c] # netlink[c]
    <3>1. PICK table \in {applied, {}} :
             /\ netlink'[c] = Append(netlink[c], [cmd |-> "LIST_RULES", table |-> table])
             /\ [cmd |-> "LIST_RULES", table |-> table] \in Sent
      BY <1>12, <2>4
    <3> DEFINE listing == [cmd |-> "LIST_RULES", table |-> table]
    <3>2. /\ Those("LIST_RULES", netlink'[c]) = Those("LIST_RULES", netlink[c]) \cup {Len(netlink[c]) + 1}
          /\ Cardinality(Those("LIST_RULES", netlink'[c])) = Cardinality(Those("LIST_RULES", netlink[c])) + 1
          /\ \A k \in 1..Len(netlink[c]) :
                Count("LIST_RULES", netlink'[c], k) = Count("LIST_RULES", netlink[c], k)
      BY <2>1, <3>1, CountAppend
    <3>3. /\ \A k \in 1..Len(netlink[c]) : netlink'[c][k] = netlink[c][k]
          /\ netlink'[c][Len(netlink[c]) + 1] = listing
          /\ Len(netlink'[c]) = Len(netlink[c]) + 1
      BY <2>1, <3>1, AppendProperties
    <3>4. CASE j \in Those("LIST_RULES", netlink[c])
      <4>1. j \in 1..Len(netlink[c])
        BY <2>1, <3>4, CountFacts
      <4> QED  BY <2>2, <3>2, <3>3, <3>4, <4>1
    <3>5. CASE j = Len(netlink[c]) + 1
      <4>1. netlink'[c][j].table = applied
        BY <3>1, <3>3, <3>5
      <4>2. Count("LIST_RULES", netlink'[c], j) = Cardinality(Those("LIST_RULES", netlink'[c]))
        <5>1. netlink'[c] \in Seq(Sent) /\ j = Len(netlink'[c])
          BY <1>12, <3>3, <3>5
        <5> QED  BY <5>1, CountFacts
      <4>3. r \in DOMAIN requests'[c]
        <5>1. /\ Cardinality(Those("LIST_RULES", netlink[c])) <= Len(requests[c])
              /\ Cardinality(Those("LIST_RULES", netlink[c])) \in Nat
          BY <2>1, CountFacts DEF IInv, NeverWaitsForRequest
        <5>2. Len(requests'[c]) = Len(requests[c]) + 1 /\ requests'[c] \in Seq(1..nextId - 1)
          BY <1>9, <1>12, <2>4
        <5>3. DOMAIN requests'[c] = 1..Len(requests'[c])
          BY <5>2, LenProperties
        <5> QED  BY <2>1, <3>2, <4>2, <5>1, <5>2, <5>3
      <4>4. applied' = applied /\ Fresh(requests'[c][r], calls', applied')
        BY <1>12, <1>21, <2>4, <4>3 DEF Carried
      <4> QED  BY <1>2, <4>1, <4>4
    <3> QED  BY <3>2, <3>4, <3>5
  <2> QED  BY <2>3, <2>4
<1> QED  BY <1>14, <1>15, <1>16, <1>18, <1>19, <1>20, <1>21, <1>22 DEF IInv

\* The message, if it gets on the wire, is the last on it.
LEMMA SendFacts ==
    ASSUME TypeOK, NEW c \in Conns, NEW message \in Told, Send(c, message)
    PROVE  /\ alive' \in [Conns -> BOOLEAN] /\ toUi' \in [Conns -> Seq(Told)]
           /\ \A d \in Conns : \A i \in DOMAIN toUi'[d] :
                \/ i \in DOMAIN toUi[d] /\ toUi'[d][i] = toUi[d][i]
                \/ d = c /\ i = Len(toUi[d]) + 1 /\ toUi'[d][i] = message
<1>1. alive \in [Conns -> BOOLEAN] /\ toUi \in [Conns -> Seq(Told)]
  BY DEF TypeOK, Told
<1>2. CASE toUi' = [toUi EXCEPT ![c] = Append(@, message)] /\ UNCHANGED alive
  <2>1. /\ Append(toUi[c], message) \in Seq(Told)
        /\ DOMAIN Append(toUi[c], message) = 1..Len(toUi[c]) + 1
        /\ DOMAIN toUi[c] = 1..Len(toUi[c]) /\ Len(toUi[c]) \in Nat
        /\ \A i \in 1..Len(toUi[c]) : Append(toUi[c], message)[i] = toUi[c][i]
        /\ Append(toUi[c], message)[Len(toUi[c]) + 1] = message
    BY <1>1, AppendProperties, LenProperties
  <2>2. toUi'[c] = Append(toUi[c], message) /\ \A d \in Conns \ {c} : toUi'[d] = toUi[d]
    BY <1>1, <1>2
  <2>3. \A i \in DOMAIN toUi'[c] :
            \/ i \in DOMAIN toUi[c] /\ toUi'[c][i] = toUi[c][i]
            \/ i = Len(toUi[c]) + 1 /\ toUi'[c][i] = message
    BY <2>1, <2>2
  <2>4. toUi' \in [Conns -> Seq(Told)]
    BY <1>1, <1>2, <2>1
  <2> QED  BY <1>1, <1>2, <2>2, <2>3, <2>4
<1>3. CASE toUi' = toUi /\ alive' \in {alive, [alive EXCEPT ![c] = FALSE]}
  BY <1>1, <1>3
<1> QED  BY <1>2, <1>3 DEF Send

\* Without its head, a sequence holds the rest one place further to the front.
LEMMA TailFacts ==
    ASSUME NEW S, NEW s \in Seq(S), s # <<>>
    PROVE  /\ Tail(s) \in Seq(S) /\ Len(Tail(s)) = Len(s) - 1 /\ Head(s) = s[1] /\ 1 \in DOMAIN s
           /\ \A i \in DOMAIN Tail(s) : /\ i \in 1..Len(s) - 1 /\ i + 1 \in DOMAIN s /\ 1 < i + 1
                                        /\ Tail(s)[i] = s[i+1]
<1>1. /\ Len(s) \in Nat /\ Len(s) >= 1 /\ DOMAIN s = 1..Len(s)
      /\ Tail(s) \in Seq(S) /\ Len(Tail(s)) = Len(s) - 1
      /\ \A i \in 1..Len(s) - 1 : Tail(s)[i] = s[i+1]
      /\ Head(s) = s[1]
  BY HeadTailProperties, LenProperties, EmptySeq
<1>2. DOMAIN Tail(s) = 1..Len(s) - 1
  BY <1>1, LenProperties
<1> QED  BY <1>1, <1>2

\* So it does when a listing is answered with the id at the head of the queue.
LEMMA ForwardListingStep ==
    ASSUME IInv, NEW c0 \in Conns, ForwardListing(c0)
    PROVE  IInv'
<1>0. TypeOK
  BY DEF IInv
<1> DEFINE socket  == netlink[c0]
           queue   == requests[c0]
           message == [type |-> "success", id |-> queue[1], table |-> socket[1].table]
<1>1. UNCHANGED <<nextId, calls, waiting, connected, conn, toService, noteId, applied, packets, spoilt>>
  BY DEF ForwardListing, ui
<1>2. /\ calls \in Seq(CallSet) /\ nextId \in Nat /\ DOMAIN calls = 1..nextId - 1
      /\ socket \in Seq(Sent) /\ socket # <<>> /\ queue \in Seq(1..nextId - 1) /\ queue # <<>>
      /\ Head(socket).cmd = "LIST_RULES"
  BY <1>0, CallFacts, WireFacts DEF ForwardListing
<1>3. /\ Tail(socket) \in Seq(Sent) /\ Head(socket) = socket[1] /\ 1 \in DOMAIN socket /\ socket[1] \in Sent
      /\ \A i \in DOMAIN Tail(socket) : /\ i \in 1..Len(socket) - 1 /\ i + 1 \in DOMAIN socket
                                        /\ Tail(socket)[i] = socket[i+1]
  <2>1. /\ Tail(socket) \in Seq(Sent) /\ Head(socket) = socket[1] /\ 1 \in DOMAIN socket
        /\ \A i \in DOMAIN Tail(socket) : /\ i \in 1..Len(socket) - 1 /\ i + 1 \in DOMAIN socket
                                          /\ Tail(socket)[i] = socket[i+1]
    BY <1>2, TailFacts
  <2>2. \A i \in DOMAIN socket : socket[i] \in Sent
    BY <1>0, WireFacts
  <2> QED  BY <2>1, <2>2
<1>4. /\ Tail(queue) \in Seq(1..nextId - 1) /\ Head(queue) = queue[1] /\ 1 \in DOMAIN queue
      /\ Len(Tail(queue)) = Len(queue) - 1 /\ queue[1] \in DOMAIN calls /\ queue[1] \in Nat
      /\ \A r \in DOMAIN Tail(queue) : /\ r + 1 \in DOMAIN queue /\ r \in Int /\ 1 < r + 1
                                       /\ Tail(queue)[r] = queue[r+1]
  <2>1. /\ Tail(queue) \in Seq(1..nextId - 1) /\ Head(queue) = queue[1] /\ 1 \in DOMAIN queue
        /\ Len(Tail(queue)) = Len(queue) - 1
        /\ \A r \in DOMAIN Tail(queue) : /\ r \in 1..Len(queue) - 1 /\ r + 1 \in DOMAIN queue /\ 1 < r + 1
                                         /\ Tail(queue)[r] = queue[r+1]
    BY <1>2, TailFacts
  <2>2. queue[1] \in 1..nextId - 1
    BY <1>0, <2>1, WireFacts
  <2> QED  BY <1>2, <2>1, <2>2
<1>5. message \in Told /\ Send(c0, message)
  <2>1. message \in Told
    BY <1>3, <1>4 DEF Sent, Told
  <2> QED  BY <1>3, <1>4, <2>1 DEF ForwardListing
<1>6. /\ alive' \in [Conns -> BOOLEAN] /\ toUi' \in [Conns -> Seq(Told)]
      /\ \A c \in Conns : \A i \in DOMAIN toUi'[c] :
            \/ i \in DOMAIN toUi[c] /\ toUi'[c][i] = toUi[c][i]
            \/ c = c0 /\ i = Len(toUi[c]) + 1 /\ toUi'[c][i] = message
  BY <1>0, <1>5, SendFacts
<1>7. /\ netlink' = [netlink EXCEPT ![c0] = Tail(@)] /\ requests' = [requests EXCEPT ![c0] = Tail(@)]
      /\ netlink'[c0] = Tail(socket) /\ requests'[c0] = Tail(queue)
      /\ \A c \in Conns \ {c0} : netlink'[c] = netlink[c] /\ requests'[c] = requests[c]
  BY <1>0 DEF ForwardListing, TypeOK
<1>8. TypeOK'
  <2>1. netlink' \in [Conns -> Seq(Sent)] /\ requests' \in [Conns -> Seq(1..nextId - 1)]
    BY <1>0, <1>3, <1>4, <1>7 DEF TypeOK, Sent
  <2> QED  BY <1>0, <1>1, <1>6, <2>1 DEF TypeOK, Told, Sent
<1>9. Bounded' /\ KindsMatch' /\ AnswersAreFresh' /\ FailsOnlyByCollision'
  BY <1>1 DEF IInv, Bounded, KindsMatch, AnswersAreFresh, FailsOnlyByCollision
<1>10. Returning'
  BY <1>1, <1>4, <1>6 DEF IInv, Returning
<1>11. /\ Cardinality(Those("LIST_RULES", Tail(socket))) = Cardinality(Those("LIST_RULES", socket)) - 1
       /\ \A j \in 0..Len(socket) - 1 :
             Count("LIST_RULES", Tail(socket), j) = Count("LIST_RULES", socket, j+1) - 1
       /\ Cardinality(Those("BLOCKED_PACKET", Tail(socket))) = Cardinality(Those("BLOCKED_PACKET", socket))
  <2>1. Cardinality(Those("BLOCKED_PACKET", Tail(socket))) = Cardinality(Those("BLOCKED_PACKET", socket)) - 0
    BY <1>2, CountTail
  <2>2. Cardinality(Those("BLOCKED_PACKET", socket)) \in Nat
    BY <1>2, CountFacts
  <2>3. /\ Cardinality(Those("LIST_RULES", Tail(socket))) = Cardinality(Those("LIST_RULES", socket)) - 1
        /\ \A j \in 0..Len(socket) - 1 :
             Count("LIST_RULES", Tail(socket), j) = Count("LIST_RULES", socket, j+1) - 1
    BY <1>2, CountTail
  <2> QED  BY <2>1, <2>2, <2>3
<1>12. NotesArePackets'
  <2> SUFFICES ASSUME NEW c \in Conns
               PROVE  noteId[c] + Cardinality(Those("BLOCKED_PACKET", netlink'[c])) <= packets + 1
    BY <1>1 DEF NotesArePackets
  <2>1. Cardinality(Those("BLOCKED_PACKET", netlink'[c])) = Cardinality(Those("BLOCKED_PACKET", netlink[c]))
    BY <1>7, <1>11
  <2> QED  BY <2>1 DEF IInv, NotesArePackets
<1>13. NeverWaitsForRequest'
  <2> SUFFICES ASSUME NEW c \in Conns
               PROVE  Cardinality(Those("LIST_RULES", netlink'[c])) <= Len(requests'[c])
    BY DEF NeverWaitsForRequest
  <2>1. Cardinality(Those("LIST_RULES", netlink[c])) <= Len(requests[c])
    BY DEF IInv, NeverWaitsForRequest
  <2>2. CASE c = c0
    <3>1. Cardinality(Those("LIST_RULES", socket)) \in Nat /\ Len(queue) \in Nat
      BY <1>2, CountFacts, LenProperties
    <3> QED  BY <1>4, <1>7, <1>11, <2>1, <2>2, <3>1
  <2>3. CASE c # c0
    BY <1>7, <2>1, <2>3
  <2> QED  BY <2>2, <2>3
<1>14. ASSUME NEW c \in Conns PROVE InOrder(c)'
  <2>0. InOrder(c)
    BY DEF IInv
  <2>1. CASE c # c0
    <3>1. requests'[c] = requests[c]
      BY <1>7, <2>1
    <3>2. \A i \in DOMAIN toUi'[c] : i \in DOMAIN toUi[c] /\ toUi'[c][i] = toUi[c][i]
      BY <1>6, <2>1
    <3> QED  BY <1>1, <2>0, <3>1, <3>2 DEF InOrder
  <2>2. CASE c = c0
    <3>1. \A i \in DOMAIN toUi'[c] :
             \/ i \in DOMAIN toUi[c] /\ toUi'[c][i] = toUi[c][i]
             \/ i = Len(toUi[c]) + 1 /\ toUi'[c][i] = message
      BY <1>6, <2>2
    <3>2. DOMAIN toUi[c] = 1..Len(toUi[c]) /\ Len(toUi[c]) \in Nat
      BY <1>0, WireFacts
    <3>3. \A r \in DOMAIN requests'[c] :
             /\ r + 1 \in DOMAIN requests[c] /\ r \in Int /\ 1 < r + 1
             /\ requests'[c][r] = requests[c][r+1]
      BY <1>4, <1>7, <2>2
    <3>4. 1 \in DOMAIN requests[c] /\ message.id = requests[c][1]
      BY <1>4, <2>2
    <3>5. \A i, j \in DOMAIN toUi'[c] :
             i < j /\ toUi'[c][i].type = "success" /\ toUi'[c][j].type = "success" =>
                toUi'[c][i].id < toUi'[c][j].id
      <4> SUFFICES ASSUME NEW i \in DOMAIN toUi'[c], NEW j \in DOMAIN toUi'[c], i < j,
                          toUi'[c][i].type = "success", toUi'[c][j].type = "success"
                   PROVE  toUi'[c][i].id < toUi'[c][j].id
        OBVIOUS
      <4>1. i \in DOMAIN toUi[c] /\ toUi'[c][i] = toUi[c][i]
        <5>1. j <= Len(toUi[c]) + 1 /\ j \in Int
          BY <3>1, <3>2
        <5>2. ~(i = Len(toUi[c]) + 1)
          BY <3>2, <5>1
        <5> QED  BY <3>1, <5>2
      <4>2. CASE j \in DOMAIN toUi[c] /\ toUi'[c][j] = toUi[c][j]
        BY <2>0, <4>1, <4>2 DEF InOrder
      <4>3. CASE toUi'[c][j] = message
        BY <2>0, <3>4, <4>1, <4>3 DEF InOrder
      <4> QED  BY <3>1, <4>2, <4>3
    <3>6. \A r, q \in DOMAIN requests'[c] : r < q => requests'[c][r] < requests'[c][q]
      <4>1. \A r, q \in DOMAIN requests'[c] : r < q => r + 1 < q + 1
        BY <3>3
      <4> QED  BY <2>0, <3>3, <4>1 DEF InOrder
    <3>7. \A r \in DOMAIN requests'[c] : message.id < requests'[c][r]
      BY <2>0, <3>3, <3>4 DEF InOrder
    <3>8. \A j \in DOMAIN toService[c] : message.id < toService[c][j].id
      BY <2>0, <3>4 DEF InOrder
    <3>9. \A i \in DOMAIN toUi'[c] : toUi'[c][i].type = "success" =>
             /\ \A r \in DOMAIN requests'[c] : toUi'[c][i].id < requests'[c][r]
             /\ \A j \in DOMAIN toService[c] : toUi'[c][i].id < toService[c][j].id
      BY <2>0, <3>1, <3>3, <3>7, <3>8 DEF InOrder
    <3>10. \A r \in DOMAIN requests'[c], j \in DOMAIN toService[c] : requests'[c][r] < toService[c][j].id
      BY <2>0, <3>3 DEF InOrder
    <3>11. \A i, j \in DOMAIN toService[c] : i < j => toService[c][i].id < toService[c][j].id
      BY <2>0 DEF InOrder
    <3> QED  BY <1>1, <3>5, <3>6, <3>9, <3>10, <3>11 DEF InOrder
  <2> QED  BY <2>1, <2>2
<1>15. Carried'
  <2>1. ASSUME NEW c \in Conns, NEW r \in DOMAIN requests'[c]
        PROVE  \E q \in DOMAIN requests[c] : requests'[c][r] = requests[c][q]
    <3>1. CASE c = c0
      BY <1>4, <1>7, <3>1
    <3>2. CASE c # c0
      BY <1>7, <3>2
    <3> QED  BY <3>1, <3>2
  <2> QED  BY <1>1, <2>1 DEF IInv, Carried
<1>16. ListingsFresh'
  <2> SUFFICES ASSUME NEW c \in Conns, NEW j \in Those("LIST_RULES", netlink'[c]), netlink'[c][j].table # {},
                      NEW r \in 1..Count("LIST_RULES", netlink'[c], j)
               PROVE  Fresh(requests'[c][r], calls, netlink'[c][j].table)
    BY <1>1 DEF ListingsFresh
  <2>1. CASE c # c0
    <3>1. netlink'[c] = netlink[c] /\ requests'[c] = requests[c]
      BY <1>7, <2>1
    <3> QED  BY <3>1 DEF IInv, ListingsFresh
  <2>2. CASE c = c0
    <3>1. j \in DOMAIN Tail(socket) /\ Tail(socket)[j].cmd = "LIST_RULES"
      BY <1>7, <2>2 DEF Those
    <3>2. /\ j + 1 \in Those("LIST_RULES", socket) /\ socket[j+1] = netlink'[c][j]
          /\ j \in 0..Len(socket) - 1 /\ j + 1 \in 0..Len(socket)
      <4>1. Len(socket) \in Nat
        BY <1>2, LenProperties
      <4>2. j + 1 \in DOMAIN socket /\ Tail(socket)[j] = socket[j+1] /\ j \in 1..Len(socket) - 1
        BY <1>3, <3>1
      <4>3. j + 1 \in Those("LIST_RULES", socket)
        BY <3>1, <4>2 DEF Those
      <4>4. j \in 0..Len(socket) - 1 /\ j + 1 \in 0..Len(socket)
        BY <4>1, <4>2
      <4>5. netlink'[c][j] = Tail(socket)[j]
        BY <1>7, <2>2
      <4> QED  BY <4>2, <4>3, <4>4, <4>5
    <3>3. /\ Count("LIST_RULES", netlink'[c], j) = Count("LIST_RULES", socket, j+1) - 1
          /\ Count("LIST_RULES", socket, j+1) \in Nat
      <4>1. Count("LIST_RULES", socket, j+1) \in Nat
        BY <1>2, <3>2, CountFacts
      <4> QED  BY <1>7, <1>11, <2>2, <3>2, <4>1
    <3>4. r + 1 \in 1..Count("LIST_RULES", socket, j+1)
      BY <3>3
    <3>5. Fresh(queue[r+1], calls, socket[j+1].table)
      BY <2>2, <3>2, <3>4 DEF IInv, ListingsFresh
    <3>6. requests'[c][r] = queue[r+1]
      <4>1. r + 1 \in DOMAIN queue /\ r \in Int /\ 1 <= r
        BY <1>0, <3>2, <3>3, <3>4, ListingInQueue DEF IInv
      <4>2. DOMAIN queue = 1..Len(queue) /\ Len(queue) \in Nat
        BY <1>2, LenProperties
      <4>3. DOMAIN Tail(queue) = 1..Len(queue) - 1
        BY <1>4, LenProperties
      <4>4. r \in DOMAIN Tail(queue)
        BY <4>1, <4>2, <4>3
      <4> QED  BY <1>4, <1>7, <2>2, <4>4
    <3> QED  BY <3>2, <3>5, <3>6
  <2> QED  BY <2>1, <2>2
<1>17. ResponsesFresh'
  <2> SUFFICES ASSUME NEW c \in Conns, NEW i \in DOMAIN toUi'[c],
                      toUi'[c][i].type = "success", toUi'[c][i].table # {}
               PROVE  Fresh(toUi'[c][i].id, calls, toUi'[c][i].table)
    BY <1>1 DEF ResponsesFresh
  <2>1. CASE i \in DOMAIN toUi[c] /\ toUi'[c][i] = toUi[c][i]
    BY <2>1 DEF IInv, ResponsesFresh
  <2>2. CASE toUi'[c][i] = message
    <3>1. 1 \in Those("LIST_RULES", socket) /\ 0 \in 0..Len(socket) - 1 /\ 0 \in 0..Len(Tail(socket))
      <4>1. DOMAIN socket = 1..Len(socket) /\ Len(socket) \in Nat /\ Len(Tail(socket)) \in Nat
        BY <1>2, <1>3, LenProperties
      <4> QED  BY <1>2, <1>3, <4>1 DEF Those
    <3>2. Count("LIST_RULES", Tail(socket), 0) = Count("LIST_RULES", socket, 1) - 1
      BY <1>11, <3>1
    <3>3. Count("LIST_RULES", Tail(socket), 0) \in Nat
      BY <1>3, <3>1, CountFacts
    <3>4. Count("LIST_RULES", socket, 1) \in Nat
      <4>1. 1 \in 0..Len(socket)
        BY <1>2, <1>3, LenProperties
      <4> QED  BY <1>2, <4>1, CountFacts
    <3>5. 1 \in 1..Count("LIST_RULES", socket, 1)
      BY <3>2, <3>3, <3>4
    <3> QED  BY <2>2, <3>1, <3>5 DEF IInv, ListingsFresh
  <2> QED  BY <1>6, <2>1, <2>2
<1> QED  BY <1>8, <1>9, <1>10, <1>12, <1>13, <1>14, <1>15, <1>16, <1>17 DEF IInv

\* So it does when a blocked packet is passed on under the thread's own id.
LEMMA ForwardPacketStep ==
    ASSUME IInv, NEW c0 \in Conns, ForwardPacket(c0)
    PROVE  IInv'
<1>0. TypeOK
  BY DEF IInv
<1> DEFINE socket  == netlink[c0]
           message == [type |-> "request", id |-> noteId[c0], table |-> {}]
<1>1. UNCHANGED <<nextId, calls, waiting, connected, conn, toService, requests, applied, packets, spoilt>>
  BY DEF ForwardPacket, ui
<1>2. /\ socket \in Seq(Sent) /\ socket # <<>> /\ Head(socket).cmd = "BLOCKED_PACKET"
      /\ packets \in Nat
      /\ \A c \in Conns : noteId[c] \in 1..packets + 1
  BY <1>0, CallFacts, WireFacts DEF ForwardPacket, TypeOK
<1>3. /\ Tail(socket) \in Seq(Sent)
      /\ \A i \in DOMAIN Tail(socket) : /\ i \in 1..Len(socket) - 1 /\ i + 1 \in DOMAIN socket
                                        /\ Tail(socket)[i] = socket[i+1]
  BY <1>2, TailFacts
<1>4. message \in Told /\ Send(c0, message)
  <2>1. noteId[c0] \in Nat
    BY <1>2
  <2> QED  BY <2>1 DEF ForwardPacket, Told
<1>5. /\ alive' \in [Conns -> BOOLEAN] /\ toUi' \in [Conns -> Seq(Told)]
      /\ \A c \in Conns : \A i \in DOMAIN toUi'[c] :
            \/ i \in DOMAIN toUi[c] /\ toUi'[c][i] = toUi[c][i]
            \/ c = c0 /\ toUi'[c][i] = message
  BY <1>0, <1>4, SendFacts
<1>6. /\ netlink' = [netlink EXCEPT ![c0] = Tail(@)] /\ netlink'[c0] = Tail(socket)
      /\ \A c \in Conns \ {c0} : netlink'[c] = netlink[c] /\ noteId'[c] = noteId[c]
      /\ noteId' = [noteId EXCEPT ![c0] = @ + 1] /\ noteId'[c0] = noteId[c0] + 1
      /\ \A c \in Conns : noteId[c] <= noteId'[c]
  <2>1. netlink \in [Conns -> Seq(Sent)] /\ noteId \in [Conns -> 1..packets + 1]
    BY <1>0 DEF TypeOK, Sent
  <2>2. netlink' = [netlink EXCEPT ![c0] = Tail(@)] /\ noteId' = [noteId EXCEPT ![c0] = @ + 1]
    BY DEF ForwardPacket
  <2>3. ASSUME NEW c \in Conns PROVE noteId'[c] = IF c = c0 THEN noteId[c] + 1 ELSE noteId[c]
    BY <2>1, <2>2
  <2>4. \A c \in Conns : noteId[c] \in Nat
    BY <1>2
  <2>5. \A c \in Conns : noteId[c] <= noteId'[c]
    BY <2>3, <2>4
  <2> QED  BY <2>1, <2>2, <2>3, <2>5
<1>7. /\ Cardinality(Those("LIST_RULES", Tail(socket))) = Cardinality(Those("LIST_RULES", socket))
      /\ \A j \in 0..Len(socket) - 1 :
             Count("LIST_RULES", Tail(socket), j) = Count("LIST_RULES", socket, j+1)
      /\ Cardinality(Those("BLOCKED_PACKET", Tail(socket))) = Cardinality(Those("BLOCKED_PACKET", socket)) - 1
      /\ Cardinality(Those("BLOCKED_PACKET", Tail(socket))) \in Nat
      /\ Cardinality(Those("BLOCKED_PACKET", socket)) \in Nat
  <2>1. Cardinality(Those("BLOCKED_PACKET", Tail(socket))) = Cardinality(Those("BLOCKED_PACKET", socket)) - 1
    BY <1>2, CountTail
  <2>2. /\ Cardinality(Those("LIST_RULES", Tail(socket))) = Cardinality(Those("LIST_RULES", socket)) - 0
        /\ \A j \in 0..Len(socket) - 1 :
             Count("LIST_RULES", Tail(socket), j) = Count("LIST_RULES", socket, j+1) - 0
    BY <1>2, CountTail
  <2>3. /\ Cardinality(Those("LIST_RULES", socket)) \in Nat
        /\ Cardinality(Those("BLOCKED_PACKET", socket)) \in Nat
        /\ Cardinality(Those("BLOCKED_PACKET", Tail(socket))) \in Nat
    BY <1>2, <1>3, CountFacts
  <2>4. \A j \in 0..Len(socket) - 1 : Count("LIST_RULES", socket, j+1) \in Nat
    <3>1. \A j \in 0..Len(socket) - 1 : j + 1 \in 0..Len(socket)
      BY <1>2, LenProperties
    <3> QED  BY <1>2, <3>1, CountFacts
  <2> QED  BY <2>1, <2>2, <2>3, <2>4
<1>8. NotesArePackets'
  <2> SUFFICES ASSUME NEW c \in Conns
               PROVE  noteId'[c] + Cardinality(Those("BLOCKED_PACKET", netlink'[c])) <= packets + 1
    BY <1>1 DEF NotesArePackets
  <2>1. noteId[c] + Cardinality(Those("BLOCKED_PACKET", netlink[c])) <= packets + 1 /\ noteId[c] \in Nat
    BY <1>2 DEF IInv, NotesArePackets
  <2>2. CASE c = c0
    <3>1. /\ noteId'[c] = noteId[c] + 1
          /\ Cardinality(Those("BLOCKED_PACKET", netlink'[c])) = Cardinality(Those("BLOCKED_PACKET", netlink[c])) - 1
          /\ Cardinality(Those("BLOCKED_PACKET", netlink[c])) \in Nat
      BY <1>6, <1>7, <2>2
    <3> QED  BY <1>2, <2>1, <3>1
  <2>3. CASE c # c0
    BY <1>6, <2>1, <2>3
  <2> QED  BY <2>2, <2>3
<1>9. TypeOK'
  <2>1. netlink' \in [Conns -> Seq(Sent)]
    BY <1>0, <1>3, <1>6 DEF TypeOK, Sent
  <2>2. noteId[c0] + 1 \in 1..packets + 1
    <3>1. noteId'[c0] + Cardinality(Those("BLOCKED_PACKET", netlink'[c0])) <= packets + 1
      BY <1>1, <1>8 DEF NotesArePackets
    <3>2. Cardinality(Those("BLOCKED_PACKET", netlink'[c0])) \in Nat /\ noteId[c0] \in 1..packets + 1
      BY <1>2, <1>6, <1>7
    <3> QED  BY <1>2, <1>6, <3>1, <3>2
  <2>3. noteId' \in [Conns -> 1..packets + 1]
    BY <1>0, <1>6, <2>2 DEF TypeOK
  <2> QED  BY <1>0, <1>1, <1>5, <2>1, <2>3 DEF TypeOK, Told, Sent
<1>10. Bounded' /\ KindsMatch' /\ AnswersAreFresh' /\ Carried'
  BY <1>1 DEF IInv, Bounded, KindsMatch, AnswersAreFresh, Carried
<1>11. Returning'
  <2> SUFFICES ASSUME NEW c \in Conns, NEW i \in DOMAIN toUi'[c]
               PROVE  IF toUi'[c][i].type = "success" THEN toUi'[c][i].id \in DOMAIN calls
                                                      ELSE toUi'[c][i].id < noteId'[c]
    BY <1>1 DEF Returning
  <2>1. CASE i \in DOMAIN toUi[c] /\ toUi'[c][i] = toUi[c][i]
    <3>1. IF toUi[c][i].type = "success" THEN toUi[c][i].id \in DOMAIN calls
                                         ELSE toUi[c][i].id < noteId[c]
      BY <2>1 DEF IInv, Returning
    <3>2. toUi[c][i].id \in Nat /\ noteId[c] \in Nat /\ noteId'[c] \in Nat /\ noteId[c] <= noteId'[c]
      <4>1. toUi[c][i].id \in Nat
        BY <1>0, <2>1, WireFacts DEF Told
      <4>2. noteId[c] \in Nat /\ noteId[c] <= noteId'[c]
        BY <1>2, <1>6
      <4>3. noteId'[c] \in Nat
        BY <1>6, <4>2
      <4> QED  BY <4>1, <4>2, <4>3
    <3> QED  BY <2>1, <3>1, <3>2
  <2>2. CASE c = c0 /\ toUi'[c][i] = message
    <3>1. noteId[c0] \in Nat
      BY <1>2
    <3> QED  BY <1>6, <2>2, <3>1
  <2> QED  BY <1>5, <2>1, <2>2
<1>12. NeverWaitsForRequest'
  <2>1. ASSUME NEW c \in Conns
        PROVE  Cardinality(Those("LIST_RULES", netlink'[c])) = Cardinality(Those("LIST_RULES", netlink[c]))
    BY <1>6, <1>7
  <2> QED  BY <1>1, <2>1 DEF IInv, NeverWaitsForRequest
<1>13. ASSUME NEW c \in Conns PROVE InOrder(c)'
  <2>0. InOrder(c)
    BY DEF IInv
  <2>1. \A i \in DOMAIN toUi'[c] : toUi'[c][i].type = "success" =>
             i \in DOMAIN toUi[c] /\ toUi'[c][i] = toUi[c][i]
    BY <1>5
  <2> QED  BY <1>1, <2>0, <2>1 DEF InOrder
<1>14. ListingsFresh'
  <2> SUFFICES ASSUME NEW c \in Conns, NEW j \in Those("LIST_RULES", netlink'[c]), netlink'[c][j].table # {},
                      NEW r \in 1..Count("LIST_RULES", netlink'[c], j)
               PROVE  Fresh(requests[c][r], calls, netlink'[c][j].table)
    BY <1>1 DEF ListingsFresh
  <2>1. CASE c # c0
    <3>1. netlink'[c] = netlink[c]
      BY <1>6, <2>1
    <3> QED  BY <3>1 DEF IInv, ListingsFresh
  <2>2. CASE c = c0
    <3>1. j \in DOMAIN Tail(socket) /\ Tail(socket)[j].cmd = "LIST_RULES"
      BY <1>6, <2>2 DEF Those
    <3>2. j + 1 \in DOMAIN socket /\ Tail(socket)[j] = socket[j+1] /\ j \in 1..Len(socket) - 1
      BY <1>3, <3>1
    <3>3. j + 1 \in Those("LIST_RULES", socket)
      BY <3>1, <3>2 DEF Those
    <3>4. Count("LIST_RULES", netlink'[c], j) = Count("LIST_RULES", socket, j+1)
      <4>1. j \in 0..Len(socket) - 1
        BY <3>2
      <4> QED  BY <1>6, <1>7, <2>2, <4>1
    <3> QED  BY <1>6, <2>2, <3>2, <3>3, <3>4 DEF IInv, ListingsFresh
  <2> QED  BY <2>1, <2>2
<1>15. ResponsesFresh'
  <2>1. ASSUME NEW c \in Conns, NEW i \in DOMAIN toUi'[c], toUi'[c][i].table # {}
        PROVE  i \in DOMAIN toUi[c] /\ toUi'[c][i] = toUi[c][i]
    BY <1>5, <2>1
  <2> QED  BY <1>1, <2>1 DEF IInv, ResponsesFresh
<1>16. FailsOnlyByCollision'
  <2> SUFFICES ASSUME NEW i \in DOMAIN calls, calls[i].state = "failed"
               PROVE  \E c \in Conns : i < noteId'[c]
    BY <1>1 DEF FailsOnlyByCollision
  <2>1. PICK c \in Conns : i < noteId[c]
    BY DEF IInv, FailsOnlyByCollision
  <2>2. i \in Nat /\ noteId[c] \in Nat /\ noteId'[c] \in Nat /\ noteId[c] <= noteId'[c]
    BY <1>0, <1>2, <1>6, CallFacts
  <2>3. i < noteId'[c]
    BY <2>1, <2>2
  <2> QED  BY <2>3
<1> QED  BY <1>8, <1>9, <1>10, <1>11, <1>12, <1>13, <1>14, <1>15, <1>16 DEF IInv

\* So it does when the kernel tells all sockets of a packet it blocked.
LEMMA BlockPacketStep ==
    ASSUME IInv, BlockPacket
    PROVE  IInv'
<1>0. TypeOK /\ packets \in Nat /\ MaxPackets \in Nat
  BY CallFacts DEF IInv
<1> DEFINE packet == [cmd |-> "BLOCKED_PACKET", table |-> {}]
<1>1. /\ packets < MaxPackets /\ packets' = packets + 1
      /\ UNCHANGED <<nextId, calls, waiting, connected, conn, toService, toUi, alive, requests,
                     noteId, applied, spoilt>>
  BY DEF BlockPacket, ui, service
<1>2. /\ netlink' = [c \in Conns |-> netlink'[c]]
      /\ \A c \in Conns : netlink'[c] = netlink[c] \/ netlink'[c] = Append(netlink[c], packet)
  BY DEF BlockPacket
<1>3. packet \in Sent
  BY DEF Sent
<1>4. ASSUME NEW c \in Conns
      PROVE  /\ netlink'[c] \in Seq(Sent)
             /\ Those("LIST_RULES", netlink'[c]) = Those("LIST_RULES", netlink[c])
             /\ \A j \in Those("LIST_RULES", netlink[c]) :
                   /\ netlink'[c][j] = netlink[c][j]
                   /\ Count("LIST_RULES", netlink'[c], j) = Count("LIST_RULES", netlink[c], j)
             /\ Cardinality(Those("BLOCKED_PACKET", netlink[c])) \in Nat
             /\ Cardinality(Those("BLOCKED_PACKET", netlink'[c])) \in Nat
             /\ Cardinality(Those("BLOCKED_PACKET", netlink'[c]))
                    <= Cardinality(Those("BLOCKED_PACKET", netlink[c])) + 1
  <2>1. netlink[c] \in Seq(Sent)
    BY <1>0, WireFacts
  <2>2. Cardinality(Those("BLOCKED_PACKET", netlink[c])) \in Nat
    BY <2>1, CountFacts
  <2>3. CASE netlink'[c] = netlink[c]
    BY <2>1, <2>2, <2>3
  <2>4. CASE netlink'[c] = Append(netlink[c], packet)
    <3>1. /\ Append(netlink[c], packet) \in Seq(Sent) /\ Len(netlink[c]) \in Nat
          /\ \A j \in 1..Len(netlink[c]) : Append(netlink[c], packet)[j] = netlink[c][j]
      BY <1>3, <2>1, AppendProperties, LenProperties
    <3>2. /\ Those("LIST_RULES", Append(netlink[c], packet)) = Those("LIST_RULES", netlink[c])
          /\ \A j \in 1..Len(netlink[c]) :
                Count("LIST_RULES", Append(netlink[c], packet), j) = Count("LIST_RULES", netlink[c], j)
      <4> DEFINE m == packet
      <4>1. m \in Sent /\ m.cmd # "LIST_RULES"
        BY <1>3
      <4> HIDE DEF m
      <4>2. Those("LIST_RULES", Append(netlink[c], m)) =
               Those("LIST_RULES", netlink[c]) \cup
                   IF m.cmd = "LIST_RULES" THEN {Len(netlink[c]) + 1} ELSE {}
        BY <2>1, <4>1, CountAppend
      <4>3. Those("LIST_RULES", Append(netlink[c], m)) = Those("LIST_RULES", netlink[c])
        BY <4>1, <4>2
      <4>4. ASSUME NEW j \in 1..Len(netlink[c])
            PROVE  Count("LIST_RULES", Append(netlink[c], m), j) = Count("LIST_RULES", netlink[c], j)
        BY <4>3 DEF Count
      <4> QED  BY <4>3, <4>4 DEF m
    <3>3. Cardinality(Those("BLOCKED_PACKET", Append(netlink[c], packet)))
             = Cardinality(Those("BLOCKED_PACKET", netlink[c])) + 1
      BY <1>3, <2>1, CountAppend
    <3>4. Those("LIST_RULES", netlink[c]) \subseteq 1..Len(netlink[c])
      BY <2>1, CountFacts
    <3> QED  BY <2>2, <2>4, <3>1, <3>2, <3>3, <3>4
  <2> QED  BY <1>2, <2>3, <2>4
<1>5. TypeOK'
  <2>1. netlink' \in [Conns -> Seq(Sent)]
    BY <1>2, <1>4
  <2>2. packets' \in 0..MaxPackets /\ \A k \in 1..packets + 1 : k \in 1..packets' + 1
    BY <1>0, <1>1
  <2>3. noteId \in [Conns -> 1..packets' + 1]
    BY <1>0, <2>2 DEF TypeOK
  <2> QED  BY <1>0, <1>1, <2>1, <2>2, <2>3 DEF TypeOK, Sent
<1>6. NotesArePackets'
  <2> SUFFICES ASSUME NEW c \in Conns
               PROVE  noteId[c] + Cardinality(Those("BLOCKED_PACKET", netlink'[c])) <= packets' + 1
    BY <1>1 DEF NotesArePackets
  <2>1. noteId[c] + Cardinality(Those("BLOCKED_PACKET", netlink[c])) <= packets + 1 /\ noteId[c] \in Nat
    <3>1. noteId[c] \in 1..packets + 1
      BY <1>0 DEF TypeOK
    <3> QED  BY <3>1 DEF IInv, NotesArePackets
  <2> QED  BY <1>0, <1>1, <1>4, <2>1
<1>7. Bounded' /\ KindsMatch' /\ Returning' /\ Carried'
  BY <1>1 DEF IInv, Bounded, KindsMatch, Returning, Carried
<1>8. ResponsesFresh' /\ AnswersAreFresh' /\ FailsOnlyByCollision'
  BY <1>1 DEF IInv, ResponsesFresh, AnswersAreFresh, FailsOnlyByCollision
<1>9. \A c \in Conns : InOrder(c)'
  BY <1>1 DEF IInv, InOrder
<1>10. NeverWaitsForRequest'
  BY <1>1, <1>4 DEF IInv, NeverWaitsForRequest
<1>11. ListingsFresh'
  <2> SUFFICES ASSUME NEW c \in Conns, NEW j \in Those("LIST_RULES", netlink[c]), netlink[c][j].table # {},
                      NEW r \in 1..Count("LIST_RULES", netlink[c], j)
               PROVE  Fresh(requests[c][r], calls, netlink[c][j].table)
    BY <1>1, <1>4 DEF ListingsFresh
  <2> QED  BY DEF IInv, ListingsFresh
<1> QED  BY <1>5, <1>6, <1>7, <1>8, <1>9, <1>10, <1>11 DEF IInv

-----------------------------------------------------------------------------
(***************************************************************************)
(* The theorems.                                                           *)
(***************************************************************************)
\* Nothing has been asked for yet.
LEMMA InitIInv == Init => IInv
<1> SUFFICES ASSUME Init PROVE IInv
  OBVIOUS
<1>1. /\ calls = <<>> /\ Len(calls) = 0 /\ DOMAIN calls = {} /\ MaxPackets \in Nat
      /\ MaxConnections \in Nat /\ MaxRequests \in Nat
  BY RpcSessionAssumption DEF Init
<1>2. \A c \in Conns : /\ toService[c] = <<>> /\ toUi[c] = <<>> /\ requests[c] = <<>>
                       /\ netlink[c] = <<>> /\ noteId[c] = 1
                       /\ DOMAIN toService[c] = {} /\ DOMAIN toUi[c] = {} /\ DOMAIN requests[c] = {}
                       /\ DOMAIN netlink[c] = {} /\ Len(requests[c]) = 0
  BY DEF Init
<1>3. \A c \in Conns : \A cmd : Those(cmd, netlink[c]) = {} /\ Cardinality(Those(cmd, netlink[c])) = 0
  BY <1>2, FS_EmptySet DEF Those
<1>4. TypeOK
  <2>1. \A S : <<>> \in Seq(S)
    OBVIOUS
  <2>2. noteId \in [Conns -> 1..packets + 1]
    BY DEF Init
  <2>3. calls \in Seq(CallSet) /\ nextId = Len(calls) + 1
    BY <1>1, <2>1 DEF Init
  <2>4. /\ toService \in [Conns -> Seq([id : 1..nextId - 1, kind : Kinds])]
        /\ toUi \in [Conns -> Seq([type : {"success", "request"}, id : Nat, table : SUBSET Ids])]
        /\ requests \in [Conns -> Seq(1..nextId - 1)]
        /\ netlink \in [Conns -> Seq([cmd : {"LIST_RULES", "BLOCKED_PACKET"}, table : SUBSET Ids])]
    BY <2>1 DEF Init
  <2>5. /\ {waiting, connected, spoilt} \subseteq BOOLEAN
        /\ conn \in 0..MaxConnections /\ (connected => conn \in Conns)
    <3>1. waiting = FALSE /\ connected = FALSE /\ spoilt = FALSE /\ conn = 0
      BY DEF Init
    <3>2. conn \in 0..MaxConnections
      BY <1>1, <3>1
    <3> QED  BY <3>1, <3>2
  <2>6. alive \in [Conns -> BOOLEAN] /\ applied \subseteq 1..nextId - 1 /\ packets \in 0..MaxPackets
    BY <1>1 DEF Init
  <2> QED  BY <2>2, <2>3, <2>4, <2>5, <2>6 DEF TypeOK, CallSet
<1>5. Bounded
  BY <1>1 DEF Init, Bounded
<1>6. NotesArePackets /\ NeverWaitsForRequest
  BY <1>2, <1>3 DEF Init, NotesArePackets, NeverWaitsForRequest
<1>7. Returning /\ KindsMatch /\ Carried /\ ResponsesFresh /\ \A c \in Conns : InOrder(c)
  BY <1>1, <1>2 DEF Returning, KindsMatch, Carried, ResponsesFresh, InOrder
<1>8. ListingsFresh /\ AnswersAreFresh /\ FailsOnlyByCollision
  BY <1>1, <1>3 DEF ListingsFresh, AnswersAreFresh, FailsOnlyByCollision
<1> QED  BY <1>4, <1>5, <1>6, <1>7, <1>8 DEF IInv

\* No step breaks the invariant.
LEMMA NextIInv == IInv /\ [Next]_vars => IInv'
<1> SUFFICES ASSUME IInv, [Next]_vars PROVE IInv'
  OBVIOUS
<1>1. CASE \E kind \in Kinds : Request(kind)
  BY <1>1, RequestStep
<1>2. CASE RequestLater
  BY <1>2, RequestLaterStep
<1>3. CASE Connect
  BY <1>3, ConnectStep
<1>4. CASE Disconnect
  BY <1>4, DisconnectStep
<1>5. CASE UiReceive
  BY <1>5, UiReceiveStep
<1>6. CASE \E c \in 1..conn : ServiceStep(c)
  <2>1. PICK c \in 1..conn : ServiceReceive(c) \/ ForwardListing(c) \/ ForwardPacket(c)
    BY <1>6 DEF ServiceStep
  <2>2. c \in Conns
    <3>1. conn \in 0..MaxConnections /\ MaxConnections \in Nat
      BY RpcSessionAssumption DEF IInv, TypeOK
    <3> QED  BY <2>1, <3>1 DEF Conns
  <2> QED  BY <2>1, <2>2, ServiceReceiveStep, ForwardListingStep, ForwardPacketStep
<1>7. CASE BlockPacket
  BY <1>7, BlockPacketStep
<1>8. CASE UNCHANGED vars
  <2>1. UNCHANGED <<nextId, calls, waiting, connected, conn, toService, toUi, alive, requests,
                    noteId, netlink, applied, packets, spoilt>>
    BY <1>8 DEF vars, ui, service, kernel
  <2>2. TypeOK' /\ Bounded' /\ NotesArePackets' /\ Returning' /\ KindsMatch'
    BY <2>1 DEF IInv, TypeOK, Bounded, NotesArePackets, Returning, KindsMatch
  <2>3. NeverWaitsForRequest' /\ Carried' /\ ListingsFresh' /\ ResponsesFresh'
    BY <2>1 DEF IInv, NeverWaitsForRequest, Carried, ListingsFresh, ResponsesFresh
  <2>4. AnswersAreFresh' /\ FailsOnlyByCollision' /\ \A c \in Conns : InOrder(c)'
    BY <2>1 DEF IInv, AnswersAreFresh, FailsOnlyByCollision, InOrder
  <2> QED  BY <2>2, <2>3, <2>4 DEF IInv
<1> QED  BY <1>1, <1>2, <1>3, <1>4, <1>5, <1>6, <1>7, <1>8 DEF Next

\* The inductive invariant holds throughout every session.
THEOREM SpecIInv == Spec => []IInv
  BY InitIInv, NextIInv, PTL DEF Spec

\* The variables keep their types: every request on a wire or in a queue is one
\* that was made.
THEOREM SpecTypeOK == Spec => []TypeOK
<1>1. IInv => TypeOK
  BY DEF IInv
<1> QED  BY <1>1, SpecIInv, PTL

\* Queue.get in list_rules_callback never waits: a listing arrives only when a
\* request for it is in the queue.
THEOREM SpecNeverWaitsForRequest == Spec => []NeverWaitsForRequest
<1>1. IInv => NeverWaitsForRequest
  BY DEF IInv
<1> QED  BY <1>1, SpecIInv, PTL

\* Responses, the queue and the requests yet to be read hold ascending ids, so that
\* none is answered twice or out of turn.
THEOREM SpecAnswersInOrder == Spec => []AnswersInOrder
<1>1. IInv => AnswersInOrder
  BY InOrderIsOrder DEF IInv
<1> QED  BY <1>1, SpecIInv, PTL

\* Whichever request the queue hands a listing to, the call that gets it sees
\* everything carried out before it was made, and what it asked for itself.
THEOREM SpecAnswersAreFresh == Spec => []AnswersAreFresh
<1>1. IInv => AnswersAreFresh
  BY DEF IInv
<1> QED  BY <1>1, SpecIInv, PTL

\* RPC.#recvResponse fails a call only when a notification bears its id.
THEOREM SpecFailsOnlyByCollision == Spec => []FailsOnlyByCollision
<1>1. IInv => FailsOnlyByCollision
  BY DEF IInv
<1> QED  BY <1>1, SpecIInv, PTL

=============================================================================
