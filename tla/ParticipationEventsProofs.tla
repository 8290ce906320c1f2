----------------------- MODULE ParticipationEventsProofs -----------------------
(***************************************************************************)
(* Theorems about ParticipationEvents, for any users, slots, requests and  *)
(* connections: the events of committed requests are accounted for, and    *)
(* reach the other party once.                                             *)
(***************************************************************************)
EXTENDS ParticipationEvents, ParticipationProofs, SequenceTheorems

-----------------------------------------------------------------------------
(* The tables are Participation's *)

\* Each step of the events is a step of the participations, or leaves them alone.
LEMMA EventsStepIsTablesStep == ENext => [Next]_vars
<1> SUFFICES ASSUME ENext PROVE [Next]_vars
    OBVIOUS
<1>1. CASE TablesOnly
    BY <1>1 DEF TablesOnly, Next
<1>2. CASE \E r \in Requests : Committing(r) \/ Sent(r) \/ SentUnacknowledged(r) \/ SendFails(r)
    BY <1>2 DEF Committing, Sent, SentUnacknowledged, SendFails, Next
<1>3. CASE Dying
    BY <1>3 DEF Dying, Next
<1>4. CASE \E t \in Topics, u \in Users : (Consume(t, u) \/ ConsumeUncommitted(t, u)) /\ UNCHANGED vars
    BY <1>4
<1>5. QED
    BY <1>1, <1>2, <1>3, <1>4 DEF ENext

\* Sending and handling events, and dying before one is sent, leaves everything said of
\* ParticipationService true: publish() is called after the transaction.
THEOREM EventsKeepParticipation == ESpec => Spec
<1>1. [ENext]_allVars => [Next]_vars
    BY EventsStepIsTablesStep DEF allVars, vars
<1>2. EInit => Init
    BY DEF EInit
<1>3. QED
    BY <1>1, <1>2, PTL DEF ESpec, Spec

-----------------------------------------------------------------------------
(* The calls behind the events *)

\* A request that is under way, its event included, asks for what its actor may do.
CallsAllowed ==
    \A r \in Requests : pc[r] \in {"open", "committed"} =>
        /\ call[r] \in Calls
        /\ call[r].op = "JOIN" => call[r].actor = call[r].user
        /\ call[r].op # "JOIN" => MayAct(call[r])

LEMMA CallsAllowedStep == TypeOK /\ CallsAllowed /\ [Next]_vars => CallsAllowed'
<1> SUFFICES ASSUME TypeOK, CallsAllowed, [Next]_vars PROVE CallsAllowed'
    OBVIOUS
<1> USE DEF TypeOK, CallsAllowed
<1>1. ASSUME NEW x \in Requests, NEW c \in Calls, CreateReads(x, c) \/ TransitionReads(x, c)
      PROVE  CallsAllowed'
    <2>1. pc' = [pc EXCEPT ![x] = "open"] /\ call' = [call EXCEPT ![x] = c]
        BY <1>1 DEF CreateReads, TransitionReads, Open
    <2>2. (c.op = "JOIN" => c.actor = c.user) /\ (c.op # "JOIN" => MayAct(c))
        BY <1>1 DEF CreateReads, TransitionReads, CanJoin, CanTransition
    <2>3. QED
        BY <2>1, <2>2 DEF MayAct
<1>2. ASSUME NEW x \in Requests, CreateCommits(x) \/ TransitionCommits(x) PROVE CallsAllowed'
    BY <1>2 DEF CreateCommits, TransitionCommits, Commit, MayAct
<1>3. ASSUME NEW R \in SUBSET Requests, Finish(R) PROVE CallsAllowed'
    BY <1>3 DEF Finish, MayAct
<1>4. CASE UNCHANGED vars \/ \E s \in Slots : SlotRemove(s) \/ \E row \in SlotRows : SlotUpdate(s, row)
    BY <1>4 DEF vars, SlotUpdate, SlotRemove, MayAct
<1>5. QED
    BY <1>1, <1>2, <1>3, <1>4 DEF Next, TransactionFails, Publish, Crash, Running

LEMMA CallsAlwaysAllowed == Spec => []CallsAllowed
<1>1. Init => CallsAllowed
    BY DEF Init, CallsAllowed
<1>2. QED
    BY <1>1, CallsAllowedStep, TypeCorrect, PTL DEF Spec

\* The event of such a call: whom it is for, and who is told nothing.
ToOtherParty(u, c) ==
    u \in {c.user, OrganizerOf[c.slot]} /\ (c.actor = u => c.user = OrganizerOf[c.slot])

LEMMA EventOfCall ==
    ASSUME CallsAllowed, NEW r \in Requests, pc[r] = "committed"
    PROVE  /\ EventOf(r) \in Events
           /\ EventOf(r).eventId = r /\ EventOf(r).about = call[r]
           /\ TopicOf(call[r].op) \in Topics
           /\ EventOf(r).recipientUserId \in Users
           /\ ToOtherParty(EventOf(r).recipientUserId, EventOf(r).about)
<1> DEFINE c == call[r]
<1>1. /\ c \in Calls
      /\ c.op = "JOIN" => c.actor = c.user
      /\ c.op # "JOIN" => c.actor = OrganizerOf[c.slot] \/ (c.op = "CANCEL" /\ c.actor = c.user)
    BY DEF CallsAllowed, MayAct
<1>2. c.op \in {"JOIN", "ACCEPT", "REJECT", "CANCEL"} /\ c.user \in Users /\ OrganizerOf[c.slot] \in Users
    BY <1>1, CallFields, OrganizerAssumption
<1>3. Recipient(c) \in Users /\ ToOtherParty(Recipient(c), c)
    BY <1>1, <1>2 DEF Recipient, ToOtherParty
<1>4. TopicOf(c.op) \in Topics
    BY <1>2 DEF TopicOf, Topics
<1>5. QED
    BY <1>1, <1>3, <1>4 DEF EventOf, Events

-----------------------------------------------------------------------------
(* Types *)

\* What a sequence holds, with an element more or without its first.
LEMMA RangeAppend ==
    ASSUME NEW S, NEW q \in Seq(S), NEW e \in S
    PROVE  Append(q, e) \in Seq(S) /\ Range(Append(q, e)) = Range(q) \cup {e}
<1>1. /\ Append(q, e) \in Seq(S) /\ DOMAIN Append(q, e) = 1 .. (Len(q) + 1)
      /\ \A i \in 1 .. Len(q) : Append(q, e)[i] = q[i]
      /\ Append(q, e)[Len(q) + 1] = e
    BY AppendProperties
<1>2. DOMAIN q = 1 .. Len(q) /\ Len(q) \in Nat
    BY LenProperties
<1>3. ASSUME NEW x \in Range(Append(q, e)) PROVE x \in Range(q) \cup {e}
    <2>1. PICK i \in 1 .. (Len(q) + 1) : x = Append(q, e)[i]
        BY <1>1 DEF Range
    <2>2. CASE i = Len(q) + 1
        BY <1>1, <2>1, <2>2
    <2>3. CASE i \in 1 .. Len(q)
        BY <1>1, <1>2, <2>1, <2>3 DEF Range
    <2>4. QED
        BY <1>2, <2>1, <2>2, <2>3
<1>4. Range(q) \subseteq Range(Append(q, e))
    <2>1. \A i \in 1 .. Len(q) : i \in 1 .. (Len(q) + 1)
        BY <1>2
    <2>2. QED
        BY <1>1, <1>2, <2>1 DEF Range
<1>5. e \in Range(Append(q, e))
    <2>1. Len(q) + 1 \in 1 .. (Len(q) + 1)
        BY <1>2
    <2>2. QED
        BY <1>1, <2>1 DEF Range
<1>6. QED
    BY <1>1, <1>3, <1>4, <1>5

LEMMA RangeTail ==
    ASSUME NEW S, NEW q \in Seq(S), q # <<>>
    PROVE  /\ Head(q) \in S /\ Tail(q) \in Seq(S)
           /\ Range(q) = Range(Tail(q)) \cup {Head(q)}
<1>1. /\ Head(q) \in S /\ Head(q) = q[1]
      /\ Tail(q) \in Seq(S) /\ DOMAIN Tail(q) = 1 .. (Len(q) - 1)
      /\ \A i \in 1 .. (Len(q) - 1) : Tail(q)[i] = q[i + 1]
    BY HeadTailProperties, LenProperties
<1>2. DOMAIN q = 1 .. Len(q) /\ Len(q) \in Nat /\ Len(q) # 0
    BY LenProperties, EmptySeq
<1>3. ASSUME NEW x \in Range(q) PROVE x \in Range(Tail(q)) \cup {Head(q)}
    <2>1. PICK i \in 1 .. Len(q) : x = q[i]
        BY <1>2 DEF Range
    <2>2. CASE i = 1
        BY <1>1, <2>1, <2>2
    <2>3. CASE i # 1
        <3>1. i - 1 \in 1 .. (Len(q) - 1) /\ (i - 1) + 1 = i
            BY <1>2, <2>3
        <3>2. QED
            BY <1>1, <2>1, <3>1 DEF Range
    <2>4. QED
        BY <2>2, <2>3
<1>4. Range(Tail(q)) \subseteq Range(q)
    <2>1. \A i \in 1 .. (Len(q) - 1) : i + 1 \in 1 .. Len(q)
        BY <1>2
    <2>2. QED
        BY <1>1, <1>2, <2>1 DEF Range
<1>5. Head(q) \in Range(q)
    BY <1>1, <1>2 DEF Range
<1>6. QED
    BY <1>1, <1>3, <1>4, <1>5

\* The head of a partition is handled, its offset committed or not.
Consumes(t, u) ==
    /\ queue[t][u] # <<>>
    /\ Handle(u, Head(queue[t][u]))
    /\ queue' = [queue EXCEPT ![t][u] = Tail(@)] \/ UNCHANGED queue
    /\ UNCHANGED <<sent, done, lost, pc>>

\* What may happen to an event in a step.
LEMMA EventCases ==
    ASSUME [ENext]_allVars
    PROVE  \/ UNCHANGED <<queue, inbox, sent>>
           \/ \E r \in Requests : pc[r] = "committed" /\ ReachesBroker(r)
           \/ \E t \in Topics, u \in Users : Consumes(t, u)
    BY DEF ENext, allVars, TablesOnly, eventVars, Committing, Sent, SentUnacknowledged, Publish,
        SendFails, Dying, Consume, ConsumeUncommitted, Consumes, vars

\* The queues and the inboxes after an event reached the broker, or was handled.
LEMMA BrokerWrites ==
    ASSUME ETypeOK, CallsAllowed, NEW r \in Requests, pc[r] = "committed", ReachesBroker(r)
    PROVE  LET e == EventOf(r)
               t == TopicOf(call[r].op)
           IN  /\ e \in Events /\ t \in Topics /\ e.recipientUserId \in Users
               /\ queue' \in [Topics -> [Users -> Seq(Events)]]
               /\ \A x \in Topics, u \in Users : queue'[x][u] =
                    IF x = t /\ u = e.recipientUserId THEN Append(queue[x][u], e) ELSE queue[x][u]
<1> DEFINE e == EventOf(r)
           t == TopicOf(call[r].op)
           u == e.recipientUserId
<1>1. e \in Events /\ t \in Topics /\ u \in Users
    BY EventOfCall
<1>2. queue' = [queue EXCEPT ![t][u] = Append(@, e)]
    BY DEF ReachesBroker
<1>3. queue \in [Topics -> [Users -> Seq(Events)]]
    BY DEF ETypeOK
<1> HIDE DEF e, t, u
<1>4. Append(queue[t][u], e) \in Seq(Events)
    BY <1>1, <1>3, RangeAppend
<1>5. queue' \in [Topics -> [Users -> Seq(Events)]]
    BY <1>1, <1>2, <1>3, <1>4
<1>6. \A x \in Topics, y \in Users : queue'[x][y] =
        IF x = t /\ y = u THEN Append(queue[x][y], e) ELSE queue[x][y]
    BY <1>1, <1>2, <1>3
<1>7. QED
    BY <1>1, <1>5, <1>6 DEF e, t, u

LEMMA ConsumerWrites ==
    ASSUME ETypeOK, NEW t \in Topics, NEW u \in Users, Consumes(t, u)
    PROVE  LET e == Head(queue[t][u])
           IN  /\ e \in Events /\ e \in Range(queue[t][u])
               /\ inbox' \in [Users -> Seq(Events)]
               /\ queue' \in [Topics -> [Users -> Seq(Events)]]
               /\ \A v \in Users : inbox'[v] =
                    IF v = u /\ e.eventId \notin Handled(u) THEN Append(inbox[v], e) ELSE inbox[v]
               /\ \A x \in Topics, v \in Users :
                    \/ queue'[x][v] = queue[x][v]
                    \/ x = t /\ v = u /\ queue'[x][v] = Tail(queue[x][v])
<1> DEFINE e == Head(queue[t][u])
<1>1. queue \in [Topics -> [Users -> Seq(Events)]] /\ inbox \in [Users -> Seq(Events)]
    BY DEF ETypeOK
<1>2. e \in Events /\ e \in Range(queue[t][u]) /\ Tail(queue[t][u]) \in Seq(Events)
    BY <1>1, RangeTail DEF Consumes
<1>3. Append(inbox[u], e) \in Seq(Events)
    BY <1>1, <1>2, RangeAppend
<1>4. queue' = [queue EXCEPT ![t][u] = Tail(@)] \/ UNCHANGED queue
    BY DEF Consumes
<1>5. inbox' = IF e.eventId \in Handled(u) THEN inbox ELSE [inbox EXCEPT ![u] = Append(@, e)]
    BY DEF Consumes, Handle
<1> HIDE DEF e
<1>6. queue' \in [Topics -> [Users -> Seq(Events)]]
    <2>1. [queue[t] EXCEPT ![u] = Tail(@)] \in [Users -> Seq(Events)]
        BY <1>1, <1>2
    <2>2. [queue EXCEPT ![t][u] = Tail(@)] \in [Topics -> [Users -> Seq(Events)]]
        BY <1>1, <2>1
    <2>3. QED
        BY <1>1, <1>4, <2>2
<1>7. inbox' \in [Users -> Seq(Events)]
    BY <1>1, <1>3, <1>5
<1>8. \A v \in Users : inbox'[v] =
        IF v = u /\ e.eventId \notin Handled(u) THEN Append(inbox[v], e) ELSE inbox[v]
    BY <1>1, <1>5
<1>9. \A x \in Topics, v \in Users :
        \/ queue'[x][v] = queue[x][v]
        \/ x = t /\ v = u /\ queue'[x][v] = Tail(queue[x][v])
    BY <1>1, <1>4
<1>10. QED
    BY <1>2, <1>6, <1>7, <1>8, <1>9 DEF e

\* The same, of what they hold.
LEMMA BrokerRanges ==
    ASSUME ETypeOK, CallsAllowed, NEW r \in Requests, pc[r] = "committed", ReachesBroker(r),
           NEW x \in Topics, NEW u \in Users
    PROVE  Range(queue'[x][u]) =
                IF x = TopicOf(call[r].op) /\ u = EventOf(r).recipientUserId
                THEN Range(queue[x][u]) \cup {EventOf(r)} ELSE Range(queue[x][u])
<1>1. /\ EventOf(r) \in Events
      /\ queue'[x][u] = IF x = TopicOf(call[r].op) /\ u = EventOf(r).recipientUserId
                        THEN Append(queue[x][u], EventOf(r)) ELSE queue[x][u]
    BY BrokerWrites
<1>2. queue[x][u] \in Seq(Events)
    BY DEF ETypeOK
<1>3. Range(Append(queue[x][u], EventOf(r))) = Range(queue[x][u]) \cup {EventOf(r)}
    BY <1>1, <1>2, RangeAppend
<1>4. QED
    BY <1>1, <1>3

LEMMA ConsumerRanges ==
    ASSUME ETypeOK, NEW t \in Topics, NEW u \in Users, Consumes(t, u), NEW v \in Users
    PROVE  LET e == Head(queue[t][u])
           IN  /\ Range(inbox'[v]) = IF v = u /\ e.eventId \notin Handled(u)
                                     THEN Range(inbox[v]) \cup {e} ELSE Range(inbox[v])
               /\ \A x \in Topics :
                    /\ Range(queue'[x][v]) \subseteq Range(queue[x][v])
                    /\ Range(queue[x][v]) \subseteq Range(queue'[x][v]) \cup
                            IF x = t /\ v = u THEN {e} ELSE {}
<1> DEFINE e == Head(queue[t][u])
<1>1. /\ e \in Events
      /\ inbox'[v] = IF v = u /\ e.eventId \notin Handled(u) THEN Append(inbox[v], e) ELSE inbox[v]
      /\ \A x \in Topics :
            queue'[x][v] = queue[x][v] \/ (x = t /\ v = u /\ queue'[x][v] = Tail(queue[x][v]))
    BY ConsumerWrites
<1>2. inbox[v] \in Seq(Events) /\ queue[t][u] \in Seq(Events) /\ queue[t][u] # <<>>
    BY DEF ETypeOK, Consumes
<1>3. Range(queue[t][u]) = Range(Tail(queue[t][u])) \cup {e}
    BY <1>2, RangeTail
<1> HIDE DEF e
<1>4. Range(Append(inbox[v], e)) = Range(inbox[v]) \cup {e}
    BY <1>1, <1>2, RangeAppend
<1>5. Range(inbox'[v]) = IF v = u /\ e.eventId \notin Handled(u)
                         THEN Range(inbox[v]) \cup {e} ELSE Range(inbox[v])
    BY <1>1, <1>4
<1>6. ASSUME NEW x \in Topics
      PROVE  /\ Range(queue'[x][v]) \subseteq Range(queue[x][v])
             /\ Range(queue[x][v]) \subseteq Range(queue'[x][v]) \cup IF x = t /\ v = u THEN {e} ELSE {}
    <2>1. CASE queue'[x][v] = queue[x][v]
        BY <2>1
    <2>2. CASE x = t /\ v = u /\ queue'[x][v] = Tail(queue[x][v])
        BY <1>3, <2>2
    <2>3. QED
        BY <1>1, <2>1, <2>2
<1>7. QED
    BY <1>5, <1>6 DEF e

LEMMA EventTypeStep ==
    ASSUME ETypeOK, CallsAllowed, [ENext]_allVars
    PROVE  ETypeOK'
<1>1. TypeOK'
    <2>1. [Next]_vars
        BY EventsStepIsTablesStep DEF allVars, vars
    <2>2. QED
        BY <2>1, TypeStep DEF ETypeOK
<1>2. done' \subseteq Requests /\ lost' \subseteq Requests
    BY DEF ETypeOK, ENext, allVars, TablesOnly, eventVars, Committing, Sent, SentUnacknowledged,
        ReachesBroker, SendFails, Dying, Consume, ConsumeUncommitted
<1>3. CASE UNCHANGED <<queue, inbox, sent>>
    BY <1>1, <1>2, <1>3 DEF ETypeOK
<1>4. ASSUME NEW r \in Requests, pc[r] = "committed", ReachesBroker(r) PROVE ETypeOK'
    <2>1. EventOf(r) \in Events /\ queue' \in [Topics -> [Users -> Seq(Events)]]
        BY <1>4, BrokerWrites
    <2>2. sent' \in Seq(Events)
        BY <1>4, <2>1, RangeAppend DEF ReachesBroker, ETypeOK
    <2>3. QED
        BY <1>1, <1>2, <1>4, <2>1, <2>2 DEF ReachesBroker, ETypeOK
<1>5. ASSUME NEW t \in Topics, NEW u \in Users, Consumes(t, u) PROVE ETypeOK'
    <2>1. inbox' \in [Users -> Seq(Events)] /\ queue' \in [Topics -> [Users -> Seq(Events)]]
        BY <1>5, ConsumerWrites
    <2>2. QED
        BY <1>1, <1>2, <1>5, <2>1 DEF Consumes, ETypeOK
<1>6. QED
    BY <1>3, <1>4, <1>5, EventCases

\* The queues, the inboxes and the history variables keep their types.
THEOREM EventTypeCorrect == ESpec => []ETypeOK
<1>1. EInit /\ TypeOK => ETypeOK
    BY EmptySeq DEF EInit, ETypeOK
<1>2. CallsAllowed /\ ETypeOK /\ [ENext]_allVars => ETypeOK'
    BY EventTypeStep
<1>3. ESpec => []TypeOK
    BY EventsKeepParticipation, TypeCorrect, PTL
<1>4. ESpec => []CallsAllowed
    BY EventsKeepParticipation, CallsAlwaysAllowed, PTL
<1>5. QED
    BY <1>1, <1>2, <1>3, <1>4, PTL DEF ESpec

-----------------------------------------------------------------------------
(* Who is notified, and how often *)

\* Every event under way or handled is for a party who did not make the change.
AllToOtherParty ==
    /\ \A t \in Topics, u \in Users : \A e \in Range(queue[t][u]) : ToOtherParty(u, e.about)
    /\ \A u \in Users : \A e \in Range(inbox[u]) : ToOtherParty(u, e.about)

LEMMA OtherPartyStep ==
    ASSUME ETypeOK, CallsAllowed, AllToOtherParty, [ENext]_allVars
    PROVE  AllToOtherParty'
<1>1. CASE UNCHANGED <<queue, inbox, sent>>
    BY <1>1 DEF AllToOtherParty, ToOtherParty
<1>2. ASSUME NEW r \in Requests, pc[r] = "committed", ReachesBroker(r) PROVE AllToOtherParty'
    <2>1. ASSUME NEW t \in Topics, NEW u \in Users, NEW d \in Range(queue'[t][u])
          PROVE  ToOtherParty(u, d.about)
        <3>1. d \in Range(queue[t][u]) \/ (u = EventOf(r).recipientUserId /\ d = EventOf(r))
            BY <1>2, BrokerRanges
        <3>2. QED
            BY <1>2, <3>1, EventOfCall DEF AllToOtherParty
    <2>2. UNCHANGED inbox
        BY <1>2 DEF ReachesBroker
    <2>3. QED
        BY <2>1, <2>2 DEF AllToOtherParty, ToOtherParty
<1>3. ASSUME NEW t \in Topics, NEW u \in Users, Consumes(t, u) PROVE AllToOtherParty'
    <2>1. ToOtherParty(u, Head(queue[t][u]).about)
        BY <1>3, ConsumerWrites DEF AllToOtherParty
    <2>2. \A v \in Users : \A x \in Topics : Range(queue'[x][v]) \subseteq Range(queue[x][v])
        BY <1>3, ConsumerRanges
    <2>3. \A v \in Users : \A d \in Range(inbox'[v]) :
            d \in Range(inbox[v]) \/ (v = u /\ d = Head(queue[t][u]))
        <3> DEFINE e == Head(queue[t][u])
        <3>1. ASSUME NEW v \in Users
              PROVE  Range(inbox'[v]) = IF v = u /\ e.eventId \notin Handled(u)
                                        THEN Range(inbox[v]) \cup {e} ELSE Range(inbox[v])
            BY <1>3, ConsumerRanges
        <3> HIDE DEF e
        <3>2. \A v \in Users : \A d \in Range(inbox'[v]) : d \in Range(inbox[v]) \/ (v = u /\ d = e)
            BY <3>1
        <3>3. QED
            BY <3>2 DEF e
    <2>4. \A v \in Users : \A d \in Range(inbox'[v]) : ToOtherParty(v, d.about)
        BY <2>1, <2>3 DEF AllToOtherParty
    <2>5. \A x \in Topics, v \in Users : \A d \in Range(queue'[x][v]) : ToOtherParty(v, d.about)
        BY <2>2 DEF AllToOtherParty
    <2>6. QED
        BY <2>4, <2>5 DEF AllToOtherParty, ToOtherParty
<1>4. QED
    BY <1>1, <1>2, <1>3, EventCases

\* Only the two parties of a participation ever hear of it, and one who acted hears nothing,
\* unless he is both organizer and volunteer (the recipients of publishRequested,
\* publishDecided and publishCancelled).
THEOREM OtherPartyNotifiedHolds == ESpec => []OtherPartyNotified
<1>1. EInit => AllToOtherParty
    BY DEF EInit, AllToOtherParty, Range
<1>2. ETypeOK /\ CallsAllowed /\ AllToOtherParty /\ [ENext]_allVars => AllToOtherParty'
    BY OtherPartyStep
<1>3. AllToOtherParty => OtherPartyNotified
    BY DEF AllToOtherParty, OtherPartyNotified, ToOtherParty, Range
<1>4. ESpec => []CallsAllowed
    BY EventsKeepParticipation, CallsAlwaysAllowed, PTL
<1>5. QED
    BY <1>1, <1>2, <1>3, <1>4, EventTypeCorrect, PTL DEF ESpec

-----------------------------------------------------------------------------
(* No commit is forgotten *)

\* A request whose event waits in a partition, has been handled, or reached the broker.
QueuedAre ==
    \A x : x \in Queued <=> \E t \in Topics, u \in Users : \E e \in Range(queue[t][u]) : e.eventId = x

NotifiedAre == \A x : x \in Notified <=> \E u \in Users : \E e \in Range(inbox[u]) : e.eventId = x

LEMMA QueuedMeans == QueuedAre
<1> DEFINE Waiting(t, u) == {queue[t][u][i].eventId : i \in DOMAIN queue[t][u]}
<1>1. \A t, u, x : x \in Waiting(t, u) <=> \E e \in Range(queue[t][u]) : e.eventId = x
    BY DEF Range
<1>2. Queued = UNION {Waiting(t, u) : t \in Topics, u \in Users}
    BY DEF Queued
<1> HIDE DEF Waiting
<1>3. \A x : x \in Queued <=> \E t \in Topics, u \in Users : x \in Waiting(t, u)
    BY <1>2
<1>4. QED
    BY <1>1, <1>3 DEF QueuedAre

LEMMA NotifiedMeans == NotifiedAre
<1>1. \A u, x : x \in Handled(u) <=> \E e \in Range(inbox[u]) : e.eventId = x
    BY DEF Handled, Range
<1>2. \A x : x \in Notified <=> \E u \in Users : x \in Handled(u)
    BY DEF Notified
<1>3. QED
    BY <1>1, <1>2 DEF NotifiedAre

\* What is on its way or handled is what reached the broker.
SentIsTold == SentIds = Queued \cup Notified

\* Where each request stands.
DoneIsCommitted ==
    \A r \in Requests :
        /\ pc[r] = "committed" => r \in done
        /\ pc[r] \in {"new", "open"} => r \notin done

\* The accounts, said of what reached the broker.
Accounts ==
    /\ SentIsTold
    /\ DoneIsCommitted
    /\ SentIds \subseteq done /\ lost \subseteq done
    /\ \A r \in lost : r \notin SentIds /\ pc[r] # "committed"
    /\ \A r \in done : r \in lost \/ r \in SentIds \/ pc[r] = "committed"

\* What the broker has been told grows by the request; what it has and what was handled too.
LEMMA BrokerTells ==
    ASSUME ETypeOK, CallsAllowed, NEW r \in Requests, pc[r] = "committed", ReachesBroker(r)
    PROVE  /\ (Queued \cup Notified)' = (Queued \cup Notified) \cup {r}
           /\ SentIds' = SentIds \cup {r}
<1> DEFINE e == EventOf(r)
           t == TopicOf(call[r].op)
           u == e.recipientUserId
<1>1. e \in Events /\ e.eventId = r /\ t \in Topics /\ u \in Users
    BY EventOfCall
<1>2. \A x \in Topics, v \in Users : Range(queue'[x][v]) =
        IF x = t /\ v = u THEN Range(queue[x][v]) \cup {e} ELSE Range(queue[x][v])
    BY BrokerRanges
<1>3. UNCHANGED inbox /\ sent' = IF e \in Range(sent) THEN sent ELSE Append(sent, e)
    BY DEF ReachesBroker
<1>4. Range(sent') = Range(sent) \cup {e}
    <2>1. sent \in Seq(Events)
        BY DEF ETypeOK
    <2>2. Range(Append(sent, e)) = Range(sent) \cup {e}
        BY <1>1, <2>1, RangeAppend
    <2>3. CASE e \in Range(sent)
        BY <1>3, <2>3
    <2>4. CASE e \notin Range(sent)
        BY <1>3, <2>2, <2>4
    <2>5. QED
        BY <2>3, <2>4
<1> HIDE DEF e, t, u
<1>5. SentIds' = SentIds \cup {r}
    BY <1>1, <1>4 DEF SentIds
<1>6. Notified' = Notified
    BY <1>3 DEF Notified, Handled
<1>7. \A x : x \in Queued' <=> x \in Queued \/ x = r
    <2>1. QueuedAre /\ QueuedAre'
        BY QueuedMeans, PTL
    <2>2. \A x \in Topics, v \in Users : \A d \in Range(queue'[x][v]) : d \in Range(queue[x][v]) \/ d = e
        BY <1>2
    <2>3. \A x \in Topics, v \in Users : Range(queue[x][v]) \subseteq Range(queue'[x][v])
        BY <1>2
    <2>4. e \in Range(queue'[t][u])
        BY <1>1, <1>2
    <2>5. Queued' \subseteq Queued \cup {r}
        BY <1>1, <2>1, <2>2 DEF QueuedAre
    <2>6. Queued \subseteq Queued'
        BY <2>1, <2>3 DEF QueuedAre
    <2>7. r \in Queued'
        BY <1>1, <2>1, <2>4 DEF QueuedAre
    <2>8. QED
        BY <2>5, <2>6, <2>7
<1>8. QED
    BY <1>5, <1>6, <1>7

\* Handling an event moves it from one to the other.
LEMMA ConsumerTells ==
    ASSUME ETypeOK, NEW t \in Topics, NEW u \in Users, Consumes(t, u)
    PROVE  (Queued \cup Notified)' = Queued \cup Notified /\ SentIds' = SentIds
<1> DEFINE e == Head(queue[t][u])
<1>1. e \in Range(queue[t][u])
    BY ConsumerWrites
<1>2. \A v \in Users : Range(inbox'[v]) =
        IF v = u /\ e.eventId \notin Handled(u) THEN Range(inbox[v]) \cup {e} ELSE Range(inbox[v])
    BY ConsumerRanges
<1>3. \A v \in Users, x \in Topics :
        /\ Range(queue'[x][v]) \subseteq Range(queue[x][v])
        /\ Range(queue[x][v]) \subseteq Range(queue'[x][v]) \cup IF x = t /\ v = u THEN {e} ELSE {}
    BY ConsumerRanges
<1> HIDE DEF e
<1>4. QueuedAre /\ QueuedAre'
    BY QueuedMeans, PTL
<1>5. NotifiedAre /\ NotifiedAre'
    BY NotifiedMeans, PTL
<1>6. e.eventId \in Queued
    BY <1>1, <1>4 DEF QueuedAre
<1>7. e.eventId \in Handled(u) => e.eventId \in Notified
    BY DEF Notified
<1>8. Queued' \subseteq Queued
    BY <1>3, <1>4 DEF QueuedAre
<1>9. Queued \subseteq Queued' \cup {e.eventId}
    <2>1. \A x \in Topics, v \in Users : \A d \in Range(queue[x][v]) : d \in Range(queue'[x][v]) \/ d = e
        BY <1>3
    <2>2. QED
        BY <1>4, <2>1 DEF QueuedAre
<1>10. Notified \subseteq Notified'
    <2>1. \A v \in Users : Range(inbox[v]) \subseteq Range(inbox'[v])
        BY <1>2
    <2>2. QED
        BY <1>5, <2>1 DEF NotifiedAre
<1>11. Notified' \subseteq Notified \cup {e.eventId}
    <2>1. \A v \in Users : \A d \in Range(inbox'[v]) : d \in Range(inbox[v]) \/ d = e
        BY <1>2
    <2>2. QED
        BY <1>5, <2>1 DEF NotifiedAre
<1>12. e.eventId \in Notified'
    <2>1. CASE e.eventId \in Handled(u)
        BY <1>7, <1>10, <2>1
    <2>2. CASE e \in Range(inbox'[u])
        BY <1>5, <2>2 DEF NotifiedAre
    <2>3. QED
        BY <1>2, <2>1, <2>2
<1>13. UNCHANGED sent
    BY DEF Consumes
<1>14. SentIds' = SentIds
    BY <1>13 DEF SentIds
<1>15. QED
    BY <1>6, <1>8, <1>9, <1>10, <1>11, <1>12, <1>14

\* What a step says of the accounts, whatever it says of the tables.
LEMMA AccountCases ==
    ASSUME TypeOK, [ENext]_allVars
    PROVE  \/ UNCHANGED <<queue, inbox, sent, done, lost>>
              /\ \A r \in Requests : pc'[r] = pc[r] \/ (pc[r] = "new" /\ pc'[r] = "open")
                                     \/ (pc[r] = "open" /\ pc'[r] = "done")
           \/ \E r \in Requests : /\ UNCHANGED <<queue, inbox, sent, lost>>
                                  /\ done' = done \cup {r}
                                  /\ pc[r] = "open" /\ pc' = [pc EXCEPT ![r] = "committed"]
           \/ \E r \in Requests : /\ pc[r] = "committed" /\ ReachesBroker(r)
                                  /\ pc' = pc \/ pc' = [pc EXCEPT ![r] = "done"]
           \/ \E R \in SUBSET Requests :
                 /\ UNCHANGED <<queue, inbox, sent, done>>
                 /\ \A r \in R : pc[r] \in {"open", "committed"}
                 /\ pc' = [r \in Requests |-> IF r \in R THEN "done" ELSE pc[r]]
                 /\ lost' = lost \cup ({r \in R : pc[r] = "committed"} \ SentIds)
           \/ \E t \in Topics, u \in Users : Consumes(t, u)
<1>1. CASE UNCHANGED allVars
    BY <1>1 DEF allVars
<1>2. CASE TablesOnly
    <2>1. UNCHANGED <<queue, inbox, sent, done, lost>>
        BY <1>2 DEF TablesOnly, eventVars
    <2>2. \A r \in Requests : pc'[r] = pc[r] \/ (pc[r] = "new" /\ pc'[r] = "open")
                              \/ (pc[r] = "open" /\ pc'[r] = "done")
        BY <1>2 DEF TypeOK, TablesOnly, CreateReads, TransitionReads, Open, TransactionFails,
            Finish, SlotUpdate, SlotRemove
    <2>3. QED
        BY <2>1, <2>2
<1>3. ASSUME NEW r \in Requests, Committing(r)
      PROVE  /\ UNCHANGED <<queue, inbox, sent, lost>> /\ done' = done \cup {r}
             /\ pc[r] = "open" /\ pc' = [pc EXCEPT ![r] = "committed"]
    BY <1>3 DEF Committing, CreateCommits, TransitionCommits, Commit
<1>4. ASSUME NEW r \in Requests, Sent(r) \/ SentUnacknowledged(r)
      PROVE  /\ pc[r] = "committed" /\ ReachesBroker(r)
             /\ pc' = pc \/ pc' = [pc EXCEPT ![r] = "done"]
    BY <1>4 DEF TypeOK, Sent, SentUnacknowledged, Publish, Finish, vars
<1>5. ASSUME NEW r \in Requests, SendFails(r)
      PROVE  \E R \in SUBSET Requests :
                 /\ UNCHANGED <<queue, inbox, sent, done>>
                 /\ \A x \in R : pc[x] \in {"open", "committed"}
                 /\ pc' = [x \in Requests |-> IF x \in R THEN "done" ELSE pc[x]]
                 /\ lost' = lost \cup ({x \in R : pc[x] = "committed"} \ SentIds)
    <2>1. pc[r] = "committed" /\ {x \in {r} : pc[x] = "committed"} = {r}
        BY <1>5 DEF SendFails, Publish
    <2>2. QED
        BY <1>5, <2>1 DEF SendFails, Publish, Finish
<1>6. ASSUME Dying
      PROVE  \E R \in SUBSET Requests :
                 /\ UNCHANGED <<queue, inbox, sent, done>>
                 /\ \A x \in R : pc[x] \in {"open", "committed"}
                 /\ pc' = [x \in Requests |-> IF x \in R THEN "done" ELSE pc[x]]
                 /\ lost' = lost \cup ({x \in R : pc[x] = "committed"} \ SentIds)
    <2>1. {x \in Running : pc[x] = "committed"} = {x \in Requests : pc[x] = "committed"}
        BY DEF Running
    <2>2. Running \in SUBSET Requests /\ \A x \in Running : pc[x] \in {"open", "committed"}
        BY DEF Running
    <2>3. /\ pc' = [x \in Requests |-> IF x \in Running THEN "done" ELSE pc[x]]
          /\ lost' = lost \cup ({x \in Requests : pc[x] = "committed"} \ SentIds)
          /\ UNCHANGED <<queue, inbox, sent, done>>
        BY <1>6 DEF Dying, Crash, Finish
    <2> HIDE DEF Running
    <2>4. QED
        BY <2>1, <2>2, <2>3
<1>7. ASSUME NEW t \in Topics, NEW u \in Users,
             (Consume(t, u) \/ ConsumeUncommitted(t, u)) /\ UNCHANGED vars
      PROVE  Consumes(t, u)
    BY <1>7 DEF Consume, ConsumeUncommitted, Consumes, vars
<1>8. QED
    BY <1>1, <1>2, <1>3, <1>4, <1>5, <1>6, <1>7 DEF ENext

LEMMA AccountsStep ==
    ASSUME ETypeOK, CallsAllowed, Accounts, [ENext]_allVars
    PROVE  Accounts'
<1>1. TypeOK /\ done \subseteq Requests /\ lost \subseteq Requests
    BY DEF ETypeOK
<1>2. pc \in [Requests -> {"new", "open", "committed", "done"}]
    BY <1>1 DEF TypeOK
<1> USE DEF Accounts, DoneIsCommitted, SentIsTold
<1>3. ASSUME UNCHANGED <<queue, inbox, sent>>
      PROVE  SentIsTold' /\ SentIds' = SentIds
    <2>1. Queued' = Queued
        BY <1>3 DEF Queued
    <2>2. Notified' = Notified
        BY <1>3 DEF Notified, Handled
    <2>3. SentIds' = SentIds
        BY <1>3 DEF SentIds
    <2>4. QED
        BY <2>1, <2>2, <2>3
<1>4. ASSUME UNCHANGED <<queue, inbox, sent, done, lost>>,
             \A r \in Requests : pc'[r] = pc[r] \/ (pc[r] = "new" /\ pc'[r] = "open")
                                 \/ (pc[r] = "open" /\ pc'[r] = "done")
      PROVE  Accounts'
    BY <1>1, <1>3, <1>4
<1>5. ASSUME NEW r \in Requests, UNCHANGED <<queue, inbox, sent, lost>>,
             done' = done \cup {r}, pc[r] = "open", pc' = [pc EXCEPT ![r] = "committed"]
      PROVE  Accounts'
    BY <1>1, <1>2, <1>3, <1>5
<1>6. ASSUME NEW r \in Requests, pc[r] = "committed", ReachesBroker(r),
             pc' = pc \/ pc' = [pc EXCEPT ![r] = "done"]
      PROVE  Accounts'
    <2>1. SentIsTold' /\ SentIds' = SentIds \cup {r}
        BY <1>6, BrokerTells
    <2>2. UNCHANGED <<done, lost>>
        BY <1>6 DEF ReachesBroker
    <2>3. QED
        BY <1>1, <1>2, <1>6, <2>1, <2>2
<1>7. ASSUME NEW R \in SUBSET Requests, UNCHANGED <<queue, inbox, sent, done>>,
             \A r \in R : pc[r] \in {"open", "committed"},
             pc' = [r \in Requests |-> IF r \in R THEN "done" ELSE pc[r]],
             lost' = lost \cup ({r \in R : pc[r] = "committed"} \ SentIds)
      PROVE  Accounts'
    BY <1>1, <1>2, <1>3, <1>7
<1>8. ASSUME NEW t \in Topics, NEW u \in Users, Consumes(t, u) PROVE Accounts'
    <2>1. SentIsTold' /\ SentIds' = SentIds
        BY <1>8, ConsumerTells
    <2>2. UNCHANGED <<done, lost, pc>>
        BY <1>8 DEF Consumes
    <2>3. QED
        BY <2>1, <2>2
<1>9. QED
    BY <1>1, <1>4, <1>5, <1>6, <1>7, <1>8, AccountCases

\* A commit is announced or known to be lost, and never both, and nothing is announced that
\* did not commit: publish() follows $transaction, its failure is caught, and the event
\* outlives both the retries of the producer and those of the consumer.
THEOREM EveryCommitAccountedHolds == ESpec => []EveryCommitAccounted
<1>1. EInit => Accounts
    BY QueuedMeans, NotifiedMeans DEF QueuedAre, NotifiedAre, EInit, Init, Accounts, SentIsTold, DoneIsCommitted, SentIds,
        Range
<1>2. ETypeOK /\ CallsAllowed /\ Accounts /\ [ENext]_allVars => Accounts'
    BY AccountsStep
<1>3. ETypeOK /\ Accounts => EveryCommitAccounted
    BY DEF ETypeOK, Accounts, SentIsTold, DoneIsCommitted, EveryCommitAccounted
<1>4. ESpec => []CallsAllowed
    BY EventsKeepParticipation, CallsAlwaysAllowed, PTL
<1>5. QED
    BY <1>1, <1>2, <1>3, <1>4, EventTypeCorrect, PTL DEF ESpec

-----------------------------------------------------------------------------
(* The order of a topic *)

\* The events of a topic that a user is to hear of.
Addressed(e, t, u) == TopicOf(e.about.op) = t /\ e.recipientUserId = u

\* What reached the broker is what its request committed, and its eventId says which.
SentAreCommits ==
    /\ \A e \in Range(sent) :
        /\ pc[e.eventId] \in {"committed", "done"}
        /\ pc[e.eventId] = "committed" => e = EventOf(e.eventId)
    /\ \A d, e \in Range(sent) : d.eventId = e.eventId => d = e

\* Each event that reached the broker waits in its partition or has been handled.
SentAreKept ==
    /\ \A t \in Topics, u \in Users : \A e \in Range(queue[t][u]) :
        e \in Range(sent) /\ Addressed(e, t, u)
    /\ \A u \in Users : \A e \in Range(inbox[u]) : e \in Range(sent) /\ e.recipientUserId = u
    /\ \A t \in Topics, u \in Users : \A e \in Range(sent) :
        Addressed(e, t, u) => e \in Range(queue[t][u]) \/ e \in Range(inbox[u])

\* What was sent before an event that waits waits before it, or has been handled, a
\* repetition of the event included.
QueuesInOrder ==
    \A t \in Topics, u \in Users : \A j \in DOMAIN queue[t][u] : \A d \in Range(sent) :
        (Addressed(d, t, u) /\ SentBefore(d, queue[t][u][j]))
            => \/ d \in Range(inbox[u])
               \/ \E i \in DOMAIN queue[t][u] : i < j /\ queue[t][u][i] = d

\* What was sent before an event that has been handled has been handled.
HandledInOrder ==
    \A t \in Topics, u \in Users : \A e \in Range(inbox[u]), d \in Range(sent) :
        (Addressed(d, t, u) /\ Addressed(e, t, u) /\ SentBefore(d, e)) => d \in Range(inbox[u])

OrderInv ==
    SentAreCommits /\ SentAreKept /\ QueuesInOrder /\ HandledInOrder /\ NotifiedInTopicOrder

\* Sending an event again changes nothing of the order; a new one comes last.
LEMMA OrderOfSending ==
    ASSUME NEW e \in Events, sent \in Seq(Events),
           sent' = IF e \in Range(sent) THEN sent ELSE Append(sent, e)
    PROVE  /\ Range(sent') = Range(sent) \cup {e}
           /\ \A c, d : SentBefore(c, d)' => c \in Range(sent) /\ (d \in Range(sent) => SentBefore(c, d))
           /\ \A c, d : SentBefore(c, d) => SentBefore(c, d)'
<1>1. \A c, d : SentBefore(c, d) => c \in Range(sent)
    BY DEF SentBefore, Range
<1>2. CASE e \in Range(sent)
    BY <1>1, <1>2 DEF SentBefore
<1>3. CASE e \notin Range(sent)
    <2>1. /\ Range(sent') = Range(sent) \cup {e}
          /\ DOMAIN sent = 1 .. Len(sent) /\ Len(sent) \in Nat
          /\ DOMAIN sent' = 1 .. (Len(sent) + 1)
          /\ \A i \in 1 .. Len(sent) : sent'[i] = sent[i]
          /\ sent'[Len(sent) + 1] = e
        BY <1>3, RangeAppend, AppendProperties, LenProperties
    <2>2. ASSUME NEW c, NEW d, SentBefore(c, d) PROVE SentBefore(c, d)'
        <3>1. PICK m \in DOMAIN sent, n \in DOMAIN sent : m < n /\ sent[m] = c /\ sent[n] = d
            BY <2>2 DEF SentBefore
        <3>2. m \in DOMAIN sent' /\ n \in DOMAIN sent' /\ sent'[m] = c /\ sent'[n] = d
            BY <2>1, <3>1
        <3> QED
            BY <3>1, <3>2 DEF SentBefore
    <2>3. ASSUME NEW c, NEW d, SentBefore(c, d)'
          PROVE  c \in Range(sent) /\ (d \in Range(sent) => SentBefore(c, d))
        <3>1. PICK m \in DOMAIN sent', n \in DOMAIN sent' : m < n /\ sent'[m] = c /\ sent'[n] = d
            BY <2>3 DEF SentBefore
        <3>2. m \in DOMAIN sent /\ sent[m] = c
            BY <2>1, <3>1
        <3>3. ASSUME d \in Range(sent) PROVE n \in DOMAIN sent /\ sent[n] = d
            <4>1. n # Len(sent) + 1
                BY <1>3, <2>1, <3>1, <3>3
            <4> QED
                BY <2>1, <3>1, <4>1
        <3> QED
            BY <3>1, <3>2, <3>3 DEF SentBefore, Range
    <2> QED
        BY <2>1, <2>2, <2>3
<1> QED
    BY <1>2, <1>3

LEMMA SentInSomeOrder ==
    ASSUME sent \in Seq(Events), NEW c \in Range(sent), NEW d \in Range(sent), c # d
    PROVE  SentBefore(c, d) \/ SentBefore(d, c)
<1>1. DOMAIN sent = 1 .. Len(sent) /\ Len(sent) \in Nat
    BY LenProperties
<1>2. PICK m \in DOMAIN sent, n \in DOMAIN sent : sent[m] = c /\ sent[n] = d
    BY DEF Range
<1>3. m < n \/ n < m
    BY <1>1, <1>2
<1> QED
    BY <1>2, <1>3 DEF SentBefore

\* A request that has committed stays so, with the call it was.
LEMMA CommittedStays ==
    ASSUME TypeOK, [Next]_vars, NEW r \in Requests, pc[r] \in {"committed", "done"}
    PROVE  /\ pc'[r] \in {"committed", "done"}
           /\ pc'[r] = "committed" => pc[r] = "committed" /\ EventOf(r)' = EventOf(r)
<1> USE DEF TypeOK
<1>1. /\ pc'[r] \in {"committed", "done"}
      /\ pc'[r] = "committed" => pc[r] = "committed" /\ call'[r] = call[r]
    <2>1. ASSUME NEW x \in Requests, NEW c \in Calls, Open(x, c)
          PROVE  pc'[r] = pc[r] /\ call'[r] = call[r]
        BY <2>1 DEF Open
    <2>2. ASSUME NEW x \in Requests, CreateCommits(x) \/ TransitionCommits(x)
          PROVE  pc'[r] = pc[r] /\ call'[r] = call[r]
        BY <2>2 DEF CreateCommits, TransitionCommits, Commit
    <2>3. ASSUME NEW R \in SUBSET Requests, Finish(R)
          PROVE  pc'[r] = "done" \/ (pc'[r] = pc[r] /\ call'[r] = call[r])
        BY <2>3 DEF Finish
    <2>4. CASE UNCHANGED vars \/ \E s \in Slots : SlotRemove(s) \/ \E row \in SlotRows : SlotUpdate(s, row)
        BY <2>4 DEF vars, SlotUpdate, SlotRemove
    <2> QED
        BY <2>1, <2>2, <2>3, <2>4
        DEF Next, CreateReads, TransitionReads, TransactionFails, Publish, Crash, Running
<1> QED
    BY <1>1 DEF EventOf, Recipient

LEMMA CommitsStep ==
    ASSUME ETypeOK, CallsAllowed, SentAreCommits, [ENext]_allVars
    PROVE  SentAreCommits'
<1>1. [Next]_vars /\ TypeOK
    BY EventsStepIsTablesStep DEF allVars, vars, ETypeOK
<1>2. \A e \in Range(sent) : e.eventId \in Requests
    <2>1. sent \in Seq(Events)
        BY DEF ETypeOK
    <2>2. \A e \in Range(sent) : e \in Events
        BY <2>1, LenProperties, ElementOfSeq DEF Range
    <2> QED
        BY <2>2 DEF Events
<1>3. ASSUME NEW e \in Range(sent)
      PROVE  /\ pc'[e.eventId] \in {"committed", "done"}
             /\ pc'[e.eventId] = "committed" => e = EventOf(e.eventId)'
    <2>1. \A r \in Requests : pc[r] \in {"committed", "done"} =>
            /\ pc'[r] \in {"committed", "done"}
            /\ pc'[r] = "committed" => pc[r] = "committed" /\ EventOf(r)' = EventOf(r)
        BY <1>1, CommittedStays
    <2>2. e.eventId \in Requests
        BY <1>2
    <2> QED
        BY <2>1, <2>2 DEF SentAreCommits
<1>4. CASE UNCHANGED sent
    BY <1>3, <1>4 DEF SentAreCommits
<1>5. ASSUME NEW r \in Requests, pc[r] = "committed", ReachesBroker(r) PROVE SentAreCommits'
    <2>1. PICK e \in Events : e = EventOf(r) /\ e.eventId = r
        BY <1>5, EventOfCall
    <2>2. Range(sent') = Range(sent) \cup {e}
        BY <1>5, <2>1, OrderOfSending DEF ReachesBroker, ETypeOK
    <2>3. \A d \in Range(sent) : d.eventId = r => d = e
        BY <1>5, <2>1 DEF SentAreCommits
    <2>4. pc'[r] \in {"committed", "done"} /\ (pc'[r] = "committed" => e = EventOf(r)')
        BY <1>1, <1>5, <2>1, CommittedStays
    <2> QED
        BY <1>3, <2>1, <2>2, <2>3, <2>4 DEF SentAreCommits
<1> QED
    BY <1>4, <1>5, EventCases DEF Consumes

\* An event reaches the end of its partition: what was sent before it waits there too, or
\* has been handled.
LEMMA BrokerKeepsOrder ==
    ASSUME ETypeOK, CallsAllowed, OrderInv, SentAreCommits',
           NEW r \in Requests, pc[r] = "committed", ReachesBroker(r)
    PROVE  OrderInv'
<1> USE DEF OrderInv
<1>1. PICK e \in Events : e = EventOf(r)
    BY EventOfCall
<1>2. PICK t \in Topics : t = TopicOf(call[r].op)
    BY EventOfCall
<1>3. PICK u \in Users : u = e.recipientUserId
    BY <1>1, EventOfCall
<1>4. Addressed(e, t, u)
    BY <1>1, <1>2, <1>3, EventOfCall DEF Addressed
<1>5. UNCHANGED inbox
    BY DEF ReachesBroker
<1>6. /\ \A x \in Topics, v \in Users :
            queue'[x][v] = IF x = t /\ v = u THEN Append(queue[x][v], e) ELSE queue[x][v]
      /\ \A x \in Topics, v \in Users :
            Range(queue'[x][v]) = IF x = t /\ v = u THEN Range(queue[x][v]) \cup {e} ELSE Range(queue[x][v])
    <2>1. ASSUME NEW x \in Topics, NEW v \in Users
          PROVE  queue'[x][v] = IF x = t /\ v = u THEN Append(queue[x][v], e) ELSE queue[x][v]
        BY <1>1, <1>2, <1>3, BrokerWrites
    <2>2. ASSUME NEW x \in Topics, NEW v \in Users
          PROVE  Range(queue'[x][v]) =
                    IF x = t /\ v = u THEN Range(queue[x][v]) \cup {e} ELSE Range(queue[x][v])
        BY <1>1, <1>2, <1>3, BrokerRanges
    <2> QED
        BY <2>1, <2>2
<1>7. /\ Range(sent') = Range(sent) \cup {e}
      /\ \A c, d : SentBefore(c, d)' => c \in Range(sent) /\ (d \in Range(sent) => SentBefore(c, d))
      /\ \A c, d : SentBefore(c, d) => SentBefore(c, d)'
    BY <1>1, OrderOfSending DEF ReachesBroker, ETypeOK
<1>8. SentAreKept'
    <2>1. ASSUME NEW x \in Topics, NEW v \in Users, NEW d \in Range(queue'[x][v])
          PROVE  d \in Range(sent') /\ Addressed(d, x, v)
        <3>1. d \in Range(queue[x][v]) \/ (x = t /\ v = u /\ d = e)
            BY <1>6, <2>1
        <3>2. CASE d \in Range(queue[x][v])
            BY <1>7, <3>2 DEF SentAreKept
        <3> QED
            BY <1>4, <1>7, <3>1, <3>2
    <2>2. ASSUME NEW v \in Users, NEW d \in Range(inbox'[v])
          PROVE  d \in Range(sent') /\ d.recipientUserId = v
        BY <1>5, <1>7 DEF SentAreKept
    <2>3. ASSUME NEW x \in Topics, NEW v \in Users, NEW d \in Range(sent'), Addressed(d, x, v)
          PROVE  d \in Range(queue'[x][v]) \/ d \in Range(inbox'[v])
        <3>1. CASE d = e
            <4>1. x = t /\ v = u
                BY <1>4, <2>3, <3>1 DEF Addressed
            <4> QED
                BY <1>6, <3>1, <4>1
        <3>2. CASE d \in Range(sent)
            <4>1. d \in Range(queue[x][v]) \/ d \in Range(inbox[v])
                BY <2>3, <3>2 DEF SentAreKept
            <4>2. Range(queue[x][v]) \subseteq Range(queue'[x][v])
                BY <1>6
            <4> QED
                BY <1>5, <4>1, <4>2
        <3> QED
            BY <1>7, <3>1, <3>2
    <2> QED
        BY <2>1, <2>2, <2>3 DEF SentAreKept, Addressed
<1>9. HandledInOrder'
    <2>1. \A v \in Users : \A d \in Range(inbox[v]) : d \in Range(sent)
        BY DEF SentAreKept
    <2> QED
        BY <1>5, <1>7, <2>1 DEF HandledInOrder
<1>10. NotifiedInTopicOrder'
    BY <1>5, <1>7 DEF NotifiedInTopicOrder
<1>11. QueuesInOrder'
    <2> SUFFICES ASSUME NEW x \in Topics, NEW v \in Users, NEW j \in DOMAIN queue'[x][v],
                        NEW d \in Range(sent'), Addressed(d, x, v),
                        NEW c, c = queue'[x][v][j], SentBefore(d, c)',
                        d \notin Range(inbox[v])
                 PROVE  \E i \in DOMAIN queue'[x][v] : i < j /\ queue'[x][v][i] = d
        BY <1>5 DEF QueuesInOrder, Addressed, SentBefore
    <2> DEFINE q == queue[x][v]
    <2>1. d \in Range(sent)
        BY <1>7
    <2>2. q \in Seq(Events)
        BY DEF ETypeOK
    <2>3. /\ DOMAIN q = 1 .. Len(q) /\ Len(q) \in Nat
          /\ DOMAIN q \subseteq DOMAIN queue'[x][v]
          /\ \A i \in DOMAIN q : queue'[x][v][i] = q[i]
        <3>1. DOMAIN q = 1 .. Len(q) /\ Len(q) \in Nat
            BY <2>2, LenProperties
        <3>2. CASE queue'[x][v] = q
            BY <3>1, <3>2
        <3>3. CASE queue'[x][v] = Append(q, e)
            <4>1. /\ DOMAIN Append(q, e) = 1 .. (Len(q) + 1)
                  /\ \A i \in 1 .. Len(q) : Append(q, e)[i] = q[i]
                BY <2>2, AppendProperties
            <4> QED
                BY <3>1, <3>3, <4>1
        <3> QED
            BY <1>6, <3>1, <3>2, <3>3
    <2>4. CASE j \in DOMAIN q
        <3>1. q[j] \in Range(sent)
            <4>1. q[j] \in Range(q)
                BY <2>4 DEF Range
            <4> QED
                BY <4>1 DEF SentAreKept
        <3>2. c = q[j] /\ SentBefore(d, q[j])
            BY <1>7, <2>3, <2>4, <3>1
        <3>3. PICK i \in DOMAIN q : i < j /\ q[i] = d
            BY <2>1, <2>4, <3>2 DEF QueuesInOrder
        <3> QED
            BY <2>3, <3>3
    <2>5. CASE j \notin DOMAIN q
        <3>1. x = t /\ v = u /\ j = Len(q) + 1
            <4>1. queue'[x][v] # q
                BY <2>5
            <4>2. x = t /\ v = u /\ queue'[x][v] = Append(q, e)
                BY <1>6, <4>1
            <4>3. DOMAIN queue'[x][v] = 1 .. (Len(q) + 1)
                BY <2>2, <4>2, AppendProperties
            <4> QED
                BY <2>3, <2>5, <4>2, <4>3
        <3>2. d \in Range(q)
            BY <2>1 DEF SentAreKept
        <3>3. PICK i \in DOMAIN q : q[i] = d
            BY <3>2 DEF Range
        <3>4. i < j
            BY <2>3, <3>1, <3>3
        <3> QED
            BY <2>3, <3>3, <3>4
    <2> QED
        BY <2>4, <2>5
<1> QED
    BY <1>8, <1>9, <1>10, <1>11

\* The head of a partition is handled: nothing sent before it can be waiting.
LEMMA ConsumerKeepsOrder ==
    ASSUME ETypeOK, OrderInv, SentAreCommits', NEW t \in Topics, NEW u \in Users, Consumes(t, u)
    PROVE  OrderInv'
<1> USE DEF OrderInv
<1>1. PICK e \in Events : e = Head(queue[t][u])
    BY ConsumerWrites
<1>2. /\ \A v \in Users : inbox'[v] =
            IF v = u /\ e.eventId \notin Handled(u) THEN Append(inbox[v], e) ELSE inbox[v]
      /\ \A x \in Topics, v \in Users :
            queue'[x][v] = queue[x][v] \/ (x = t /\ v = u /\ queue'[x][v] = Tail(queue[x][v]))
      /\ e \in Range(queue[t][u])
    BY <1>1, ConsumerWrites
<1>3. e \in Range(sent) /\ Addressed(e, t, u) /\ e.recipientUserId = u
    BY <1>2 DEF SentAreKept, Addressed
<1>4. UNCHANGED sent /\ \A c, d : SentBefore(c, d)' <=> SentBefore(c, d)
    BY DEF Consumes, SentBefore
<1>5. e.eventId \in Handled(u) <=> e \in Range(inbox[u])
    <2>1. \A d \in Range(inbox[u]) : d \in Range(sent)
        BY DEF SentAreKept
    <2>2. \A d \in Range(sent) : d.eventId = e.eventId => d = e
        BY <1>3 DEF SentAreCommits
    <2>3. e.eventId \in Handled(u) <=> \E d \in Range(inbox[u]) : d.eventId = e.eventId
        BY DEF Handled, Range
    <2> QED
        BY <2>1, <2>2, <2>3
<1>6. \A v \in Users : Range(inbox'[v]) = IF v = u THEN Range(inbox[v]) \cup {e} ELSE Range(inbox[v])
    <2>1. \A v \in Users : Range(inbox'[v]) =
            IF v = u /\ e.eventId \notin Handled(u) THEN Range(inbox[v]) \cup {e} ELSE Range(inbox[v])
        BY <1>1, ConsumerRanges
    <2> QED
        BY <1>5, <2>1
<1>7. \A x \in Topics, v \in Users :
        /\ Range(queue'[x][v]) \subseteq Range(queue[x][v])
        /\ Range(queue[x][v]) \subseteq Range(queue'[x][v]) \cup IF x = t /\ v = u THEN {e} ELSE {}
    BY <1>1, ConsumerRanges
<1>8. /\ queue[t][u] \in Seq(Events) /\ queue[t][u] # <<>>
      /\ DOMAIN queue[t][u] = 1 .. Len(queue[t][u]) /\ Len(queue[t][u]) \in Nat \ {0}
      /\ queue[t][u][1] = e
      /\ DOMAIN Tail(queue[t][u]) = 1 .. (Len(queue[t][u]) - 1)
      /\ \A i \in 1 .. (Len(queue[t][u]) - 1) : Tail(queue[t][u])[i] = queue[t][u][i + 1]
    BY <1>1, HeadTailProperties, LenProperties, EmptySeq DEF ETypeOK, Consumes
<1>9. \A d \in Range(sent) : (Addressed(d, t, u) /\ SentBefore(d, e)) => d \in Range(inbox[u])
    <2>1. 1 \in DOMAIN queue[t][u] /\ ~ \E i \in DOMAIN queue[t][u] : i < 1
        BY <1>8
    <2>2. ASSUME NEW d \in Range(sent), Addressed(d, t, u), SentBefore(d, e)
          PROVE  d \in Range(inbox[u])
        <3>1. SentBefore(d, queue[t][u][1])
            BY <1>8, <2>2
        <3> QED
            BY <2>1, <2>2, <3>1 DEF QueuesInOrder
    <2> QED
        BY <2>2
<1>10. SentAreKept'
    <2>1. ASSUME NEW x \in Topics, NEW v \in Users, NEW d \in Range(queue'[x][v])
          PROVE  d \in Range(sent) /\ Addressed(d, x, v)
        <3>1. d \in Range(queue[x][v])
            BY <1>7, <2>1
        <3> QED
            BY <3>1 DEF SentAreKept
    <2>2. ASSUME NEW v \in Users, NEW d \in Range(inbox'[v])
          PROVE  d \in Range(sent) /\ d.recipientUserId = v
        <3>1. d \in Range(inbox[v]) \/ (d = e /\ v = u)
            BY <1>6, <2>2
        <3> QED
            BY <1>3, <3>1 DEF SentAreKept
    <2>3. ASSUME NEW x \in Topics, NEW v \in Users, NEW d \in Range(sent), Addressed(d, x, v)
          PROVE  d \in Range(queue'[x][v]) \/ d \in Range(inbox'[v])
        <3>1. d \in Range(queue[x][v]) \/ d \in Range(inbox[v])
            BY <2>3 DEF SentAreKept
        <3>2. CASE d \in Range(inbox[v])
            BY <1>6, <3>2
        <3>3. CASE d \in Range(queue[x][v])
            <4>1. d \in Range(queue'[x][v]) \/ (v = u /\ d = e)
                BY <1>7, <3>3
            <4> QED
                BY <1>6, <4>1
        <3> QED
            BY <3>1, <3>2, <3>3
    <2> QED
        BY <1>4, <2>1, <2>2, <2>3 DEF SentAreKept, Addressed
<1>11. HandledInOrder'
    <2> SUFFICES ASSUME NEW x \in Topics, NEW v \in Users, NEW c \in Range(inbox'[v]),
                        NEW d \in Range(sent), Addressed(d, x, v), Addressed(c, x, v), SentBefore(d, c)
                 PROVE  d \in Range(inbox'[v])
        BY <1>4 DEF HandledInOrder
    <2>1. CASE c \in Range(inbox[v])
        BY <1>6, <2>1 DEF HandledInOrder
    <2>2. CASE c = e /\ v = u
        <3>1. x = t
            BY <1>3, <2>2 DEF Addressed
        <3> QED
            BY <1>6, <1>9, <2>2, <3>1
    <2> QED
        BY <1>6, <2>1, <2>2
<1>12. QueuesInOrder'
    <2> SUFFICES ASSUME NEW x \in Topics, NEW v \in Users, NEW j \in DOMAIN queue'[x][v],
                        NEW d \in Range(sent), Addressed(d, x, v),
                        SentBefore(d, queue'[x][v][j]),
                        d \notin Range(inbox'[v])
                 PROVE  \E i \in DOMAIN queue'[x][v] : i < j /\ queue'[x][v][i] = d
        BY <1>4 DEF QueuesInOrder
    <2>1. d \notin Range(inbox[v]) /\ ~(v = u /\ d = e)
        BY <1>6
    <2>2. CASE queue'[x][v] = queue[x][v]
        BY <2>1, <2>2 DEF QueuesInOrder
    <2>3. CASE x = t /\ v = u /\ queue'[x][v] = Tail(queue[x][v])
        <3> DEFINE q == queue[t][u]
        <3>1. /\ j \in 1 .. (Len(q) - 1) /\ j + 1 \in DOMAIN q /\ queue'[x][v][j] = q[j + 1]
            BY <1>8, <2>3
        <3>2. PICK i \in DOMAIN q : i < j + 1 /\ q[i] = d
            BY <2>1, <2>3, <3>1 DEF QueuesInOrder
        <3>3. i # 1
            BY <1>8, <2>1, <2>3, <3>2
        <3>4. /\ i - 1 \in 1 .. (Len(q) - 1) /\ (i - 1) + 1 = i /\ i - 1 < j
            BY <1>8, <3>1, <3>2, <3>3
        <3>5. i - 1 \in DOMAIN queue'[x][v] /\ queue'[x][v][i - 1] = d
            BY <1>8, <2>3, <3>2, <3>4
        <3> QED
            BY <3>4, <3>5
    <2> QED
        BY <1>2, <2>2, <2>3
<1>13. NotifiedInTopicOrder'
    <2> SUFFICES ASSUME NEW v \in Users, NEW i \in DOMAIN inbox'[v], NEW j \in DOMAIN inbox'[v], i < j,
                        TopicOf(inbox'[v][i].about.op) = TopicOf(inbox'[v][j].about.op)
                 PROVE  SentBefore(inbox'[v][i], inbox'[v][j])
        BY <1>4 DEF NotifiedInTopicOrder
    <2> DEFINE q == inbox[v]
    <2>1. CASE inbox'[v] = q
        BY <2>1 DEF NotifiedInTopicOrder
    <2>2. CASE v = u /\ e.eventId \notin Handled(u) /\ inbox'[v] = Append(q, e)
        <3>1. q \in Seq(Events)
            BY DEF ETypeOK
        <3>2. /\ DOMAIN q = 1 .. Len(q) /\ Len(q) \in Nat
              /\ DOMAIN inbox'[v] = 1 .. (Len(q) + 1)
              /\ \A k \in 1 .. Len(q) : inbox'[v][k] = q[k]
              /\ inbox'[v][Len(q) + 1] = e
            BY <2>2, <3>1, AppendProperties, LenProperties
        <3>3. i \in DOMAIN q /\ inbox'[v][i] = q[i]
            BY <3>2
        <3>4. CASE j \in DOMAIN q
            BY <3>2, <3>3, <3>4 DEF NotifiedInTopicOrder
        <3>5. CASE j = Len(q) + 1
            <4> DEFINE d == q[i]
            <4>1. d \in Range(inbox[u]) /\ inbox'[v][j] = e
                BY <2>2, <3>2, <3>3, <3>5 DEF Range
            <4>2. d \in Range(sent) /\ d.recipientUserId = u
                BY <4>1 DEF SentAreKept
            <4>3. Addressed(d, t, u)
                BY <1>3, <3>3, <4>1, <4>2 DEF Addressed
            <4>4. e \notin Range(inbox[u])
                BY <1>5, <2>2
            <4>5. ~SentBefore(e, d)
                BY <1>3, <4>1, <4>3, <4>4 DEF HandledInOrder
            <4>6. sent \in Seq(Events)
                BY DEF ETypeOK
            <4>7. SentBefore(d, e)
                BY <1>3, <4>1, <4>2, <4>4, <4>5, <4>6, SentInSomeOrder
            <4> QED
                BY <3>3, <4>1, <4>7
        <3> QED
            BY <3>2, <3>4, <3>5
    <2> QED
        BY <1>2, <2>1, <2>2
<1> QED
    BY <1>10, <1>11, <1>12, <1>13

LEMMA OrderStep ==
    ASSUME ETypeOK, CallsAllowed, OrderInv, [ENext]_allVars
    PROVE  OrderInv'
<1>1. SentAreCommits'
    BY CommitsStep DEF OrderInv
<1>2. CASE UNCHANGED <<queue, inbox, sent>>
    BY <1>1, <1>2 DEF OrderInv, SentAreKept, QueuesInOrder, HandledInOrder, NotifiedInTopicOrder, SentBefore
<1> QED
    BY <1>1, <1>2, EventCases, BrokerKeepsOrder, ConsumerKeepsOrder

\* A user hears of two requests, of two decisions or of two cancellations in the order in
\* which they reached the broker (the key of kafka.topics.ts), whatever is sent or handled
\* again, for any number of requests.
THEOREM NotifiedInTopicOrderHolds == ESpec => []NotifiedInTopicOrder
<1>1. EInit => OrderInv
    BY DEF EInit, OrderInv, SentAreCommits, SentAreKept, QueuesInOrder, HandledInOrder,
        NotifiedInTopicOrder, Range
<1>2. ETypeOK /\ CallsAllowed /\ OrderInv /\ [ENext]_allVars => OrderInv'
    BY OrderStep
<1>3. OrderInv => NotifiedInTopicOrder
    BY DEF OrderInv
<1>4. ESpec => []CallsAllowed
    BY EventsKeepParticipation, CallsAlwaysAllowed, PTL
<1> QED
    BY <1>1, <1>2, <1>3, <1>4, EventTypeCorrect, PTL DEF ESpec

=============================================================================
