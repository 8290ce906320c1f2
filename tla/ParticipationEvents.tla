------------------------- MODULE ParticipationEvents -------------------------
(***************************************************************************)
(* The notifications that follow participations: once a request has        *)
(* committed, the gateway sends one event to Kafka, keyed by the user to   *)
(* notify, and the notification service consumes the three topics, each    *)
(* at its own pace.  Delivery is at least once on both sides of the        *)
(* broker; a send that fails is only logged; a gateway that dies between   *)
(* COMMIT and the send loses the event.                                    *)
(*                                                                         *)
(* What a call does before its COMMIT is Participation's; here a commit    *)
(* matters by what it asks to be announced.                                *)
(***************************************************************************)
EXTENDS Participation, SequencesExt

VARIABLES
    queue,    \* what each topic still holds for each key, oldest first
    inbox,    \* what the notification service has handled for each user, in order
    sent,     \* the events that reached the broker, in the order of their first arrival
    done,     \* the requests that committed
    lost      \* those of them whose event never reached the broker

eventVars == <<queue, inbox, sent, done, lost>>

allVars == <<participation, slot, pc, call, snap, queue, inbox, sent, done, lost>>

Topics == {"requested", "decided", "cancelled"}

TopicOf(op) ==
    CASE op = "JOIN" -> "requested"
      [] op \in {"ACCEPT", "REJECT"} -> "decided"
      [] op = "CANCEL" -> "cancelled"

\* Variant: a cancellation is sent to the party who made it.
RecipientSwapped(c) ==
    CASE c.op = "JOIN" -> OrganizerOf[c.slot]
      [] c.op \in {"ACCEPT", "REJECT"} -> c.user
      [] c.op = "CANCEL" -> IF c.actor = c.user THEN c.user ELSE OrganizerOf[c.slot]

\* The organizer hears of requests, the volunteer of decisions, and of a cancellation
\* whoever did not make it.
Recipient(c) ==
    CASE c.op = "JOIN" -> OrganizerOf[c.slot]
      [] c.op \in {"ACCEPT", "REJECT"} -> c.user
      [] c.op = "CANCEL" -> IF c.actor = c.user THEN OrganizerOf[c.slot] ELSE c.user

\* The payload: eventId stands for the request, unique per message.
EventOf(r) == [eventId |-> r, about |-> call[r], recipientUserId |-> Recipient(call[r])]

Events == [eventId : Requests, about : Calls, recipientUserId : Users]

-----------------------------------------------------------------------------
(* The gateway's side *)

\* A commit, of whatever operation.
Committing(r) ==
    /\ CreateCommits(r) \/ TransitionCommits(r)
    /\ done' = done \cup {r}
    /\ UNCHANGED <<queue, inbox, sent, lost>>

\* Variant: no key, the partition read last serves the newest event first.
ReachesBrokerUnkeyed(r) ==
    LET e == EventOf(r)
        t == TopicOf(call[r].op)
    IN  /\ queue' = [queue EXCEPT ![t][e.recipientUserId] = <<e>> \o @]
        /\ sent' = IF e \in Range(sent) THEN sent ELSE Append(sent, e)
        /\ UNCHANGED <<inbox, done, lost>>

\* The broker appends the event to the partition of its key, in its topic.
ReachesBroker(r) ==
    LET e == EventOf(r)
        t == TopicOf(call[r].op)
    IN  /\ queue' = [queue EXCEPT ![t][e.recipientUserId] = Append(@, e)]
        /\ sent' = IF e \in Range(sent) THEN sent ELSE Append(sent, e)
        /\ UNCHANGED <<inbox, done, lost>>

\* producer.send resolves.
Sent(r) == Publish(r) /\ ReachesBroker(r)

SentIds == {e.eventId : e \in Range(sent)}

\* The acknowledgement is lost and the producer will retry (once: bounds the model).
SentUnacknowledged(r) ==
    /\ pc[r] = "committed"
    /\ r \notin SentIds
    /\ ReachesBroker(r)
    /\ UNCHANGED vars

\* Variant: the failure is not told apart from a success.
SendFailsUnnoticed(r) ==
    /\ Publish(r)
    /\ UNCHANGED eventVars

\* producer.send rejects; publish() logs it and returns.
SendFails(r) ==
    /\ Publish(r)
    /\ lost' = lost \cup ({r} \ SentIds)
    /\ UNCHANGED <<queue, inbox, sent, done>>

\* The gateway dies with events still to send.
Dying ==
    /\ Crash
    /\ lost' = lost \cup ({r \in Requests : pc[r] = "committed"} \ SentIds)
    /\ UNCHANGED <<queue, inbox, sent, done>>

\* Everything that concerns the tables alone.
TablesOnly ==
    /\ \/ \E r \in Requests :
            \/ \E c \in Calls : CreateReads(r, c) \/ TransitionReads(r, c)
            \/ TransactionFails(r)
       \/ \E s \in Slots :
            \/ \E row \in SlotRows : SlotUpdate(s, row)
            \/ SlotRemove(s)
    /\ UNCHANGED eventVars

-----------------------------------------------------------------------------
(* The notification service's side, from what the contract says of it *)

Handled(u) == {inbox[u][i].eventId : i \in DOMAIN inbox[u]}

\* An event already handled is ignored, by its eventId.
Handle(u, e) ==
    inbox' = IF e.eventId \in Handled(u) THEN inbox
             ELSE [inbox EXCEPT ![u] = Append(@, e)]

\* Variant: the offset is committed before the event is handled.
ConsumeThenHandle(t, u) ==
    /\ queue[t][u] # <<>>
    /\ \/ Handle(u, Head(queue[t][u]))
       \/ UNCHANGED inbox
    /\ queue' = [queue EXCEPT ![t][u] = Tail(@)]
    /\ UNCHANGED <<sent, done, lost>>

\* The event at the head is handled, and the offset committed.
Consume(t, u) ==
    /\ queue[t][u] # <<>>
    /\ Handle(u, Head(queue[t][u]))
    /\ queue' = [queue EXCEPT ![t][u] = Tail(@)]
    /\ UNCHANGED <<sent, done, lost>>

\* The event is handled and the consumer dies before it commits the offset.
ConsumeUncommitted(t, u) ==
    /\ queue[t][u] # <<>>
    /\ Handle(u, Head(queue[t][u]))
    /\ UNCHANGED <<queue, sent, done, lost>>

-----------------------------------------------------------------------------
(* Specification *)

EInit ==
    /\ Init
    /\ queue = [t \in Topics |-> [u \in Users |-> <<>>]]
    /\ inbox = [u \in Users |-> <<>>]
    /\ sent = <<>>
    /\ done = {}
    /\ lost = {}

ENext ==
    \/ TablesOnly
    \/ \E r \in Requests : Committing(r) \/ Sent(r) \/ SentUnacknowledged(r) \/ SendFails(r)
    \/ Dying
    \/ \E t \in Topics, u \in Users :
        (Consume(t, u) \/ ConsumeUncommitted(t, u)) /\ UNCHANGED vars

ESpec == EInit /\ [][ENext]_allVars

\* The gateway's event loop runs what awaits a settled promise; the consumer keeps
\* polling.  Nothing obliges a user to call, a send to succeed or a process to die.
Fairness ==
    /\ \A r \in Requests :
        /\ WF_allVars(Sent(r) \/ SendFails(r))
        /\ WF_allVars((TransactionFails(r) /\ UNCHANGED eventVars) \/ Committing(r))
    /\ \A t \in Topics, u \in Users : WF_allVars(Consume(t, u) /\ UNCHANGED vars)

FairESpec == ESpec /\ Fairness

-----------------------------------------------------------------------------
(* Properties *)

ETypeOK ==
    /\ TypeOK
    /\ queue \in [Topics -> [Users -> Seq(Events)]]
    /\ inbox \in [Users -> Seq(Events)]
    /\ sent \in Seq(Events)
    /\ done \subseteq Requests
    /\ lost \subseteq Requests

Queued == UNION {{queue[t][u][i].eventId : i \in DOMAIN queue[t][u]} :
                    t \in Topics, u \in Users}

Notified == UNION {Handled(u) : u \in Users}

\* A commit is announced or known to be lost, and never both: each request that committed
\* still has its event to send, or has lost it, or it is on its way or handled; and nothing
\* is announced that did not commit (publish is called after $transaction).
EveryCommitAccounted ==
    LET told == Queued \cup Notified
        toSend == {r \in Requests : pc[r] = "committed"}
    IN  /\ done = (toSend \ told) \cup lost \cup told
        /\ lost \cap (toSend \cup told) = {}

\* "The other party is notified": only the two parties of a participation ever hear of it,
\* and one who acted hears nothing, unless he is both organizer and volunteer.
OtherPartyNotified ==
    \A u \in Users : \A i \in DOMAIN inbox[u] :
        LET c == inbox[u][i].about IN
        /\ u \in {c.user, OrganizerOf[c.slot]}
        /\ c.actor = u => c.user = OrganizerOf[c.slot]

\* Every committed change ends up in its recipient's notifications, unless its event was
\* lost before the broker had it.
CommitsAreNotified ==
    \A r \in Requests : (pc[r] = "committed") ~> (r \in Notified \cup lost)

\* The first sending of one event precedes that of the other.
SentBefore(d, e) == \E m, n \in DOMAIN sent : m < n /\ sent[m] = d /\ sent[n] = e

\* What the key does give: a user hears of two requests, of two decisions or of two
\* cancellations in the order in which they reached the broker, repetitions included.
NotifiedInTopicOrder ==
    \A u \in Users : \A i, j \in DOMAIN inbox[u] :
        (i < j /\ TopicOf(inbox[u][i].about.op) = TopicOf(inbox[u][j].about.op))
            => SentBefore(inbox[u][i], inbox[u][j])
=============================================================================
