------------------------------- MODULE EventChat -------------------------------
(***************************************************************************)
(* The discussion of an event as one tab sees it: the STOMP client of      *)
(* useEventChat, the socket the gateway relays without reading it, and     *)
(* ms-chat at the other end, which is external and modelled as the hook    *)
(* expects it: it handles a session's frames in order, subscribes members  *)
(* only, answers the history with the latest messages and broadcasts what  *)
(* it stores.  Frames to the tab may arrive in any order: merge() sorts.   *)
(*                                                                         *)
(* A socket may be dead long before its client notices (heartbeats are 10  *)
(* seconds apart), so what the server holds of the connection is a         *)
(* variable of its own.  Texts, times and the throttle of the typing       *)
(* signal, which only others see, are left out.                            *)
(***************************************************************************)
EXTENDS Naturals, Sequences, FiniteSets

CONSTANTS
    Me,
    Users,
    HistorySize,  \* the latest messages ms-chat answers with (50)
    MaxMessages,  \* messages of the room (bounds the model)
    Drafts        \* what Me may send, each once (bounds the model)

ASSUME MeAssumption == Me \in Users
ASSUME SizesAssumption == HistorySize \in Nat \ {0} /\ MaxMessages \in Nat
ASSUME DraftsAssumption == Drafts \cap {"SUBSCRIBE_room", "SUBSCRIBE_history"} = {}

VARIABLES
    link,     \* the client: "waiting" to (re)connect, "connecting", "connected", "stopped"
    session,  \* what the server holds of its connection: "none", "connected", "subscribed"
    up,       \* frames on their way to the server
    down,     \* frames on their way to the tab
    member,   \* whether Me is a member, as the gateway's findMembers answers
    room,     \* the authors of the stored messages, in the order of sentAt
    out,      \* what became of each draft
    shown,    \* the messages on the screen: merge() keeps one of each, in room order
    typing,   \* typingUserIds
    timers    \* the users with a pending typing timer

chat == <<shown, typing, timers>>

server == <<member, room>>

vars == <<link, session, up, down, member, room, out, shown, typing, timers>>

-----------------------------------------------------------------------------
(* Frames *)

Messages == 1 .. MaxMessages

Message(i) == [kind |-> "message", id |-> i]

History == {i \in 1 .. Len(room) : i > Len(room) - HistorySize}

DownFrames ==
    [kind : {"message"}, id : Messages] \cup [kind : {"history"}, ids : SUBSET Messages]
        \cup [kind : {"typing"}, user : Users] \cup [kind : {"error"}, reason : {"member", "later"}]

UpFrames == {"SUBSCRIBE_room", "SUBSCRIBE_history"} \cup Drafts

Subscribes(frame) == frame \notin Drafts

ChatTypeOK ==
    /\ link \in {"waiting", "connecting", "connected", "stopped"}
    /\ session \in {"none", "connected", "subscribed"}
    /\ up \in Seq(UpFrames)
    /\ down \subseteq DownFrames
    /\ member \in BOOLEAN
    /\ room \in Seq(Users) /\ Len(room) <= MaxMessages
    /\ out \in [Drafts -> {"unsent", "sent", "stored", "rejected"}]
    /\ shown \subseteq 1 .. Len(room)
    /\ typing \subseteq Users
    /\ timers \subseteq Users

\* The connection is lost with whatever was on it.
Cut == session' = "none" /\ up' = <<>> /\ down' = {}

-----------------------------------------------------------------------------
(* The client's connection *)

\* beforeConnect: the token, refreshed if it is about to expire.
Attempts ==
    /\ link = "waiting"
    /\ link' = "connecting"
    /\ UNCHANGED <<session, up, down, server, out, chat>>

\* refreshAccessToken rejects; the page is left for the sign-in page.
RefreshFails ==
    /\ link = "waiting"
    /\ link' = "stopped"
    /\ UNCHANGED <<session, up, down, server, out, chat>>

\* ms-chat out of reach, or a token it refuses: the client tries again after its delay.
ConnectFails ==
    /\ link = "connecting"
    /\ link' = "waiting"
    /\ UNCHANGED <<session, up, down, server, out, chat>>

\* Variant: the history first.
OnConnectHistoryFirst ==
    /\ link = "connecting"
    /\ link' = "connected"
    /\ session' = "connected"
    /\ up' = <<"SUBSCRIBE_history", "SUBSCRIBE_room">>
    /\ UNCHANGED <<down, server, out, chat>>

\* onConnect: live messages (and typing signals) first, then the history.
OnConnect ==
    /\ link = "connecting"
    /\ link' = "connected"
    /\ session' = "connected"
    /\ up' = <<"SUBSCRIBE_room", "SUBSCRIBE_history">>
    /\ UNCHANGED <<down, server, out, chat>>

\* The network or ms-chat goes, or the token expires: the server's end is closed first.
Dies ==
    /\ session # "none"
    /\ Cut
    /\ UNCHANGED <<link, server, out, chat>>

\* Variant: the label of the screen instead of the client's state.
OnWebSocketCloseOffline ==
    /\ link = "connected"
    /\ session = "none"
    /\ link' = "offline"
    /\ Cut
    /\ UNCHANGED <<server, out, chat>>

\* onWebSocketClose: the client notices and will reconnect on its own.
OnWebSocketClose ==
    /\ link = "connected"
    /\ session = "none"
    /\ link' = "waiting"
    /\ Cut
    /\ UNCHANGED <<server, out, chat>>

\* The tab of the discussion is closed and opened again: its component starts afresh.
Reopens ==
    /\ link' = "waiting"
    /\ Cut
    /\ shown' = {}
    /\ typing' = {}
    /\ timers' = {}
    /\ UNCHANGED <<server, out>>

-----------------------------------------------------------------------------
(* The server's end *)

Broadcast(frame) == IF session = "subscribed" THEN {frame} ELSE {}

Stores(author) ==
    /\ Len(room) < MaxMessages
    /\ room' = Append(room, author)
    /\ down' = down \cup Broadcast(Message(Len(room) + 1))

ServerSubscribes ==
    /\ up # <<>> /\ Head(up) = "SUBSCRIBE_room"
    /\ member
    /\ session' = "subscribed"
    /\ up' = Tail(up)
    /\ UNCHANGED <<link, down, server, out, chat>>

ServerSendsHistory ==
    /\ up # <<>> /\ Head(up) = "SUBSCRIBE_history"
    /\ member
    /\ down' = down \cup {[kind |-> "history", ids |-> History]}
    /\ up' = Tail(up)
    /\ UNCHANGED <<link, session, server, out, chat>>

\* An ERROR frame closes the session: not a member, or the gateway could not be asked.
ServerRefuses ==
    /\ up # <<>> /\ Subscribes(Head(up))
    /\ session' = "none"
    /\ up' = <<>>
    /\ down' = down \cup {[kind |-> "error", reason |-> IF member THEN "later" ELSE "member"]}
    /\ UNCHANGED <<link, server, out, chat>>

ServerStores ==
    /\ up # <<>> /\ Head(up) \in Drafts
    /\ Stores(Me)
    /\ out' = [out EXCEPT ![Head(up)] = "stored"]
    /\ up' = Tail(up)
    /\ UNCHANGED <<link, session, member, chat>>

\* /user/queue/errors: the sender is told why.
ServerRejects ==
    /\ up # <<>> /\ Head(up) \in Drafts
    /\ out' = [out EXCEPT ![Head(up)] = "rejected"]
    /\ up' = Tail(up)
    /\ UNCHANGED <<link, session, down, server, chat>>

OthersPost(u) ==
    /\ u # Me
    /\ Stores(u)
    /\ UNCHANGED <<link, session, up, member, out, chat>>

\* Anyone, Me included: the server relays the signal to the whole room.
Signals(u) ==
    /\ session = "subscribed"
    /\ down' = down \cup {[kind |-> "typing", user |-> u]}
    /\ UNCHANGED <<link, session, up, server, out, chat>>

MembershipChanges ==
    /\ member' = ~member
    /\ UNCHANGED <<link, session, up, down, room, out, chat>>

-----------------------------------------------------------------------------
(* Frames the tab receives *)

Receives(frame) ==
    /\ link = "connected"
    /\ frame \in down
    /\ down' = down \ {frame}

\* One of each message, by id, in the order of sentAt.
Merge(ids) == shown' = shown \cup ids

\* Variant: the name goes when the timer fires, and only then.
OnMessageTimersOnly(i) ==
    /\ Receives(Message(i))
    /\ Merge({i})
    /\ timers' = timers \ {room[i]}
    /\ UNCHANGED <<link, session, up, server, out, typing>>

\* Variant: one's own messages are left to the next history.
OnMessageOfOthers(i) ==
    /\ Receives(Message(i))
    /\ shown' = IF room[i] = Me THEN shown ELSE shown \cup {i}
    /\ timers' = timers \ {room[i]}
    /\ typing' = typing \ {room[i]}
    /\ UNCHANGED <<link, session, up, server, out>>

\* Merged, and its author is no longer typing.
OnMessage(i) ==
    /\ Receives(Message(i))
    /\ Merge({i})
    /\ timers' = timers \ {room[i]}
    /\ typing' = typing \ {room[i]}
    /\ UNCHANGED <<link, session, up, server, out>>

\* Variant: the history replaces what is shown.
OnHistoryReplaces(ids) ==
    /\ Receives([kind |-> "history", ids |-> ids])
    /\ shown' = ids
    /\ UNCHANGED <<link, session, up, server, out, typing, timers>>

OnHistory(ids) ==
    /\ Receives([kind |-> "history", ids |-> ids])
    /\ Merge(ids)
    /\ UNCHANGED <<link, session, up, server, out, typing, timers>>

OnTyping(u) ==
    /\ Receives([kind |-> "typing", user |-> u])
    /\ timers' = timers \cup {u}
    /\ typing' = typing \cup {u}
    /\ UNCHANGED <<link, session, up, server, out, shown>>

\* onStompError: not a member, the client stops; otherwise it waits for the close.
OnStompError(reason) ==
    /\ link = "connected"
    /\ [kind |-> "error", reason |-> reason] \in down
    /\ link' = IF reason = "member" THEN "stopped" ELSE link
    /\ Cut
    /\ UNCHANGED <<server, out, chat>>

\* stopTyping, 4 seconds after the last signal.
TimerFires(u) ==
    /\ u \in timers
    /\ timers' = timers \ {u}
    /\ typing' = typing \ {u}
    /\ UNCHANGED <<link, session, up, down, server, out, shown>>

CanSend(d) == link = "connected" /\ out[d] = "unsent"

\* send: what is published on a socket that is already dead goes nowhere.
Sends(d) ==
    /\ CanSend(d)
    /\ out' = [out EXCEPT ![d] = "sent"]
    /\ up' = IF session = "none" THEN up ELSE Append(up, d)
    /\ UNCHANGED <<link, session, down, server, chat>>

-----------------------------------------------------------------------------
(* Specification *)

Init ==
    /\ link = "waiting"
    /\ session = "none"
    /\ up = <<>>
    /\ down = {}
    /\ member \in BOOLEAN
    /\ room \in UNION {[1 .. n -> Users] : n \in 0 .. MaxMessages}
    /\ out = [d \in Drafts |-> "unsent"]
    /\ shown = {}
    /\ typing = {}
    /\ timers = {}

ServerHandles ==
    ServerSubscribes \/ ServerSendsHistory \/ ServerRefuses \/ ServerStores \/ ServerRejects

Handles(frame) ==
    CASE frame.kind = "message" -> OnMessage(frame.id)
      [] frame.kind = "history" -> OnHistory(frame.ids)
      [] frame.kind = "typing"  -> OnTyping(frame.user)
      [] frame.kind = "error"   -> OnStompError(frame.reason)

Next ==
    \/ Attempts \/ RefreshFails \/ ConnectFails \/ OnConnect
    \/ Dies \/ OnWebSocketClose \/ Reopens
    \/ ServerSubscribes \/ ServerSendsHistory \/ ServerRefuses
    \/ ServerStores \/ ServerRejects
    \/ MembershipChanges
    \/ \E u \in Users : OthersPost(u) \/ Signals(u) \/ TimerFires(u)
    \/ \E frame \in down : Handles(frame)
    \/ \E d \in Drafts : Sends(d)

Spec == Init /\ [][Next]_vars

\* Frames are handled and timers fire; the user and the network owe nothing.
Fairness ==
    /\ WF_vars(ServerHandles)
    /\ \A frame \in DownFrames : WF_vars(frame \in down /\ Handles(frame))
    /\ \A u \in Users : WF_vars(TimerFires(u))

FairSpec == Spec /\ Fairness

-----------------------------------------------------------------------------
(* Properties *)

\* "Subscribes to the room, then asks for the history": once both are answered and nothing
\* is on its way, the tab shows the latest messages of the room without a gap, those posted
\* while it was offline or between the two subscriptions included.
CaughtUp ==
    (session = "subscribed" /\ down = {} /\ \A i \in 1 .. Len(up) : ~Subscribes(up[i]))
        => History \subseteq shown

\* What was shown stays: no answer, however late, takes a message off the screen, and a
\* reconnection keeps the messages the history no longer reaches.
ShownStays == [][shown \subseteq shown' \/ Reopens]_vars

\* Someone shown as typing has a timer to end it, whatever message, signal or reconnection
\* came between: nobody is typing for ever.
TypingEnds == typing = timers

\* If the connection holds, each of the latest messages is shown in the end.
StoredIsSeen ==
    <>[](session = "subscribed") =>
        \A i \in Messages : []((i \in History) => <>(i \in shown \/ i \notin History))
=============================================================================
