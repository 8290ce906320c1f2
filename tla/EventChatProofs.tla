---------------------------- MODULE EventChatProofs ----------------------------
(***************************************************************************)
(* Theorems about EventChat, for any users, drafts and size of the         *)
(* history: its state is well formed, the screen has no gap once caught    *)
(* up, nothing shown is taken away and typing signals always have a timer. *)
(***************************************************************************)
EXTENDS EventChat, TLAPS

-----------------------------------------------------------------------------
(* The inductive invariant *)

\* What is on its way to the tab names stored messages.
FramesNameStored ==
    \A f \in down :
        /\ f.kind = "message" => f.id \in 1 .. Len(room)
        /\ f.kind = "history" => f.ids \subseteq 1 .. Len(room)

\* "Subscribes to the room, then asks for the history": whatever is sent next is behind.
InOrder(q) ==
    \A k \in 1 .. Len(q) :
        q[k] = "SUBSCRIBE_room" => k = 1 /\ Len(q) >= 2 /\ q[2] = "SUBSCRIBE_history"

\* The history is still to be answered.
Asks(q) == \E k \in 1 .. Len(q) : q[k] = "SUBSCRIBE_history"

Coming(i) == \E f \in down : f = Message(i) \/ (f.kind = "history" /\ i \in f.ids)

\* Once subscribed, and the history sent, the latest messages are shown or on their way.
Covered ==
    session = "subscribed" /\ ~Asks(up) => \A i \in History : i \in shown \/ Coming(i)

ChatInv == ChatTypeOK /\ FramesNameStored /\ TypingEnds /\ InOrder(up) /\ Covered

-----------------------------------------------------------------------------
(* Queues and frames *)

LEMMA FrameKinds ==
    ASSUME NEW f \in DownFrames
    PROVE  /\ f.kind \in {"message", "history", "typing", "error"}
           /\ f.kind = "message" => f = Message(f.id) /\ f.id \in Messages
           /\ f.kind = "history" => f = [kind |-> "history", ids |-> f.ids] /\ f.ids \in SUBSET Messages
           /\ f.kind = "typing" => f = [kind |-> "typing", user |-> f.user] /\ f.user \in Users
           /\ f.kind = "error" => f = [kind |-> "error", reason |-> f.reason]
    BY DEF DownFrames, Message

\* The second frame becomes the first.
LEMMA TailOf ==
    ASSUME NEW S, NEW s \in Seq(S), s # <<>>
    PROVE  /\ Len(s) \in Nat \ {0}
           /\ Head(s) = s[1] /\ Head(s) \in S
           /\ Tail(s) \in Seq(S)
           /\ Len(Tail(s)) = Len(s) - 1
           /\ \A k \in 1 .. Len(Tail(s)) : Tail(s)[k] = s[k + 1]
    OBVIOUS

LEMMA AppendOf ==
    ASSUME NEW S, NEW s \in Seq(S), NEW x \in S
    PROVE  /\ Append(s, x) \in Seq(S)
           /\ Len(Append(s, x)) = Len(s) + 1
           /\ \A k \in 1 .. Len(s) : Append(s, x)[k] = s[k]
           /\ Append(s, x)[Len(s) + 1] = x
    OBVIOUS

\* A frame is taken off the queue: the order of the rest is kept.
LEMMA Handled ==
    ASSUME NEW q \in Seq(UpFrames), InOrder(q), q # <<>>
    PROVE  /\ Tail(q) \in Seq(UpFrames)
           /\ InOrder(Tail(q))
           /\ Head(q) = "SUBSCRIBE_room" => Asks(Tail(q))
           /\ Head(q) # "SUBSCRIBE_history" /\ Asks(q) => Asks(Tail(q))
<1> DEFINE t == Tail(q)
<1>1. /\ Len(q) \in Nat \ {0} /\ Head(q) = q[1]
      /\ t \in Seq(UpFrames) /\ Len(t) = Len(q) - 1
      /\ \A k \in 1 .. Len(t) : t[k] = q[k + 1]
    BY TailOf
<1> HIDE DEF t
<1>2. InOrder(t)
    <2> SUFFICES ASSUME NEW k \in 1 .. Len(t), t[k] = "SUBSCRIBE_room" PROVE FALSE
        BY DEF InOrder
    <2>1. k + 1 \in 1 .. Len(q) /\ q[k + 1] = "SUBSCRIBE_room" /\ k + 1 # 1
        BY <1>1
    <2> QED
        BY <2>1 DEF InOrder
<1>3. Head(q) = "SUBSCRIBE_room" => Asks(t)
    <2> SUFFICES ASSUME Head(q) = "SUBSCRIBE_room" PROVE Asks(t)
        OBVIOUS
    <2>1. 1 \in 1 .. Len(q) /\ q[1] = "SUBSCRIBE_room"
        BY <1>1
    <2>2. Len(q) >= 2 /\ q[2] = "SUBSCRIBE_history"
        BY <2>1 DEF InOrder
    <2>3. 1 \in 1 .. Len(t) /\ t[1] = q[1 + 1]
        BY <2>2, <1>1
    <2> QED
        BY <2>2, <2>3 DEF Asks
<1>4. ASSUME Head(q) # "SUBSCRIBE_history", NEW k \in 1 .. Len(q), q[k] = "SUBSCRIBE_history"
      PROVE  Asks(t)
    <2>1. k # 1
        BY <1>1, <1>4
    <2>2. k - 1 \in 1 .. Len(t) /\ t[k - 1] = q[(k - 1) + 1] /\ (k - 1) + 1 = k
        BY <1>1, <2>1
    <2> QED
        BY <2>2, <1>4 DEF Asks
<1> QED
    BY <1>1, <1>2, <1>3, <1>4 DEF t, Asks

\* A draft sent goes last.
LEMMA Sent ==
    ASSUME NEW q \in Seq(UpFrames), NEW d \in Drafts, InOrder(q)
    PROVE  /\ Append(q, d) \in Seq(UpFrames)
           /\ InOrder(Append(q, d))
           /\ Asks(q) => Asks(Append(q, d))
<1> DEFINE t == Append(q, d)
<1>0. d \in UpFrames /\ d # "SUBSCRIBE_room"
    BY DraftsAssumption DEF UpFrames
<1>1. /\ t \in Seq(UpFrames) /\ Len(t) = Len(q) + 1 /\ Len(q) \in Nat
      /\ \A k \in 1 .. Len(q) : t[k] = q[k]
      /\ t[Len(q) + 1] = d
    BY <1>0, AppendOf
<1> HIDE DEF t
<1>2. ASSUME NEW k \in 1 .. Len(t), t[k] = "SUBSCRIBE_room"
      PROVE  k = 1 /\ Len(t) >= 2 /\ t[2] = "SUBSCRIBE_history"
    <2>1. k # Len(q) + 1
        BY <1>0, <1>1, <1>2
    <2>2. k \in 1 .. Len(q) /\ q[k] = "SUBSCRIBE_room"
        BY <1>1, <1>2, <2>1
    <2>3. k = 1 /\ Len(q) >= 2 /\ q[2] = "SUBSCRIBE_history"
        BY <2>2 DEF InOrder
    <2>4. 2 \in 1 .. Len(q) /\ t[2] = q[2]
        BY <2>3, <1>1
    <2> QED
        BY <1>1, <2>3, <2>4
<1>3. ASSUME NEW k \in 1 .. Len(q), q[k] = "SUBSCRIBE_history" PROVE Asks(t)
    <2>1. k \in 1 .. Len(t) /\ t[k] = q[k]
        BY <1>1
    <2> QED
        BY <2>1, <1>3 DEF Asks
<1> QED
    BY <1>1, <1>2, <1>3 DEF t, InOrder, Asks

\* A message stored is the only one the history may gain.
LEMMA StoredOne ==
    ASSUME ChatTypeOK, FramesNameStored, NEW u \in Users, Stores(u)
    PROVE  /\ room' \in Seq(Users) /\ Len(room') = Len(room) + 1 /\ Len(room') <= MaxMessages
           /\ down' \subseteq DownFrames
           /\ FramesNameStored'
           /\ shown \subseteq 1 .. Len(room')
           /\ History' \subseteq History \cup {Len(room) + 1}
           /\ down \subseteq down'
           /\ session = "subscribed" => Message(Len(room) + 1) \in down'
<1> USE SizesAssumption DEF ChatTypeOK
<1>1. room' \in Seq(Users) /\ Len(room') = Len(room) + 1 /\ Len(room') <= MaxMessages /\ Len(room) \in Nat
    BY AppendOf DEF Stores
<1>2. down' \subseteq down \cup {Message(Len(room) + 1)} /\ down \subseteq down'
    BY DEF Stores, Broadcast
<1>3. Message(Len(room) + 1) \in DownFrames
    BY <1>1 DEF DownFrames, Message, Messages
<1>4. FramesNameStored'
    <2> SUFFICES ASSUME NEW f \in down'
                 PROVE  /\ f.kind = "message" => f.id \in 1 .. Len(room')
                        /\ f.kind = "history" => f.ids \subseteq 1 .. Len(room')
        BY DEF FramesNameStored
    <2>1. CASE f \in down
        BY <2>1, <1>1 DEF FramesNameStored
    <2>2. CASE f = Message(Len(room) + 1)
        BY <2>2, <1>1 DEF Message
    <2> QED
        BY <2>1, <2>2, <1>2
<1>5. History' \subseteq History \cup {Len(room) + 1}
    BY <1>1 DEF History
<1>6. session = "subscribed" => Message(Len(room) + 1) \in down'
    BY DEF Stores, Broadcast
<1> QED
    BY <1>1, <1>2, <1>3, <1>4, <1>5, <1>6

-----------------------------------------------------------------------------
(* Types, and what the frames name *)

LEMMA TypeStep ==
    ASSUME ChatTypeOK, FramesNameStored, [Next]_vars
    PROVE  ChatTypeOK' /\ FramesNameStored'
<1> USE DEF ChatTypeOK, FramesNameStored
<1>1. CASE Attempts
    BY <1>1 DEF Attempts, server, chat
<1>2. CASE RefreshFails
    BY <1>2 DEF RefreshFails, server, chat
<1>3. CASE ConnectFails
    BY <1>3 DEF ConnectFails, server, chat
<1>4. CASE OnConnect
    <2>1. <<"SUBSCRIBE_room", "SUBSCRIBE_history">> \in Seq(UpFrames)
        BY DEF UpFrames
    <2> QED
        BY <1>4, <2>1 DEF OnConnect, server, chat
<1>5. CASE Dies
    BY <1>5 DEF Dies, Cut, server, chat
<1>6. CASE OnWebSocketClose
    BY <1>6 DEF OnWebSocketClose, Cut, server, chat
<1>7. CASE Reopens
    BY <1>7 DEF Reopens, Cut, server
<1>8. CASE ServerSubscribes
    BY <1>8, TailOf DEF ServerSubscribes, server, chat
<1>9. CASE ServerSendsHistory
    <2> DEFINE f == [kind |-> "history", ids |-> History]
    <2>1. History \subseteq 1 .. Len(room) /\ History \subseteq Messages
        BY SizesAssumption DEF History, Messages
    <2>2. f \in DownFrames
        BY <2>1 DEF DownFrames
    <2>3. down' = down \cup {f} /\ room' = room
        BY <1>9 DEF ServerSendsHistory, server
    <2>4. FramesNameStored'
        <3> SUFFICES ASSUME NEW g \in down'
                     PROVE  /\ g.kind = "message" => g.id \in 1 .. Len(room)
                            /\ g.kind = "history" => g.ids \subseteq 1 .. Len(room)
            BY <2>3
        <3>1. CASE g = f
            BY <3>1, <2>1
        <3> QED
            BY <3>1, <2>3
    <2> QED
        BY <1>9, <2>2, <2>4, TailOf DEF ServerSendsHistory, server, chat
<1>10. CASE ServerRefuses
    <2> DEFINE f == [kind |-> "error", reason |-> IF member THEN "later" ELSE "member"]
    <2>1. f \in DownFrames
        BY DEF DownFrames
    <2> QED
        BY <1>10, <2>1 DEF ServerRefuses, server, chat
<1>11. CASE ServerStores
    <2>1. Stores(Me) /\ Me \in Users
        BY <1>11, MeAssumption DEF ServerStores
    <2>2. /\ room' \in Seq(Users) /\ Len(room') <= MaxMessages
          /\ down' \subseteq DownFrames /\ FramesNameStored' /\ shown \subseteq 1 .. Len(room')
        BY <2>1, StoredOne
    <2> QED
        BY <1>11, <2>2, TailOf DEF ServerStores, chat
<1>12. CASE ServerRejects
    BY <1>12, TailOf DEF ServerRejects, server, chat
<1>13. CASE MembershipChanges
    BY <1>13 DEF MembershipChanges, chat
<1>14. ASSUME NEW u \in Users, OthersPost(u) PROVE ChatTypeOK' /\ FramesNameStored'
    <2>1. /\ room' \in Seq(Users) /\ Len(room') <= MaxMessages
          /\ down' \subseteq DownFrames /\ FramesNameStored' /\ shown \subseteq 1 .. Len(room')
        BY <1>14, StoredOne DEF OthersPost
    <2> QED
        BY <1>14, <2>1 DEF OthersPost, chat
<1>15. ASSUME NEW u \in Users, Signals(u) PROVE ChatTypeOK' /\ FramesNameStored'
    <2>1. [kind |-> "typing", user |-> u] \in DownFrames
        BY DEF DownFrames
    <2> QED
        BY <1>15, <2>1 DEF Signals, server, chat
<1>16. ASSUME NEW u \in Users, TimerFires(u) PROVE ChatTypeOK' /\ FramesNameStored'
    BY <1>16 DEF TimerFires, server
<1>17. ASSUME NEW frame \in down, Handles(frame) PROVE ChatTypeOK' /\ FramesNameStored'
    <2>0. frame \in DownFrames
        OBVIOUS
    <2>1. CASE frame.kind = "message"
        BY <1>17, <2>1 DEF Handles, OnMessage, Receives, Merge, server, Message
    <2>2. CASE frame.kind = "history"
        BY <1>17, <2>2 DEF Handles, OnHistory, Receives, Merge, server
    <2>3. CASE frame.kind = "typing"
        <3>1. frame.user \in Users
            BY <2>0, <2>3, FrameKinds
        <3> QED
            BY <1>17, <2>3, <3>1 DEF Handles, OnTyping, Receives, server
    <2>4. CASE frame.kind = "error"
        BY <1>17, <2>4 DEF Handles, OnStompError, Cut, server, chat
    <2> QED
        BY <2>0, <2>1, <2>2, <2>3, <2>4, FrameKinds
<1>18. ASSUME NEW d \in Drafts, Sends(d) PROVE ChatTypeOK' /\ FramesNameStored'
    <2>1. d \in UpFrames
        BY DEF UpFrames
    <2>2. up' \in Seq(UpFrames)
        BY <1>18, <2>1, AppendOf DEF Sends
    <2> QED
        BY <1>18, <2>2 DEF Sends, server, chat
<1>19. CASE UNCHANGED vars
    BY <1>19 DEF vars
<1> QED
    BY <1>1, <1>2, <1>3, <1>4, <1>5, <1>6, <1>7, <1>8, <1>9, <1>10, <1>11, <1>12, <1>13,
       <1>14, <1>15, <1>16, <1>17, <1>18, <1>19 DEF Next

-----------------------------------------------------------------------------
(* Typing signals *)

LEMMA TypingStep == ASSUME ChatTypeOK, TypingEnds, [Next]_vars PROVE TypingEnds'
<1> USE DEF TypingEnds
<1>1. ASSUME NEW frame \in down, Handles(frame) PROVE TypingEnds'
    <2>0. frame \in DownFrames
        BY DEF ChatTypeOK
    <2>1. CASE frame.kind = "message"
        BY <1>1, <2>1 DEF Handles, OnMessage
    <2>2. CASE frame.kind = "history"
        BY <1>1, <2>2 DEF Handles, OnHistory
    <2>3. CASE frame.kind = "typing"
        BY <1>1, <2>3 DEF Handles, OnTyping
    <2>4. CASE frame.kind = "error"
        BY <1>1, <2>4 DEF Handles, OnStompError, chat
    <2> QED
        BY <2>0, <2>1, <2>2, <2>3, <2>4, FrameKinds
<1>2. ASSUME NEW u \in Users, TimerFires(u) PROVE TypingEnds'
    BY <1>2 DEF TimerFires
<1>3. CASE Reopens
    BY <1>3 DEF Reopens
<1>4. CASE UNCHANGED <<typing, timers>>
    BY <1>4
<1> QED
    BY <1>1, <1>2, <1>3, <1>4
    DEF Next, Attempts, RefreshFails, ConnectFails, OnConnect, Dies, OnWebSocketClose,
        ServerSubscribes, ServerSendsHistory, ServerRefuses, ServerStores, ServerRejects,
        MembershipChanges, OthersPost, Signals, Sends, chat, vars

-----------------------------------------------------------------------------
(* The screen *)

\* Nothing leaves the screen but by reopening the tab.
LEMMA ShownStep == ASSUME ChatTypeOK, [Next]_vars PROVE shown \subseteq shown' \/ Reopens
<1>1. ASSUME NEW frame \in down, Handles(frame) PROVE shown \subseteq shown'
    <2>0. frame \in DownFrames
        BY DEF ChatTypeOK
    <2>1. CASE frame.kind = "message"
        BY <1>1, <2>1 DEF Handles, OnMessage, Merge
    <2>2. CASE frame.kind = "history"
        BY <1>1, <2>2 DEF Handles, OnHistory, Merge
    <2>3. CASE frame.kind = "typing"
        BY <1>1, <2>3 DEF Handles, OnTyping
    <2>4. CASE frame.kind = "error"
        BY <1>1, <2>4 DEF Handles, OnStompError, chat
    <2> QED
        BY <2>0, <2>1, <2>2, <2>3, <2>4, FrameKinds
<1> QED
    BY <1>1
    DEF Next, Attempts, RefreshFails, ConnectFails, OnConnect, Dies, OnWebSocketClose,
        ServerSubscribes, ServerSendsHistory, ServerRefuses, ServerStores, ServerRejects,
        MembershipChanges, OthersPost, Signals, TimerFires, Sends, chat, vars

\* A message on its way stays on its way when frames are added, ...
LEMMA MoreComing ==
    ASSUME NEW i, Coming(i), down \subseteq down'
    PROVE  Coming(i)'
    BY DEF Coming, Message

\* ... and is shown once the frame that carries it is received.
LEMMA Received ==
    ASSUME NEW i, NEW frame, Coming(i), down' = down \ {frame}
    PROVE  Coming(i)' \/ frame = Message(i) \/ (frame.kind = "history" /\ i \in frame.ids)
    BY DEF Coming, Message

\* Whatever the server sends, and whenever, the latest messages are shown or on their way.
LEMMA CoverStep == ASSUME ChatInv, [Next]_vars PROVE InOrder(up') /\ Covered'
<1>0. ChatTypeOK /\ FramesNameStored /\ InOrder(up) /\ Covered /\ up \in Seq(UpFrames)
    BY DEF ChatInv, ChatTypeOK
\* Nothing the invariant is about changes, or frames are only added.
<1>1. CASE UNCHANGED <<session, up, room, shown>> /\ down \subseteq down'
    <2>1. ~Asks(up') => ~Asks(up)
        BY <1>1
    <2>2. History' = History
        BY <1>1 DEF History
    <2> QED
        BY <1>0, <1>1, <2>1, <2>2, MoreComing DEF Covered
<1>2. CASE session' = "none" /\ up' = <<>>
    BY <1>2 DEF InOrder, Covered
<1>3. CASE OnConnect
    BY <1>3 DEF OnConnect, InOrder, Covered
<1>4. CASE ServerSubscribes
    <2>1. InOrder(up') /\ Asks(up')
        BY <1>0, <1>4, Handled DEF ServerSubscribes
    <2> QED
        BY <2>1 DEF Covered
<1>5. CASE ServerSendsHistory
    <2> DEFINE f == [kind |-> "history", ids |-> History]
    <2>1. InOrder(up')
        BY <1>0, <1>5, Handled DEF ServerSendsHistory
    <2>2. f \in down' /\ f.kind = "history" /\ f.ids = History /\ History' = History
        BY <1>5 DEF ServerSendsHistory, History, server
    <2>3. \A i \in History' : Coming(i)'
        BY <2>2 DEF Coming
    <2> QED
        BY <2>1, <2>3 DEF Covered
<1>6. CASE ServerStores
    <2>1. up # <<>> /\ up' = Tail(up) /\ Head(up) \in Drafts /\ session' = session /\ shown' = shown
        BY <1>6 DEF ServerStores, chat
    <2>2. InOrder(up') /\ (Asks(up) => Asks(up'))
        BY <1>0, <2>1, Handled, DraftsAssumption
    <2>3. /\ History' \subseteq History \cup {Len(room) + 1}
          /\ down \subseteq down' /\ (session = "subscribed" => Message(Len(room) + 1) \in down')
        BY <1>0, <1>6, StoredOne, MeAssumption DEF ServerStores
    <2>4. ASSUME session = "subscribed", ~Asks(up'), NEW i \in History' PROVE i \in shown' \/ Coming(i)'
        <3>1. CASE i \in History
            BY <1>0, <2>1, <2>2, <2>3, <2>4, <3>1, MoreComing DEF Covered
        <3>2. CASE i = Len(room) + 1
            BY <2>3, <2>4, <3>2 DEF Coming
        <3> QED
            BY <2>3, <3>1, <3>2
    <2> QED
        BY <2>1, <2>2, <2>4 DEF Covered
<1>7. CASE ServerRejects
    <2>1. up # <<>> /\ up' = Tail(up) /\ Head(up) \in Drafts /\ UNCHANGED <<session, shown, room, down>>
        BY <1>7 DEF ServerRejects, chat, server
    <2>2. InOrder(up') /\ (Asks(up) => Asks(up'))
        BY <1>0, <2>1, Handled, DraftsAssumption
    <2>3. History' = History
        BY <2>1 DEF History
    <2> QED
        BY <1>0, <2>1, <2>2, <2>3, MoreComing DEF Covered
<1>8. ASSUME NEW u \in Users, OthersPost(u) PROVE InOrder(up') /\ Covered'
    <2>1. up' = up /\ session' = session /\ shown' = shown
        BY <1>8 DEF OthersPost, chat
    <2>3. /\ History' \subseteq History \cup {Len(room) + 1}
          /\ down \subseteq down' /\ (session = "subscribed" => Message(Len(room) + 1) \in down')
        BY <1>0, <1>8, StoredOne DEF OthersPost
    <2>4. ASSUME session = "subscribed", ~Asks(up), NEW i \in History' PROVE i \in shown' \/ Coming(i)'
        <3>1. CASE i \in History
            BY <1>0, <2>1, <2>3, <2>4, <3>1, MoreComing DEF Covered
        <3>2. CASE i = Len(room) + 1
            BY <2>3, <2>4, <3>2 DEF Coming
        <3> QED
            BY <2>3, <3>1, <3>2
    <2> QED
        BY <1>0, <2>1, <2>4 DEF Covered
<1>9. ASSUME NEW frame \in down, Handles(frame) PROVE InOrder(up') /\ Covered'
    <2>0. frame \in DownFrames
        BY <1>0 DEF ChatTypeOK
    <2>1. CASE frame.kind = "error"
        BY <1>2, <1>9, <2>1 DEF Handles, OnStompError, Cut
    <2>2. CASE frame.kind # "error"
        <3>1. /\ down' = down \ {frame} /\ UNCHANGED <<session, up, room>>
              /\ shown \subseteq shown'
              /\ frame.kind = "message" => frame.id \in shown'
              /\ frame.kind = "history" => frame.ids \subseteq shown'
            <4>1. CASE frame.kind = "message"
                BY <1>9, <2>0, <4>1, FrameKinds DEF Handles, OnMessage, Receives, Merge, server
            <4>2. CASE frame.kind = "history"
                BY <1>9, <2>0, <4>2, FrameKinds DEF Handles, OnHistory, Receives, Merge, server
            <4>3. CASE frame.kind = "typing"
                BY <1>9, <2>0, <4>3, FrameKinds DEF Handles, OnTyping, Receives, server
            <4> QED
                BY <2>0, <2>2, <4>1, <4>2, <4>3, FrameKinds
        <3>2. History' = History
            BY <3>1 DEF History
        <3>3. ASSUME session = "subscribed", ~Asks(up), NEW i \in History PROVE i \in shown' \/ Coming(i)'
            <4>1. i \in shown \/ Coming(i)
                BY <1>0, <3>3 DEF Covered
            <4>2. CASE i \in shown
                BY <3>1, <4>2
            <4>3. CASE Coming(i)
                <5>1. Coming(i)' \/ frame = Message(i) \/ (frame.kind = "history" /\ i \in frame.ids)
                    BY <3>1, <4>3, Received
                <5> QED
                    BY <3>1, <5>1 DEF Message
            <4> QED
                BY <4>1, <4>2, <4>3
        <3> QED
            BY <1>0, <3>1, <3>2, <3>3 DEF Covered
    <2> QED
        BY <2>1, <2>2
<1>10. ASSUME NEW d \in Drafts, Sends(d) PROVE InOrder(up') /\ Covered'
    <2>1. UNCHANGED <<session, down, room, shown>> /\ (up' = up \/ up' = Append(up, d))
        BY <1>10 DEF Sends, chat, server
    <2>2. InOrder(up') /\ (Asks(up) => Asks(up'))
        BY <1>0, <2>1, Sent
    <2>3. History' = History
        BY <2>1 DEF History
    <2> QED
        BY <1>0, <2>1, <2>2, <2>3, MoreComing DEF Covered
<1>11. CASE Attempts \/ RefreshFails \/ ConnectFails \/ MembershipChanges \/ UNCHANGED vars
    BY <1>1, <1>11
    DEF Attempts, RefreshFails, ConnectFails, MembershipChanges, vars, chat, server
<1>12. ASSUME NEW u \in Users, Signals(u) \/ TimerFires(u) PROVE InOrder(up') /\ Covered'
    BY <1>1, <1>12 DEF Signals, TimerFires, chat, server
<1>13. CASE Dies \/ OnWebSocketClose \/ Reopens \/ ServerRefuses
    BY <1>2, <1>13 DEF Dies, OnWebSocketClose, Reopens, ServerRefuses, Cut
<1> QED
    BY <1>3, <1>4, <1>5, <1>6, <1>7, <1>8, <1>9, <1>10, <1>11, <1>12, <1>13 DEF Next

-----------------------------------------------------------------------------
(* The theorems *)

\* Every behaviour keeps the inductive invariant.
THEOREM ChatInvariance == Spec => []ChatInv
<1>1. Init => ChatInv
    <2> SUFFICES ASSUME Init PROVE ChatInv
        OBVIOUS
    <2> USE DEF Init
    <2>1. PICK n \in 0 .. MaxMessages : room \in [1 .. n -> Users]
        OBVIOUS
    <2>2. room \in Seq(Users) /\ Len(room) = n /\ Len(room) <= MaxMessages
        BY <2>1, SizesAssumption
    <2>3. ChatTypeOK
        BY <2>2 DEF ChatTypeOK
    <2>4. FramesNameStored /\ TypingEnds /\ InOrder(up) /\ Covered
        BY DEF FramesNameStored, TypingEnds, InOrder, Covered
    <2> QED
        BY <2>3, <2>4 DEF ChatInv
<1>2. ChatInv /\ [Next]_vars => ChatInv'
    BY TypeStep, TypingStep, CoverStep DEF ChatInv
<1> QED
    BY <1>1, <1>2, PTL DEF Spec

\* Whatever frames come, in whatever order, the state of the tab, of its connection and of
\* the room is well formed, and the screen shows stored messages only.
THEOREM ChatTypeCorrect == Spec => []ChatTypeOK
<1>1. ChatInv => ChatTypeOK
    BY DEF ChatInv
<1> QED
    BY <1>1, ChatInvariance, PTL

\* onConnect subscribes to the room before it asks for the history: with both answered and
\* every frame received, the screen holds the latest messages, those of an absence included.
THEOREM NoGapOnceCaughtUp == Spec => []CaughtUp
<1>1. ChatInv => CaughtUp
    <2> SUFFICES ASSUME ChatInv, session = "subscribed", down = {},
                        \A i \in 1 .. Len(up) : ~Subscribes(up[i])
                 PROVE  History \subseteq shown
        BY DEF CaughtUp
    <2>1. ~Asks(up)
        BY DraftsAssumption DEF Asks, Subscribes
    <2>2. \A i \in History : i \in shown \/ Coming(i)
        BY <2>1 DEF ChatInv, Covered
    <2> QED
        BY <2>2 DEF Coming
<1> QED
    BY <1>1, ChatInvariance, PTL

\* stopTyping, OnMessage and OnTyping keep the names and the timers together: nobody is
\* shown as typing without a timer to end it.
THEOREM TypingAlwaysEnds == Spec => []TypingEnds
<1>1. ChatInv => TypingEnds
    BY DEF ChatInv
<1> QED
    BY <1>1, ChatInvariance, PTL

\* merge() only adds: no frame, reconnection or error takes a message off the screen of a
\* tab that is not reopened.
THEOREM NothingShownIsLost == Spec => ShownStays
<1>1. ChatInv /\ [Next]_vars => [shown \subseteq shown' \/ Reopens]_vars
    BY ShownStep DEF ChatInv
<1> QED
    BY <1>1, ChatInvariance, PTL DEF Spec, ShownStays

=============================================================================
