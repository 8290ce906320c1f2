------------------------ MODULE NotificationBellProofs ------------------------
(***************************************************************************)
(* Theorems about NotificationBell, for any notifications, connections and *)
(* number of faults.                                                       *)
(***************************************************************************)
EXTENDS NotificationBell, FiniteSetTheorems, WellFoundedInduction, TLAPS

-----------------------------------------------------------------------------
(* Operators *)

\* A set of numbers that is not empty has a least element.
LEMMA MinOf ==
    ASSUME NEW S \in SUBSET Nat, S # {}
    PROVE  Min(S) \in S
<1>1. \E x \in S : \A y \in S : ~(<<y, x>> \in OpToRel(<, Nat))
    BY NatLessThanWellFounded, WFMin
<1>2. \E x \in S : \A y \in S : x <= y
    <2>1. PICK x \in S : \A y \in S : ~(<<y, x>> \in OpToRel(<, Nat))
        BY <1>1
    <2>2. ASSUME NEW y \in S PROVE x <= y
        <3>1. ~(y < x)
            BY <2>1 DEF OpToRel
        <3> QED
            BY <3>1
    <2> QED
        BY <2>2
<1> QED
    BY <1>2 DEF Min

\* Each unread one on the wire has a place there of its own.
LEMMA WireCounts ==
    ASSUME NEW w \in Seq(Ids), NEW U \in SUBSET Ids
    PROVE  LET read == {i \in DOMAIN w : w[i] \in U}
               carried == {n \in U : \E i \in DOMAIN w : w[i] = n}
           IN  /\ IsFiniteSet(U) /\ Cardinality(U) \in Nat
               /\ IsFiniteSet(read) /\ Cardinality(read) \in Nat
               /\ IsFiniteSet(U \ carried)
               /\ Cardinality(U) <= Cardinality(U \ carried) + Cardinality(read)
<1> DEFINE read == {i \in DOMAIN w : w[i] \in U}
           carried == {n \in U : \E i \in DOMAIN w : w[i] = n}
           f == [i \in read |-> w[i]]
<1>1. IsFiniteSet(U) /\ Cardinality(U) \in Nat /\ IsFiniteSet(carried) /\ IsFiniteSet(U \ carried)
    BY BellConstants, FS_Subset, FS_CardinalityType
<1>2. IsFiniteSet(read)
    <2>1. DOMAIN w = 1 .. Len(w) /\ Len(w) \in Nat
        OBVIOUS
    <2>2. IsFiniteSet(1 .. Len(w))
        BY <2>1, FS_Interval
    <2> QED
        BY <2>1, <2>2, FS_Subset
<1>3. f \in Surjection(read, carried)
    BY DEF Surjection
<1>4. Cardinality(carried) <= Cardinality(read)
    BY <1>2, <1>3, FS_Surjection
<1>5. U \cap carried = carried
    OBVIOUS
<1>6. Cardinality(U \ carried) = Cardinality(U) - Cardinality(carried)
    BY <1>1, <1>5, FS_Difference
<1>7. Cardinality(U \ carried) \in Nat /\ Cardinality(carried) \in Nat /\ Cardinality(read) \in Nat
    BY <1>1, <1>2, FS_CardinalityType
<1> HIDE DEF read, carried
<1>8. Cardinality(U) <= Cardinality(U \ carried) + Cardinality(read)
    BY <1>1, <1>4, <1>6, <1>7
<1> QED
    BY <1>1, <1>2, <1>7, <1>8 DEF read, carried

-----------------------------------------------------------------------------
(* The streams *)

ConnStates == {"none", "asked", "opening", "listening", "aborted"}

\* What fetchEventSource keeps.
Runs == [cur : Conns, live : BOOLEAN, timer : BOOLEAN, attached : BOOLEAN, old : SUBSET Conns]

\* What the connections carry is stored, and a disposed stream is not attached again.
StreamsOK ==
    /\ conn \in [Conns -> ConnStates]
    /\ wire \in [Conns -> Seq(Ids)]
    /\ \A c \in Conns : \A i \in DOMAIN wire[c] : stored[wire[c][i]] # "absent"
    /\ es \in Runs
    /\ es.live \/ es.timer => es.attached

Carried(w) == w \in [Conns -> Seq(Ids)] /\ \A c \in Conns : \A i \in DOMAIN w[c] : stored[w[c][i]] # "absent"

LEMMA AbortedTyped ==
    ASSUME StreamsOK
    PROVE  Aborted \in [Conns -> ConnStates]
    BY DEF StreamsOK, Aborted, ConnStates

LEMMA CutCarried ==
    ASSUME StreamsOK, NEW cs
    PROVE  Carried(CutWires(cs))
<1>1. \A c \in Conns : CutWires(cs)[c] = wire[c] \/ CutWires(cs)[c] = <<>>
    BY DEF CutWires
<1>2. CutWires(cs) \in [Conns -> Seq(Ids)]
    BY DEF CutWires, StreamsOK
<1> QED
    BY <1>1, <1>2 DEF Carried, StreamsOK

LEMMA ConnsOrdered == Conns \subseteq Nat /\ 1 \in Conns
    BY BellConstants DEF Conns

\* A request of its own, not answered yet.
LEMMA Created ==
    ASSUME StreamsOK, NEW cs \in [Conns -> ConnStates], NEW timer \in BOOLEAN,
           \E d \in Conns : cs[d] = "none", es.attached, Create(cs, timer)
    PROVE  /\ conn' \in [Conns -> ConnStates]
           /\ Carried(wire')
           /\ es' \in Runs
           /\ es'.attached
           /\ conn'[es'.cur] = "asked"
<1> DEFINE c == Min({d \in Conns : cs[d] = "none"})
<1>1. c \in {d \in Conns : cs[d] = "none"}
    BY MinOf, ConnsOrdered
<1> HIDE DEF c
<1>2. /\ conn' = [cs EXCEPT ![c] = "asked"]
      /\ wire' = CutWires(cs)
      /\ es' = [es EXCEPT !.cur = c, !.live = TRUE, !.timer = timer, !.old = @ \ {c}]
    BY DEF Create, c
<1>3. es' \in Runs /\ es'.attached /\ es'.cur = c
    BY <1>1, <1>2 DEF StreamsOK, Runs
<1> QED
    BY <1>1, <1>2, <1>3, CutCarried DEF StreamsOK, ConnStates

\* No connection starts to wait for the count, and the one read goes on.
Undisturbed ==
    /\ \A c \in Conns : conn'[c] \in {"opening", "aborted"}
                          => \E d \in Conns : conn[d] \in {"opening", "aborted"}
    /\ conn'[es'.cur] = "listening" =>
           conn[es.cur] = "listening" /\ es'.cur = es.cur /\ wire'[es.cur] = wire[es.cur]

\* What stops a stream, or starts another, leaves the one that is read alone.
LEMMA StreamStep ==
    ASSUME StreamsOK, UNCHANGED stored,
           \/ \E c \in Conns : Refused(c) \/ Drops(c) \/ Closes(c)
           \/ TimerFires \/ Hides \/ Shows \/ RefreshSucceeds \/ RefreshFails
    PROVE  StreamsOK' /\ Undisturbed
<1> USE DEF StreamsOK, Runs
<1>0. ASSUME UNCHANGED stream PROVE StreamsOK' /\ Undisturbed
    BY <1>0 DEF stream, Undisturbed
<1>1. ASSUME Carried(wire') PROVE wire' \in [Conns -> Seq(Ids)] /\
             \A c \in Conns : \A i \in DOMAIN wire'[c] : stored'[wire'[c][i]] # "absent"
    BY <1>1 DEF Carried
<1>2. ASSUME NEW c \in Conns, Refused(c) PROVE StreamsOK' /\ Undisturbed
    <2>0. wire' = CutWires(conn') /\ Carried(wire')
        BY <1>2, CutCarried DEF Refused
    <2>1. CASE es.live /\ c \notin es.old
        <3>1. /\ conn' = [Aborted EXCEPT ![c] = "none"]
              /\ es' = [es EXCEPT !.live = FALSE, !.timer = FALSE, !.attached = FALSE]
            BY <1>2, <2>1 DEF Refused
        <3>2. StreamsOK'
            BY <1>1, <2>0, <3>1, AbortedTyped DEF ConnStates
        <3>3. \A d \in Conns : conn'[d] = "none" \/ conn'[d] = Aborted[d]
            BY <3>1, AbortedTyped
        <3>4. Undisturbed
            BY <3>1, <3>3 DEF Undisturbed, Aborted
        <3> QED
            BY <3>2, <3>4
    <2>2. CASE ~(es.live /\ c \notin es.old)
        <3>1. conn' = [conn EXCEPT ![c] = "none"] /\ es' = [es EXCEPT !.old = @ \ {c}]
            BY <1>2, <2>2 DEF Refused
        <3>2. StreamsOK'
            BY <1>1, <2>0, <3>1 DEF ConnStates
        <3>3. Undisturbed
            BY <2>0, <3>1 DEF Undisturbed, CutWires
        <3> QED
            BY <3>2, <3>3
    <2> QED
        BY <2>1, <2>2
<1>3. ASSUME NEW c \in Conns, OnError(c) PROVE StreamsOK' /\ Undisturbed
    <2>1. Carried(wire')
        <3>1. wire' = [wire EXCEPT ![c] = <<>>]
            BY <1>3 DEF OnError
        <3>2. wire' \in [Conns -> Seq(Ids)] /\ \A d \in Conns : wire'[d] = wire[d] \/ wire'[d] = <<>>
            BY <3>1
        <3> QED
            BY <3>2 DEF Carried
    <2>2. StreamsOK'
        BY <1>1, <1>3, <2>1 DEF OnError, ConnStates
    <2>3. Undisturbed
        BY <1>3 DEF OnError, Undisturbed
    <2> QED
        BY <2>2, <2>3
<1>4. ASSUME NEW cs \in [Conns -> ConnStates], NEW timer \in BOOLEAN,
             \A d \in Conns : cs[d] = conn[d] \/ cs[d] = Aborted[d],
             \E d \in Conns : cs[d] = "none", es.attached, Create(cs, timer)
      PROVE  StreamsOK' /\ Undisturbed
    <2>1. StreamsOK' /\ conn'[es'.cur] = "asked"
        BY <1>1, <1>4, Created
    <2>2. \A d \in Conns : conn'[d] = "asked" \/ conn'[d] = cs[d]
        BY <1>4 DEF Create
    <2> QED
        BY <1>4, <2>1, <2>2 DEF Undisturbed, Aborted
<1>5. CASE TimerFires
    BY <1>4, <1>5 DEF TimerFires, Free
<1>6. CASE Hides
    <2>1. CASE es.attached
        <3>1. conn' = Aborted /\ wire' = CutWires(Aborted) /\ es' = [es EXCEPT !.live = FALSE]
            BY <1>6, <2>1 DEF Hides
        <3>2. StreamsOK'
            BY <1>1, <3>1, CutCarried, AbortedTyped
        <3>3. Undisturbed
            BY <3>1 DEF Undisturbed, Aborted
        <3> QED
            BY <3>2, <3>3
    <2> QED
        BY <1>0, <1>6, <2>1 DEF Hides
<1>7. CASE Shows
    <2>1. CASE es.attached
        BY <1>4, <1>7, <2>1, AbortedTyped DEF Shows
    <2> QED
        BY <1>0, <1>7, <2>1 DEF Shows
<1>8. CASE RefreshSucceeds
    <2> DEFINE unused == {d \in Conns : Aborted[d] = "none"}
               c == Min(unused)
    <2>0. unused \in SUBSET Nat /\ unused # {}
        BY <1>8, ConnsOrdered DEF RefreshSucceeds, Restart
    <2>1. c \in unused
        BY ONLY <2>0, MinOf
    <2>2. /\ conn' = [Aborted EXCEPT ![c] = "asked"]
          /\ wire' = CutWires(Aborted)
          /\ es' = [cur |-> c, live |-> TRUE, timer |-> FALSE, attached |-> TRUE,
                     old |-> {d \in Conns : Aborted[d] # "none"}]
        BY <1>8 DEF RefreshSucceeds, Restart
    <2> HIDE DEF c
    <2>3. StreamsOK'
        BY <1>1, <2>1, <2>2, CutCarried, AbortedTyped DEF ConnStates
    <2>4. conn'[es'.cur] = "asked" /\ \A d \in Conns : conn'[d] \in {"asked", Aborted[d]}
        BY <2>1, <2>2, AbortedTyped
    <2>5. Undisturbed
        BY <2>4 DEF Undisturbed, Aborted
    <2> QED
        BY <2>3, <2>5
<1>9. CASE RefreshFails
    <2>1. /\ conn' = [c \in Conns |-> "none"] /\ wire' = [c \in Conns |-> <<>>]
          /\ es' = [cur |-> 1, live |-> FALSE, timer |-> FALSE, attached |-> FALSE, old |-> {}]
        BY <1>9 DEF RefreshFails
    <2>2. StreamsOK'
        BY <2>1, ConnsOrdered DEF ConnStates
    <2>3. Undisturbed
        BY <2>1, ConnsOrdered DEF Undisturbed
    <2> QED
        BY <2>2, <2>3
<1> QED
    BY <1>2, <1>3, <1>5, <1>6, <1>7, <1>8, <1>9 DEF Drops, Closes

-----------------------------------------------------------------------------
(* The rows of the service *)

StoredOK == stored \in [Ids -> {"absent", "unread", "read"}]

\* Nothing stored goes; what was read stays read; only an arrival adds to the unread.
LEMMA StoredStep ==
    ASSUME StoredOK, [Next]_vars
    PROVE  /\ StoredOK'
           /\ \A n \in Ids : stored[n] # "absent" => stored'[n] # "absent"
           /\ \A n \in Ids : stored[n] = "read" => stored'[n] = "read"
           /\ Unread' \subseteq Unread \/ \E n \in Ids : Arrives(n)
<1> USE DEF StoredOK, Unread
<1>1. CASE UNCHANGED stored
    BY <1>1
<1>2. ASSUME NEW n \in Ids, Arrives(n) PROVE StoredOK' /\
             \A k \in Ids : (stored[k] # "absent" => stored'[k] # "absent")
                            /\ (stored[k] = "read" => stored'[k] = "read")
    BY <1>2 DEF Arrives
<1>3. ASSUME NEW n \in Ids, ReadElsewhere(n) PROVE StoredOK' /\ Unread' \subseteq Unread /\
             \A k \in Ids : (stored[k] # "absent" => stored'[k] # "absent")
                            /\ (stored[k] = "read" => stored'[k] = "read")
    BY <1>3 DEF ReadElsewhere
<1>4. ASSUME MarkApplied PROVE StoredOK' /\ Unread' \subseteq Unread /\
             \A k \in Ids : (stored[k] # "absent" => stored'[k] # "absent")
                            /\ (stored[k] = "read" => stored'[k] = "read")
    BY <1>4 DEF MarkApplied
<1> QED
    BY <1>1, <1>2, <1>3, <1>4
    DEF Next, vars, server, Connection, Answers, Opens, Refused, Closes, Delivers, Drops,
        MarkRead, TimerFires, Hides, Shows, Expires, RequestRefused, RefreshSucceeds,
        RefreshFails, BadgeAnswered, BadgeArrives, ListAnswered, ListArrives, BadgeFails,
        ListFails, ListAges, Opened, Closed, MarkAllRead, MarkSucceeds, MarkFails

-----------------------------------------------------------------------------
(* The badge *)

\* The unread notifications the latest stream does not carry.
Missed == {n \in Unread : \A i \in DOMAIN wire[es.cur] : wire[es.cur][i] # n}

\* A stream waits for the count only while the count is under way; without a failure, or
\* a notification between its answer and its arrival, the count misses nothing, and while
\* the latest stream is read the badge misses only what this stream still carries.
BadgeOK ==
    /\ badge \in [data : Nat \cup {Undefined}, fetch : (0 .. Cardinality(Ids)) \cup {Idle, Asked}]
    /\ blurred \in BOOLEAN
    /\ (\E c \in Conns : conn[c] \in {"opening", "aborted"}) => badge.fetch # Idle
    /\ badge.fetch = Idle /\ ~blurred => badge.data # Undefined
    /\ badge.fetch \notin {Idle, Asked} /\ ~blurred => Cardinality(Unread) <= badge.fetch
    /\ conn[es.cur] = "listening" /\ badge.fetch = Idle /\ ~blurred
         => Cardinality(Missed) <= badge.data

\* Fewer notifications, a smaller count.
LEMMA Counts ==
    ASSUME NEW S \in SUBSET Ids, NEW T \in SUBSET S
    PROVE  /\ IsFiniteSet(S) /\ Cardinality(S) \in 0 .. Cardinality(Ids)
           /\ Cardinality(T) \in Nat /\ Cardinality(T) <= Cardinality(S)
           /\ Cardinality(Ids) \in Nat
<1>1. IsFiniteSet(S) /\ Cardinality(S) <= Cardinality(Ids) /\ IsFiniteSet(Ids)
    BY BellConstants, FS_Subset
<1>2. IsFiniteSet(T) /\ Cardinality(T) <= Cardinality(S)
    BY <1>1, FS_Subset
<1> QED
    BY <1>1, <1>2, FS_CardinalityType

\* A step that leaves the badge and the stream it follows alone, and adds nothing unread.
LEMMA BadgeLeft ==
    ASSUME StreamsOK, BadgeOK, UNCHANGED <<badge, blurred>>, Unread' \subseteq Unread, Undisturbed
    PROVE  BadgeOK'
<1>1. Missed' \subseteq Missed \/ conn'[es'.cur] # "listening"
    BY DEF Missed, Undisturbed
<1>2. Missed \subseteq Ids /\ Unread \subseteq Ids /\ Missed' \subseteq Ids
    BY DEF Missed, Unread
<1>3. Cardinality(Unread') <= Cardinality(Unread) /\ Cardinality(Unread') \in Nat /\ Cardinality(Unread) \in Nat
    BY <1>2, Counts
<1>4. conn'[es'.cur] = "listening" =>
          Cardinality(Missed') <= Cardinality(Missed) /\ Cardinality(Missed') \in Nat /\ Cardinality(Missed) \in Nat
    BY <1>1, <1>2, Counts
<1>5. badge.fetch \notin {Idle, Asked} => badge.fetch \in Nat
    BY DEF BadgeOK
<1>6. badge.data # Undefined => badge.data \in Nat
    BY DEF BadgeOK
<1>7. badge.fetch \notin {Idle, Asked} /\ ~blurred => Cardinality(Unread') <= badge.fetch
    BY <1>3, <1>5 DEF BadgeOK
<1>8. conn'[es'.cur] = "listening" /\ badge.fetch = Idle /\ ~blurred
         => Cardinality(Missed') <= badge.data
    <2> SUFFICES ASSUME conn'[es'.cur] = "listening", badge.fetch = Idle, ~blurred
                 PROVE  Cardinality(Missed') <= badge.data
        OBVIOUS
    <2>1. badge.data \in Nat /\ Cardinality(Missed) <= badge.data
        BY <1>6 DEF BadgeOK, Undisturbed
    <2> QED
        BY <1>4, <2>1
<1>9. (\E c \in Conns : conn'[c] \in {"opening", "aborted"}) => badge.fetch # Idle
    BY DEF BadgeOK, Undisturbed
<1> QED
    BY <1>7, <1>8, <1>9 DEF BadgeOK

\* The count asked again is not idle, and nothing has slipped past it but what it says.
LEMMA Reloaded ==
    ASSUME BadgeOK, RefetchBadge, UNCHANGED stored
    PROVE  BadgeOK' /\ badge'.fetch # Idle
<1>1. badge' \in [data : Nat \cup {Undefined}, fetch : (0 .. Cardinality(Ids)) \cup {Idle, Asked}]
    BY DEF BadgeOK, RefetchBadge, Refetched
<1>2. badge'.fetch # Idle
    BY BellMarks DEF BadgeOK, RefetchBadge, Refetched
<1>3. badge'.fetch = Asked \/ (badge' = badge /\ badge.data = Undefined /\ badge.fetch # Idle)
    BY DEF BadgeOK, RefetchBadge, Refetched
<1>4. Unread' = Unread
    BY DEF Unread
<1>5. badge'.fetch \notin {Idle, Asked} /\ ~blurred' => Cardinality(Unread') <= badge'.fetch
    BY <1>3, <1>4 DEF BadgeOK, RefetchBadge
<1> QED
    BY <1>1, <1>2, <1>5 DEF BadgeOK, RefetchBadge

\* The first notification of a connection is read, and the badge bumped.
LEMMA DeliverStep ==
    ASSUME StoredOK, StreamsOK, BadgeOK, NEW c \in Conns, Delivers(c)
    PROVE  StreamsOK' /\ BadgeOK'
<1>1. /\ wire[c] \in Seq(Ids) /\ wire[c] # <<>>
      /\ wire' = [wire EXCEPT ![c] = Tail(wire[c])]
      /\ UNCHANGED <<stored, conn, es, blurred>>
      /\ badge' = IF badge.data = Undefined THEN badge ELSE [badge EXCEPT !.data = @ + 1]
    BY DEF Delivers, OnMessage, StreamsOK, server
<1>2. /\ Tail(wire[c]) \in Seq(Ids)
      /\ \A i \in DOMAIN Tail(wire[c]) : i + 1 \in DOMAIN wire[c] /\ Tail(wire[c])[i] = wire[c][i + 1]
      /\ \A i \in DOMAIN wire[c] : i = 1 \/ (i - 1 \in DOMAIN Tail(wire[c]) /\ wire[c][i] = Tail(wire[c])[i - 1])
    BY <1>1
<1>3. StreamsOK'
    <2>1. wire' \in [Conns -> Seq(Ids)]
        BY <1>1, <1>2 DEF StreamsOK
    <2>2. ASSUME NEW d \in Conns, NEW i \in DOMAIN wire'[d] PROVE stored[wire'[d][i]] # "absent"
        <3>1. CASE d = c
            BY <1>1, <1>2, <2>2, <3>1 DEF StreamsOK
        <3>2. CASE d # c
            BY <1>1, <2>2, <3>2 DEF StreamsOK
        <3> QED
            BY <3>1, <3>2
    <2> QED
        BY <1>1, <2>1, <2>2 DEF StreamsOK
<1>4. /\ badge' \in [data : Nat \cup {Undefined}, fetch : (0 .. Cardinality(Ids)) \cup {Idle, Asked}]
      /\ badge'.fetch = badge.fetch
      /\ badge.data # Undefined => badge.data \in Nat /\ badge'.data = badge.data + 1
      /\ badge.data = Undefined => badge' = badge
    BY <1>1 DEF BadgeOK
<1>5. badge'.data # Undefined <=> badge.data # Undefined
    BY <1>4, BellMarks
<1>6. Missed' \subseteq Missed \cup {wire[c][1]}
    <2> SUFFICES ASSUME NEW n \in Missed', n \notin Missed PROVE n = wire[c][1]
        OBVIOUS
    <2>1. PICK i \in DOMAIN wire[es.cur] : wire[es.cur][i] = n
        BY <1>1 DEF Missed, Unread
    <2>2. \A j \in DOMAIN wire'[es.cur] : wire'[es.cur][j] # n
        BY <1>1 DEF Missed
    <2>3. es.cur = c
        BY <1>1, <2>1, <2>2 DEF StreamsOK, Runs
    <2>4. wire'[c] = Tail(wire[c])
        BY <1>1 DEF StreamsOK
    <2>5. \A j \in DOMAIN Tail(wire[c]) : Tail(wire[c])[j] # n
        BY <2>2, <2>3, <2>4
    <2>6. i \in DOMAIN wire[c] /\ wire[c][i] = n
        BY <2>1, <2>3
    <2> QED
        BY <1>2, <2>5, <2>6
<1>7. Cardinality(Missed') <= Cardinality(Missed) + 1 /\ Cardinality(Missed') \in Nat /\ Cardinality(Missed) \in Nat
    <2>1. Missed \in SUBSET Ids /\ Missed' \in SUBSET Ids
        BY DEF Missed, Unread
    <2>2. IsFiniteSet(Missed) /\ Cardinality(Missed) \in Nat /\ Cardinality(Missed') \in Nat
        BY <2>1, Counts
    <2>3. /\ IsFiniteSet(Missed \cup {wire[c][1]})
          /\ Cardinality(Missed \cup {wire[c][1]}) \in {Cardinality(Missed), Cardinality(Missed) + 1}
        BY <2>2, FS_AddElement
    <2>4. Cardinality(Missed') <= Cardinality(Missed \cup {wire[c][1]})
        BY <1>6, <2>3, FS_Subset
    <2>5. Cardinality(Missed \cup {wire[c][1]}) \in Nat
        BY <2>3, FS_CardinalityType
    <2> QED
        BY <2>2, <2>3, <2>4, <2>5
<1>8. conn'[es'.cur] = "listening" /\ badge'.fetch = Idle /\ ~blurred'
         => Cardinality(Missed') <= badge'.data
    <2> SUFFICES ASSUME conn'[es'.cur] = "listening", badge'.fetch = Idle, ~blurred'
                 PROVE  Cardinality(Missed') <= badge'.data
        OBVIOUS
    <2>1. badge.data # Undefined /\ Cardinality(Missed) <= badge.data
        BY <1>1, <1>4 DEF BadgeOK
    <2> QED
        BY <1>4, <1>7, <2>1
<1>9. Unread' = Unread
    BY <1>1 DEF Unread
<1> QED
    BY <1>1, <1>3, <1>4, <1>5, <1>8, <1>9 DEF BadgeOK

\* A notification is stored and pushed to every connection that is read, or will be.
LEMMA ArriveStep ==
    ASSUME StoredOK, StreamsOK, BadgeOK, NEW n \in Ids, Arrives(n)
    PROVE  StreamsOK' /\ BadgeOK'
<1>1. /\ stored[n] = "absent" /\ stored' = [stored EXCEPT ![n] = "unread"]
      /\ wire' = [c \in Conns |-> IF conn[c] \in {"opening", "listening"}
                                  THEN Append(wire[c], n) ELSE wire[c]]
      /\ blurred' = (blurred \/ badge.fetch \notin {Idle, Asked})
      /\ UNCHANGED <<conn, es, badge>>
    BY DEF Arrives
<1>2. \A k \in Ids : stored[k] # "absent" => stored'[k] # "absent"
    BY <1>1 DEF StoredOK
<1>3. stored'[n] = "unread" /\ Unread' = Unread \cup {n}
    BY <1>1 DEF StoredOK, Unread
<1>4. ASSUME NEW c \in Conns
      PROVE  /\ wire[c] \in Seq(Ids)
             /\ Append(wire[c], n) \in Seq(Ids)
             /\ \A i \in DOMAIN Append(wire[c], n) :
                    \/ Append(wire[c], n)[i] = n
                    \/ i \in DOMAIN wire[c] /\ Append(wire[c], n)[i] = wire[c][i]
             /\ \A i \in DOMAIN wire[c] : i \in DOMAIN Append(wire[c], n) /\ Append(wire[c], n)[i] = wire[c][i]
             /\ Len(wire[c]) + 1 \in DOMAIN Append(wire[c], n)
             /\ Append(wire[c], n)[Len(wire[c]) + 1] = n
    <2>1. wire[c] \in Seq(Ids)
        BY DEF StreamsOK
    <2> QED
        BY <2>1
<1>5. StreamsOK'
    <2>1. wire' \in [Conns -> Seq(Ids)]
        BY <1>1, <1>4
    <2>2. ASSUME NEW c \in Conns, NEW i \in DOMAIN wire'[c] PROVE stored'[wire'[c][i]] # "absent"
        <3>1. wire'[c][i] = n \/ (i \in DOMAIN wire[c] /\ wire'[c][i] = wire[c][i])
            BY <1>1, <1>4, <2>2
        <3>2. ASSUME i \in DOMAIN wire[c] PROVE stored'[wire[c][i]] # "absent"
            <4>1. wire[c][i] \in Ids /\ stored[wire[c][i]] # "absent"
                BY <1>4, <3>2 DEF StreamsOK
            <4> QED
                BY <1>2, <4>1
        <3> QED
            BY <1>3, <3>1, <3>2
    <2> QED
        BY <1>1, <2>1, <2>2 DEF StreamsOK
<1>6. ASSUME conn[es.cur] = "listening" PROVE Missed' \subseteq Missed
    <2>1. es.cur \in Conns
        BY DEF StreamsOK, Runs
    <2>2. wire'[es.cur] = Append(wire[es.cur], n)
        BY <1>1, <1>6, <2>1
    <2> SUFFICES ASSUME NEW k \in Missed' PROVE k \in Missed
        OBVIOUS
    <2>3. k \in Unread' /\ \A i \in DOMAIN wire'[es.cur] : wire'[es.cur][i] # k
        BY <1>1 DEF Missed
    <2>4. k # n
        BY <1>4, <2>1, <2>2, <2>3
    <2>5. \A i \in DOMAIN wire[es.cur] : wire[es.cur][i] # k
        BY <1>4, <2>1, <2>2, <2>3
    <2> QED
        BY <1>3, <2>3, <2>4, <2>5 DEF Missed
<1>7. conn'[es'.cur] = "listening" /\ badge'.fetch = Idle /\ ~blurred'
         => Cardinality(Missed') <= badge'.data
    <2> SUFFICES ASSUME conn[es.cur] = "listening", badge.fetch = Idle, ~blurred
                 PROVE  Cardinality(Missed') <= badge.data
        BY <1>1
    <2>1. badge.data \in Nat /\ Cardinality(Missed) <= badge.data
        BY DEF BadgeOK
    <2>2. Missed \in SUBSET Ids /\ Missed' \in SUBSET Missed
        BY <1>6 DEF Missed, Unread
    <2>3. Cardinality(Missed') <= Cardinality(Missed) /\ Cardinality(Missed') \in Nat /\ Cardinality(Missed) \in Nat
        BY <2>2, Counts
    <2> QED
        BY <2>1, <2>3
<1> QED
    BY <1>1, <1>5, <1>7 DEF BadgeOK

\* The count is back, or has failed: the streams that waited for it are read from now on.
LEMMA CountStep ==
    ASSUME StoredOK, StreamsOK, BadgeOK, BadgeAnswered \/ BadgeArrives \/ BadgeFails
    PROVE  StreamsOK' /\ BadgeOK'
<1>0. UNCHANGED stored /\ Unread' = Unread
    BY DEF BadgeAnswered, BadgeArrives, BadgeFails, Unread, server
<1>1. CASE BadgeAnswered
    <2>1. Cardinality(Unread) \in 0 .. Cardinality(Ids)
        BY Counts DEF Unread
    <2>2. badge' = [badge EXCEPT !.fetch = Cardinality(Unread)] /\ UNCHANGED <<conn, wire, es, blurred>>
        BY <1>1 DEF BadgeAnswered, stream
    <2>3. badge'.fetch = Cardinality(Unread) /\ Cardinality(Unread) # Idle /\ Cardinality(Unread) <= Cardinality(Unread)
        BY <2>1, <2>2, BellMarks DEF BadgeOK
    <2>4. badge' \in [data : Nat \cup {Undefined}, fetch : (0 .. Cardinality(Ids)) \cup {Idle, Asked}]
        BY <2>1, <2>2 DEF BadgeOK
    <2>5. BadgeOK'
        BY <1>0, <2>2, <2>3, <2>4 DEF BadgeOK
    <2>6. StreamsOK'
        BY <1>0, <2>2 DEF StreamsOK
    <2> QED
        BY <2>5, <2>6
<1>2. ASSUME OpenersGoOn
      PROVE  StreamsOK' /\ ~\E c \in Conns : conn'[c] \in {"opening", "aborted"}
    <2>1. StreamsOK'
        BY <1>0, <1>2 DEF OpenersGoOn, StreamsOK, ConnStates, Runs
    <2> QED
        BY <1>2, <2>1 DEF OpenersGoOn, StreamsOK, ConnStates
<1>3. CASE BadgeArrives
    <2>1. /\ badge.fetch \notin {Idle, Asked}
          /\ badge' = [badge EXCEPT !.data = badge.fetch, !.fetch = Idle]
          /\ OpenersGoOn /\ UNCHANGED blurred
        BY <1>3 DEF BadgeArrives
    <2>2. badge.fetch \in 0 .. Cardinality(Ids) /\ Cardinality(Ids) \in Nat
        BY <2>1, Counts DEF BadgeOK
    <2>3. badge.fetch \in Nat /\ badge.fetch # Undefined
        BY <2>2, BellMarks
    <2>4. badge' \in [data : Nat \cup {Undefined}, fetch : (0 .. Cardinality(Ids)) \cup {Idle, Asked}]
        BY <2>1, <2>3 DEF BadgeOK
    <2>5. badge'.data = badge.fetch /\ badge'.fetch = Idle
        BY <2>1 DEF BadgeOK
    <2>6. ~blurred => Cardinality(Missed') <= badge.fetch
        <3> SUFFICES ASSUME ~blurred PROVE Cardinality(Missed') <= badge.fetch
            OBVIOUS
        <3>1. Cardinality(Unread) <= badge.fetch
            BY <2>1 DEF BadgeOK
        <3>2. Missed' \in SUBSET Unread /\ Unread \in SUBSET Ids
            BY <1>0 DEF Missed, Unread
        <3>3. Cardinality(Missed') <= Cardinality(Unread) /\ Cardinality(Missed') \in Nat /\ Cardinality(Unread) \in Nat
            BY <3>2, Counts
        <3> QED
            BY <2>3, <3>1, <3>3
    <2>7. BadgeOK'
        BY <1>2, <2>1, <2>3, <2>4, <2>5, <2>6 DEF BadgeOK
    <2> QED
        BY <1>2, <2>1, <2>7
<1>4. CASE BadgeFails
    <2>1. badge' = [badge EXCEPT !.fetch = Idle] /\ blurred' = TRUE /\ OpenersGoOn
        BY <1>4 DEF BadgeFails
    <2>2. BadgeOK'
        BY <1>2, <2>1 DEF BadgeOK
    <2> QED
        BY <1>2, <2>1, <2>2
<1> QED
    BY <1>1, <1>3, <1>4

LEMMA BadgeStep ==
    ASSUME StoredOK, StreamsOK, BadgeOK, [Next]_vars
    PROVE  StreamsOK' /\ BadgeOK'
<1>0. Unread' \subseteq Unread \/ \E n \in Ids : Arrives(n)
    BY StoredStep
\* The streams and the badge are left alone; a row may change, but none goes.
<1>1. ASSUME UNCHANGED <<stream, badge, blurred>>, Unread' \subseteq Unread,
             \A n \in Ids : stored[n] # "absent" => stored'[n] # "absent"
      PROVE  StreamsOK' /\ BadgeOK'
    <2>1. Undisturbed
        BY <1>1 DEF Undisturbed, stream
    <2>2. BadgeOK'
        BY <1>1, <2>1, BadgeLeft
    <2>3. \A c \in Conns : \A i \in DOMAIN wire[c] : wire[c][i] \in Ids
        BY DEF StreamsOK
    <2>4. StreamsOK'
        BY <1>1, <2>3 DEF StreamsOK, stream
    <2> QED
        BY <2>2, <2>4
<1>2. ASSUME UNCHANGED <<stored, badge, blurred>>,
             \/ \E c \in Conns : Refused(c) \/ Drops(c) \/ Closes(c)
             \/ TimerFires \/ Hides \/ Shows \/ RefreshSucceeds \/ RefreshFails
      PROVE  StreamsOK' /\ BadgeOK'
    <2>1. StreamsOK' /\ Undisturbed
        BY <1>2, StreamStep
    <2>2. Unread' \subseteq Unread
        BY <1>2 DEF Unread
    <2> QED
        BY <1>2, <2>1, <2>2, BadgeLeft
<1>3. ASSUME NEW c \in Conns, Opens(c) PROVE StreamsOK' /\ BadgeOK'
    <2>1. conn' = [conn EXCEPT ![c] = "opening"] /\ RefetchBadge /\ UNCHANGED <<stored, wire, es>>
        BY <1>3 DEF Opens, OnOpen, server
    <2>2. StreamsOK'
        BY <2>1 DEF StreamsOK, ConnStates
    <2> QED
        BY <2>1, <2>2, Reloaded
<1>4. ASSUME RefetchBadge, UNCHANGED <<stored, stream>> PROVE StreamsOK' /\ BadgeOK'
    BY <1>4, Reloaded DEF StreamsOK, stream
<1>5. ASSUME NEW c \in Conns, Connection(c) \/ Drops(c) PROVE StreamsOK' /\ BadgeOK'
    <2>1. CASE Refused(c)
        BY <1>2, <2>1 DEF Refused, server, cache
    <2>2. CASE Closes(c)
        BY <1>2, <2>2 DEF Closes, server, cache
    <2>3. CASE Drops(c)
        BY <1>2, <2>3 DEF Drops, cache
    <2> QED
        BY <1>3, <1>5, <2>1, <2>2, <2>3, DeliverStep DEF Connection
<1>6. CASE TimerFires \/ Hides \/ Shows \/ RefreshSucceeds \/ RefreshFails
    BY <1>2, <1>6 DEF TimerFires, Hides, Shows, RefreshSucceeds, RefreshFails, server, cache
<1>7. ASSUME NEW n \in Ids, Arrives(n) PROVE StreamsOK' /\ BadgeOK'
    BY <1>7, ArriveStep
<1>8. CASE \E n \in Ids : Arrives(n)
    BY <1>7, <1>8
<1>9. CASE BadgeAnswered \/ BadgeArrives \/ BadgeFails
    BY <1>9, CountStep
<1>10. CASE Opened \/ MarkSucceeds
    BY <1>4, <1>10 DEF Opened, MarkSucceeds, server
<1>11. ASSUME NEW n \in Ids, ReadElsewhere(n) \/ MarkRead(n) PROVE StreamsOK' /\ BadgeOK'
    BY <1>0, <1>1, <1>8, <1>11, StoredStep DEF ReadElsewhere, MarkRead, cache
<1>12. CASE \/ Expires \/ RequestRefused \/ ListAnswered \/ ListArrives \/ ListFails
            \/ ListAges \/ Closed \/ MarkAllRead \/ MarkApplied \/ MarkFails \/ UNCHANGED vars
    BY <1>0, <1>1, <1>8, <1>12, StoredStep
    DEF Expires, RequestRefused, ListAnswered, ListArrives, ListFails, ListAges, Closed,
        MarkAllRead, MarkApplied, MarkFails, vars, cache, stream
<1> QED
    BY <1>5, <1>6, <1>7, <1>9, <1>10, <1>11, <1>12 DEF Next, Answers

-----------------------------------------------------------------------------
(* The list and the menu *)

Shown == (SUBSET Rows) \cup {Undefined}

Fetched == (SUBSET Rows) \cup {Idle, Asked}

\* The rows shown or answered are stored; what the tab is sure was read, in an open menu,
\* is read, and shows as unread neither in the list nor in the answer on its way, unless
\* the list is asked for again.
ListOK ==
    /\ list \in [data : Shown, fetch : Fetched, stale : BOOLEAN]
    /\ list.data # Undefined => \A r \in list.data : stored[r[1]] # "absent"
    /\ list.fetch \notin {Idle, Asked} => \A r \in list.fetch : stored[r[1]] # "absent"
    /\ told \in [Ids -> {"nothing", "claimed", "sure"}]
    /\ open \in BOOLEAN
    /\ \A n \in Ids : told[n] = "sure" =>
           /\ open /\ stored[n] = "read" /\ list.data # Undefined
           /\ list.fetch = Idle => <<n, FALSE>> \notin list.data
           /\ list.fetch \notin {Idle, Asked} => <<n, FALSE>> \notin list.fetch

PlainOK ==
    /\ token \in {"valid", "expired", "none"} /\ refreshing \in BOOLEAN
    /\ faults \in 0 .. MaxFaults /\ hidden \in BOOLEAN
    /\ mark \in {Idle} \cup [of : Ids \cup {"all"}, at : {"asked", "applied"}]

LEMMA ListParts ==
    ASSUME ListOK
    PROVE  /\ list = [data |-> list.data, fetch |-> list.fetch, stale |-> list.stale]
           /\ list.data \in Shown /\ list.fetch \in Fetched /\ list.stale \in BOOLEAN
           /\ list.data # Undefined => list.data \in SUBSET Rows
           /\ list.fetch \notin {Idle, Asked} => list.fetch \in SUBSET Rows
<1>1. list \in [data : Shown, fetch : Fetched, stale : BOOLEAN]
    BY DEF ListOK
<1>2. /\ list = [data |-> list.data, fetch |-> list.fetch, stale |-> list.stale]
      /\ list.data \in Shown /\ list.fetch \in Fetched /\ list.stale \in BOOLEAN
    BY <1>1
<1>3. list.data # Undefined => list.data \in SUBSET Rows
    BY <1>2, Zenon DEF Shown
<1>4. list.fetch \notin {Idle, Asked} => list.fetch \in SUBSET Rows
    BY <1>2, Zenon DEF Fetched
<1> QED
    BY <1>2, <1>3, <1>4

\* The list and what is known of it left alone.
LEMMA ListLeft ==
    ASSUME ListOK, UNCHANGED <<list, open, told>>,
           \A n \in Ids : stored[n] # "absent" => stored'[n] # "absent",
           \A n \in Ids : stored[n] = "read" => stored'[n] = "read"
    PROVE  ListOK'
<1>1. \A n \in Ids : \A b \in BOOLEAN : <<n, b>>[1] = n
    OBVIOUS
<1>2. \A r \in Rows : r[1] \in Ids
    BY DEF Rows
<1>3. list.data # Undefined => list.data \subseteq Rows
    BY ListParts
<1>4. list.fetch \notin {Idle, Asked} => list.fetch \subseteq Rows
    BY ListParts
<1>5. list.data # Undefined => \A r \in list.data : stored'[r[1]] # "absent"
    BY <1>2, <1>3 DEF ListOK
<1>6. list.fetch \notin {Idle, Asked} => \A r \in list.fetch : stored'[r[1]] # "absent"
    BY <1>2, <1>4 DEF ListOK
<1> QED
    BY <1>5, <1>6 DEF ListOK

LEMMA ListStep ==
    ASSUME StoredOK, StreamsOK, ListOK, [Next]_vars
    PROVE  ListOK'
<1>0. /\ list = [data |-> list.data, fetch |-> list.fetch, stale |-> list.stale]
      /\ list.data \in Shown /\ list.fetch \in Fetched /\ list.stale \in BOOLEAN
      /\ Idle \in Fetched /\ Asked \in Fetched
    <2>1. Idle \in Fetched /\ Asked \in Fetched
        BY Zenon DEF Fetched
    <2> QED
        BY <2>1, ListParts
<1>1. CASE UNCHANGED <<list, open, told>>
    BY <1>1, ListLeft, StoredStep
<1>2. ASSUME NEW c \in Conns, Delivers(c) PROVE ListOK'
    <2> DEFINE n == Head(wire[c])
    <2>1. wire[c] \in Seq(Ids) /\ wire[c] # <<>> /\ UNCHANGED <<stored, open>> /\ OnMessage(n)
        BY <1>2 DEF Delivers, OnMessage, StreamsOK, server
    <2>2. 1 \in DOMAIN wire[c] /\ wire[c][1] = n /\ n \in Ids
        BY <2>1
    <2>3. stored[n] # "absent"
        BY <2>2 DEF StreamsOK
    <2> HIDE DEF n
    <2>4. told' = [told EXCEPT ![n] = "nothing"]
          /\ list' = IF list.data = Undefined THEN list
                     ELSE [list EXCEPT !.data = @ \cup {<<n, FALSE>>}, !.stale = FALSE]
        BY <2>1 DEF OnMessage
    <2>5. CASE list.data = Undefined
        BY <2>1, <2>2, <2>4, <2>5 DEF ListOK
    <2>6. CASE list.data # Undefined
        <3>1. /\ list.data \in SUBSET Rows /\ <<n, FALSE>> \in Rows
              /\ list' = [data |-> list.data \cup {<<n, FALSE>>}, fetch |-> list.fetch, stale |-> FALSE]
            BY <2>2, <2>4, <2>6, <1>0, ListParts DEF Rows
        <3>2. list'.data \in SUBSET Rows /\ list'.data # Undefined /\ list'.fetch = list.fetch
            BY <3>1, BellMarks
        <3>3. \A r \in list'.data : stored[r[1]] # "absent"
            <4>1. \A r \in list.data : stored[r[1]] # "absent"
                BY <2>6 DEF ListOK
            <4>2. \A r \in list'.data : r \in list.data \/ r = <<n, FALSE>>
                BY <3>1
            <4>3. <<n, FALSE>>[1] = n
                OBVIOUS
            <4> QED
                BY <2>3, <4>1, <4>2, <4>3
        <3>4. told' \in [Ids -> {"nothing", "claimed", "sure"}]
            BY <2>2, <2>4 DEF ListOK
        <3>5. ASSUME NEW k \in Ids, told'[k] = "sure"
              PROVE  /\ open /\ stored[k] = "read" /\ told[k] = "sure"
                     /\ <<k, FALSE>> \in list'.data => <<k, FALSE>> \in list.data
            <4>1. k # n /\ told[k] = "sure"
                BY <2>2, <2>4, <3>5 DEF ListOK
            <4>2. <<k, FALSE>> # <<n, FALSE>>
                BY <4>1
            <4> QED
                BY <3>1, <4>1, <4>2 DEF ListOK
        <3>6. list' \in [data : Shown, fetch : Fetched, stale : BOOLEAN]
            BY <1>0, <3>1, <3>2 DEF Shown
        <3> QED
            BY <2>1, <3>2, <3>3, <3>4, <3>5, <3>6 DEF ListOK
    <2> QED
        BY <2>5, <2>6
<1>3. CASE ListAnswered
    <2> DEFINE rows == {<<n, stored[n] = "read">> : n \in {k \in Ids : stored[k] # "absent"}}
    <2>1. list.fetch = Asked /\ list' = [list EXCEPT !.fetch = rows] /\ UNCHANGED <<stored, open, told>>
        BY <1>3 DEF ListAnswered, server
    <2>2. rows \in SUBSET Rows
        <3>1. \A n \in Ids : <<n, stored[n] = "read">> \in Rows
            BY DEF Rows
        <3> QED
            BY <3>1
    <2>3. \A r \in rows : stored[r[1]] # "absent"
        OBVIOUS
    <2>4. \A n \in Ids : stored[n] = "read" => <<n, FALSE>> \notin rows
        OBVIOUS
    <2> HIDE DEF rows
    <2>5. rows \notin {Idle, Asked}
        BY <2>2, BellMarks
    <2>6. list' = [data |-> list.data, fetch |-> rows, stale |-> list.stale]
        BY <1>0, <2>1
    <2>7. list' \in [data : Shown, fetch : Fetched, stale : BOOLEAN]
        BY <1>0, <2>2, <2>6 DEF Fetched
    <2>8. list'.data = list.data /\ list'.fetch = rows
        BY <2>6
    <2> QED
        BY <2>1, <2>3, <2>4, <2>5, <2>7, <2>8 DEF ListOK
<1>4. CASE ListArrives
    <2>1. /\ list.fetch \notin {Idle, Asked} /\ UNCHANGED <<stored, open, told>>
          /\ list' = [data |-> list.fetch, fetch |-> Idle, stale |-> FALSE]
        BY <1>4 DEF ListArrives, server
    <2>2. list.fetch \in SUBSET Rows
        BY <2>1, ListParts
    <2>3. list.fetch # Undefined
        BY <2>2, BellMarks
    <2>4. list' \in [data : Shown, fetch : Fetched, stale : BOOLEAN]
        BY <1>0, <2>1, <2>2 DEF Shown
    <2>5. list'.data = list.fetch /\ list'.fetch = Idle
        BY <2>1
    <2> QED
        BY <2>1, <2>3, <2>4, <2>5 DEF ListOK
<1>5. CASE ListFails
    <2>1. /\ told' = [n \in Ids |-> "nothing"] /\ UNCHANGED <<stored, open>>
          /\ list' = [list EXCEPT !.fetch = Idle, !.stale = TRUE]
        BY <1>5 DEF ListFails
    <2>2. list' = [data |-> list.data, fetch |-> Idle, stale |-> TRUE]
        BY <1>0, <2>1
    <2>3. list' \in [data : Shown, fetch : Fetched, stale : BOOLEAN]
        BY <1>0, <2>2
    <2>4. list'.data = list.data /\ list'.fetch = Idle
        BY <2>2
    <2>5. told' \in [Ids -> {"nothing", "claimed", "sure"}] /\ \A n \in Ids : told'[n] # "sure"
        BY <2>1
    <2> QED
        BY <2>1, <2>3, <2>4, <2>5 DEF ListOK
<1>6. CASE ListAges
    <2>1. list' = [list EXCEPT !.stale = TRUE] /\ UNCHANGED <<stored, open, told>>
        BY <1>6 DEF ListAges, server
    <2> QED
        BY <2>1 DEF ListOK
<1>7. CASE Opened
    <2>1. /\ ~open /\ open' = TRUE /\ UNCHANGED <<stored, told>>
          /\ list' = list \/ list' = [list EXCEPT !.fetch = Asked]
        BY <1>7 DEF Opened, server
    <2>2. \A n \in Ids : told[n] # "sure"
        BY <2>1 DEF ListOK
    <2>3. list' = list \/ list' = [data |-> list.data, fetch |-> Asked, stale |-> list.stale]
        BY <1>0, <2>1
    <2>4. list' \in [data : Shown, fetch : Fetched, stale : BOOLEAN]
        BY <1>0, <2>3 DEF ListOK
    <2>5. list'.data = list.data /\ (list'.fetch = list.fetch \/ list'.fetch = Asked)
        BY <2>3
    <2> QED
        BY <2>1, <2>2, <2>4, <2>5 DEF ListOK
<1>8. CASE Closed
    <2>1. /\ open' = FALSE /\ UNCHANGED <<stored, list>>
          /\ told' = [n \in Ids |-> IF told[n] = "sure" THEN "claimed" ELSE told[n]]
        BY <1>8 DEF Closed, server
    <2>2. told' \in [Ids -> {"nothing", "claimed", "sure"}] /\ \A n \in Ids : told'[n] # "sure"
        BY <2>1 DEF ListOK
    <2> QED
        BY <2>1, <2>2 DEF ListOK
<1>9. CASE MarkSucceeds
    <2>1. /\ InvalidateList /\ UNCHANGED <<stored, open>>
          /\ told' = [n \in Ids |-> IF stored[n] # "read" \/ list.data = Undefined THEN told[n]
                                    ELSE IF open THEN "sure" ELSE "claimed"]
        BY <1>9 DEF MarkSucceeds, server
    <2>2. told' \in [Ids -> {"nothing", "claimed", "sure"}]
        BY <2>1 DEF ListOK
    <2>3. /\ list' \in [data : Shown, fetch : Fetched, stale : BOOLEAN]
          /\ list'.data = list.data /\ (list'.fetch = list.fetch \/ list'.fetch = Asked)
          /\ open /\ list.data # Undefined => list'.fetch = Asked
        <3>1. \/ list' = [data |-> list.data, fetch |-> Asked, stale |-> TRUE]
              \/ list' = [data |-> list.data, fetch |-> list.fetch, stale |-> TRUE] /\ (~open \/ list.data = Undefined)
            <4>1. CASE ~open
                BY <1>0, <2>1, <4>1 DEF InvalidateList
            <4>2. CASE open
                <5> DEFINE asked == [data |-> list.data, fetch |-> Asked, stale |-> list.stale]
                <5>1. list' = [Refetched(list) EXCEPT !.stale = TRUE]
                    BY <2>1, <4>2, Zenon DEF InvalidateList
                <5>2. Refetched(list) = asked \/ (Refetched(list) = list /\ list.data = Undefined)
                    BY <1>0 DEF Refetched
                <5>3. CASE Refetched(list) = asked
                    <6>1. list' = [asked EXCEPT !.stale = TRUE]
                        BY <5>1, <5>3
                    <6> QED
                        BY <6>1
                <5>4. CASE Refetched(list) = list /\ list.data = Undefined
                    <6>1. list' = [list EXCEPT !.stale = TRUE]
                        BY <5>1, <5>4
                    <6> QED
                        BY <1>0, <5>4, <6>1
                <5> QED
                    BY <5>2, <5>3, <5>4
            <4> QED
                BY <4>1, <4>2
        <3>2. PICK f \in {Asked, list.fetch} :
                  list' = [data |-> list.data, fetch |-> f, stale |-> TRUE]
                  /\ (open /\ list.data # Undefined => f = Asked)
            BY <3>1
        <3>3. list'.data = list.data /\ list'.fetch = f
            BY <3>2
        <3>4. f \in Fetched
            BY <1>0
        <3>5. list' \in [data : Shown, fetch : Fetched, stale : BOOLEAN]
            BY <1>0, <3>2, <3>4
        <3> QED
            BY <3>2, <3>3, <3>5
    <2>4. ASSUME NEW n \in Ids, told'[n] = "sure"
          PROVE  /\ open /\ stored[n] = "read" /\ list.data # Undefined
        BY <2>1, <2>4 DEF ListOK
    <2>5. ASSUME NEW n \in Ids, told'[n] = "sure" PROVE list'.fetch = Asked
        BY <2>3, <2>4, <2>5
    <2> QED
        BY <2>1, <2>2, <2>3, <2>4, <2>5, BellMarks DEF ListOK
<1> QED
    BY <1>1, <1>2, <1>3, <1>4, <1>5, <1>6, <1>7, <1>8, <1>9
    DEF Next, vars, cache, Connection, Answers, Opens, Refused, Closes, Drops, Arrives,
        ReadElsewhere, MarkRead, TimerFires, Hides, Shows, Expires, RequestRefused,
        RefreshSucceeds, RefreshFails, BadgeAnswered, BadgeArrives, BadgeFails, MarkAllRead,
        MarkApplied, MarkFails

LEMMA PlainStep ==
    ASSUME PlainOK, [Next]_vars
    PROVE  PlainOK'
<1> USE DEF PlainOK
<1>1. CASE MarkApplied
    <2>1. mark \in [of : Ids \cup {"all"}, at : {"asked", "applied"}]
        BY <1>1 DEF MarkApplied
    <2>2. mark' \in [of : Ids \cup {"all"}, at : {"asked", "applied"}]
        BY <1>1, <2>1 DEF MarkApplied
    <2> QED
        BY <1>1, <2>2 DEF MarkApplied
<1>2. ASSUME NEW n \in Ids, MarkRead(n) PROVE PlainOK'
    BY <1>2 DEF MarkRead, server
<1>3. CASE MarkAllRead
    BY <1>3 DEF MarkAllRead, server
<1>4. ASSUME mark' \in {mark, Idle}, token' \in {token, "valid", "expired", "none"}, refreshing' \in BOOLEAN,
             hidden' \in BOOLEAN, Fault \/ faults' = faults
      PROVE  PlainOK'
    <2>1. faults' \in 0 .. MaxFaults
        BY <1>4, BellConstants DEF Fault
    <2> QED
        BY <1>4, <2>1
<1>5. ASSUME NEW c \in Conns, Connection(c) \/ Drops(c) PROVE PlainOK'
    BY <1>4, <1>5
    DEF Connection, Drops, Opens, Refused, OnRefused, Closes, Delivers, OnMessage, server, cache
<1>6. ASSUME NEW n \in Ids, Arrives(n) \/ ReadElsewhere(n) PROVE PlainOK'
    BY <1>4, <1>6 DEF Arrives, ReadElsewhere, cache
<1>7. CASE TimerFires \/ Hides \/ Shows
    BY <1>4, <1>7 DEF TimerFires, Hides, Shows, server, cache
<1>8. CASE Expires \/ RequestRefused \/ RefreshSucceeds \/ RefreshFails
    BY <1>4, <1>8 DEF Expires, RequestRefused, RefreshSucceeds, RefreshFails, server, cache
<1>9. CASE Answers \/ BadgeFails \/ ListFails \/ ListAges \/ Opened \/ Closed
    BY <1>4, <1>9
    DEF Answers, BadgeAnswered, BadgeArrives, ListAnswered, ListArrives, BadgeFails, ListFails,
        ListAges, Opened, Closed, server
<1>10. CASE MarkSucceeds \/ MarkFails \/ UNCHANGED vars
    BY <1>4, <1>10 DEF MarkSucceeds, MarkFails, vars, server
<1> QED
    BY <1>1, <1>2, <1>3, <1>5, <1>6, <1>7, <1>8, <1>9, <1>10 DEF Next

-----------------------------------------------------------------------------
(* The theorems *)

BellInv == StoredOK /\ StreamsOK /\ BadgeOK /\ ListOK /\ PlainOK

\* Every behaviour keeps the inductive invariant.
THEOREM BellInvariance == Spec => []BellInv
<1>1. Init => BellInv
    <2> SUFFICES ASSUME Init PROVE BellInv
        OBVIOUS
    <2> USE DEF Init
    <2>1. StoredOK /\ PlainOK
        <3>1. 0 \in 0 .. MaxFaults
            BY BellConstants
        <3>2. StoredOK
            BY DEF StoredOK
        <3> QED
            BY <3>1, <3>2 DEF PlainOK
    <2>2. StreamsOK
        BY ConnsOrdered DEF StreamsOK, ConnStates, Runs
    <2>3. badge.data = Undefined /\ badge.fetch = Asked /\ Asked # Idle
        BY BellMarks
    <2>4. badge \in [data : Nat \cup {Undefined}, fetch : (0 .. Cardinality(Ids)) \cup {Idle, Asked}]
        OBVIOUS
    <2>5. BadgeOK
        BY <2>3, <2>4 DEF BadgeOK
    <2>6. Undefined \in Shown /\ Idle \in Fetched
        BY Zenon DEF Shown, Fetched
    <2>7. list \in [data : Shown, fetch : Fetched, stale : BOOLEAN] /\ list.data = Undefined /\ list.fetch = Idle
        BY <2>6
    <2>8. told \in [Ids -> {"nothing", "claimed", "sure"}] /\ \A n \in Ids : told[n] # "sure"
        OBVIOUS
    <2>9. ListOK
        BY <2>7, <2>8 DEF ListOK
    <2> QED
        BY <2>1, <2>2, <2>5, <2>9 DEF BellInv
<1>2. BellInv /\ [Next]_vars => BellInv'
    BY StoredStep, BadgeStep, ListStep, PlainStep DEF BellInv
<1> QED
    BY <1>1, <1>2, PTL DEF Spec

\* Whatever streams are cut, requests fail and tokens expire: a stream waits for the count
\* only while the count is under way, a disposed stream sets no timer, and neither the
\* streams nor the list hold a notification the service does not.
THEOREM BellTypeCorrect == Spec => []BellTypeOK
<1>1. BellInv => BellTypeOK
    <2> SUFFICES ASSUME BellInv PROVE BellTypeOK
        OBVIOUS
    <2> USE DEF BellInv
    <2>1. stored \in [Ids -> {"absent", "unread", "read"}]
        BY DEF StoredOK
    <2>2. /\ conn \in [Conns -> {"none", "asked", "opening", "listening", "aborted"}]
          /\ \A c \in Conns : \A i \in DOMAIN wire[c] : stored[wire[c][i]] # "absent"
          /\ es.cur \in Conns /\ (es.timer => es.attached)
        BY DEF StreamsOK, Runs, ConnStates
    <2>3. /\ (\E c \in Conns : conn[c] \in {"opening", "aborted"}) => badge.fetch # Idle
          /\ badge.data \in Nat \cup {Undefined}
          /\ badge.fetch \in (0 .. Cardinality(Ids)) \cup {Idle, Asked}
          /\ blurred \in BOOLEAN
        BY DEF BadgeOK
    <2>4. list.data # Undefined => \A r \in list.data : r \in Rows
        BY ListParts
    <2>5. /\ list.data # Undefined => \A r \in list.data : stored[r[1]] # "absent"
          /\ told \in [Ids -> {"nothing", "claimed", "sure"}] /\ open \in BOOLEAN
        BY DEF ListOK
    <2> QED
        BY <2>1, <2>2, <2>3, <2>4, <2>5 DEF BellTypeOK, PlainOK
<1> QED
    BY <1>1, BellInvariance, PTL

\* onopen reloads the count before the stream is read: from then on the badge counts every
\* unread notification but those the stream still carries, however many streams were cut
\* and whatever arrived in between.
THEOREM NothingMissed == Spec => []ListeningMissesNothing
<1>1. BellInv => ListeningMissesNothing
    <2> SUFFICES ASSUME BellInv, conn[es.cur] = "listening", badge.fetch = Idle, ~blurred
                 PROVE  Cardinality(Unread)
                          <= badge.data + Cardinality({i \in DOMAIN wire[es.cur] :
                                                         stored[wire[es.cur][i]] = "unread"})
        BY DEF ListeningMissesNothing
    <2> DEFINE w == wire[es.cur]
               read == {i \in DOMAIN w : w[i] \in Unread}
               carried == {n \in Unread : \E i \in DOMAIN w : w[i] = n}
    <2>1. badge.data \in Nat /\ Cardinality(Missed) <= badge.data
        BY DEF BellInv, BadgeOK
    <2>2. w \in Seq(Ids) /\ Unread \in SUBSET Ids
        BY DEF BellInv, StreamsOK, Runs, Unread
    <2>3. Missed = Unread \ carried
        BY DEF Missed
    <2>4. {i \in DOMAIN w : stored[w[i]] = "unread"} = read
        BY <2>2 DEF Unread
    <2>5. /\ Cardinality(Unread) \in Nat /\ Cardinality(read) \in Nat
          /\ IsFiniteSet(Unread \ carried)
          /\ Cardinality(Unread) <= Cardinality(Unread \ carried) + Cardinality(read)
        BY <2>2, WireCounts
    <2>6. Cardinality(Missed) \in Nat /\ Cardinality(Unread) <= Cardinality(Missed) + Cardinality(read)
        BY <2>3, <2>5, FS_CardinalityType
    <2> HIDE DEF read, carried
    <2>7. Cardinality(Unread) <= badge.data + Cardinality(read)
        BY <2>1, <2>5, <2>6
    <2> QED
        BY <2>4, <2>7
<1> QED
    BY <1>1, BellInvariance, PTL

\* onSuccess invalidates the list: whatever request was under way, an open menu never
\* shows as unread, once the list is back, what this tab has marked as read.
THEOREM MarksAreShown == Spec => []OpenListShowsMarks
<1>1. BellInv => OpenListShowsMarks
    BY DEF BellInv, ListOK, OpenListShowsMarks
<1> QED
    BY <1>1, BellInvariance, PTL

=============================================================================
