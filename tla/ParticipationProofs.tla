------------------------ MODULE ParticipationProofs ------------------------
(* Proofs about Participation, for every value of its constants. *)
EXTENDS Participation, FiniteSetTheorems, TLAPS

-----------------------------------------------------------------------------
(* Types *)

\* The rows a transition writes are rows.
LEMMA TransitionRows ==
    /\ JoinedRow \in Rows /\ NoRow \in Rows /\ EarlierRows \subseteq Rows
    /\ \A op \in {"ACCEPT", "REJECT", "CANCEL"} : Transition[op].to \in Rows
<1>1. JoinedRow \in Rows /\ NoRow \in Rows
    BY DEF JoinedRow, NoRow, Row, Rows, ParticipationStatus
<1>2. \A op \in {"ACCEPT", "REJECT", "CANCEL"} : Transition[op].to \in Rows
    <2>1. /\ Transition["ACCEPT"].to = Row("ACCEPTED", TRUE, FALSE)
          /\ Transition["REJECT"].to = Row("REJECTED", TRUE, FALSE)
          /\ Transition["CANCEL"].to = Row("CANCELLED", FALSE, TRUE)
        BY DEF Transition
    <2>2. \A st \in ParticipationStatus, d, k \in BOOLEAN : Row(st, d, k) \in Rows
        BY DEF Row, Rows
    <2> QED BY <2>1, <2>2 DEF ParticipationStatus
<1>3. DOMAIN Transition = {"ACCEPT", "REJECT", "CANCEL"}
    BY DEF Transition
<1> QED BY <1>1, <1>2, <1>3 DEF EarlierRows

\* A request whose transaction is open made one of the four calls.
LEMMA CallFields ==
    ASSUME NEW c \in Calls
    PROVE  /\ c.op \in {"JOIN", "ACCEPT", "REJECT", "CANCEL"}
           /\ c.actor \in Users /\ c.user \in Users /\ c.slot \in Slots
BY DEF Calls

\* The table of transitions, entry by entry.
LEMMA TransitionTable ==
    /\ Transition["ACCEPT"].from = {"PENDING"}
    /\ Transition["REJECT"].from = {"PENDING"}
    /\ Transition["CANCEL"].from = {"PENDING", "ACCEPTED"}
    /\ Transition["ACCEPT"].to.status = "ACCEPTED"
    /\ Transition["REJECT"].to.status = "REJECTED"
    /\ Transition["CANCEL"].to.status = "CANCELLED"
BY DEF Transition, Row

\* The number of accepted participations is a number.
LEMMA AcceptedType == \A rows : Accepted(rows) \in Nat
<1> TAKE rows
<1>1. IsFiniteSet({u \in Users : rows[u].status = "ACCEPTED"})
    BY UsersAssumption, FS_Subset
<1> QED BY <1>1, FS_CardinalityType DEF Accepted

\* No step takes a variable out of its type.
LEMMA TypeStep == ASSUME TypeOK, [Next]_vars PROVE TypeOK'
<1> USE DEF TypeOK
<1>1. ASSUME NEW r \in Requests, NEW c \in Calls, Open(r, c)
      PROVE  TypeOK'
    <2>1. Current(c.slot) \in Snapshots
        BY CallFields DEF Current, Snapshots
    <2> QED BY <1>1, <2>1 DEF Open
<1>2. ASSUME NEW R \in SUBSET Requests, Finish(R)
      PROVE  TypeOK'
    BY <1>2 DEF Finish
<1>3. ASSUME NEW r \in Requests, CreateCommits(r)
      PROVE  TypeOK'
    <2>1. pc[r] = "open" /\ call[r] \in Calls
        BY <1>3 DEF CreateCommits, Commit
    <2>2. participation' \in [Slots -> [Users -> Rows]]
        BY <1>3, <2>1, TransitionRows, CallFields DEF CreateCommits
    <2> QED BY <1>3, <2>2 DEF CreateCommits, Commit
<1>4. ASSUME NEW r \in Requests, TransitionCommits(r)
      PROVE  TypeOK'
    <2>1. pc[r] = "open" /\ call[r] \in Calls /\ snap[r] \in Snapshots
        BY <1>4 DEF TransitionCommits, Commit
    <2>2. call[r].op \in {"ACCEPT", "REJECT", "CANCEL"}
        BY <1>4, <2>1, CallFields DEF TransitionCommits
    <2>3. participation' \in [Slots -> [Users -> Rows]]
        BY <1>4, <2>1, <2>2, TransitionRows, CallFields DEF TransitionCommits
    <2>4. SlotAfterSync(r) \in [Slots -> SlotRows]
        <3>1. snap[r].slot \in SlotRows
            BY <2>1 DEF Snapshots
        <3>2. SyncedStatus(snap[r].slot, OwnView(r)) \in SlotStatus \cup {"GONE"}
            BY <3>1 DEF SyncedStatus, SlotStatus, SlotRows
        <3>3. ASSUME NEW s \in Slots, NEW st \in SlotStatus \cup {"GONE"}
              PROVE  [slot EXCEPT ![s].status = st] \in [Slots -> SlotRows]
            BY <3>3 DEF SlotRows
        <3> QED BY <2>1, <3>2, <3>3, CallFields DEF SlotAfterSync
    <2> QED BY <1>4, <2>3, <2>4 DEF TransitionCommits, Commit
<1>5. ASSUME NEW s \in Slots, NEW row \in SlotRows, SlotUpdate(s, row)
      PROVE  TypeOK'
    BY <1>5 DEF SlotUpdate
<1>6. ASSUME NEW s \in Slots, SlotRemove(s)
      PROVE  TypeOK'
    <2>1. slot' \in [Slots -> SlotRows]
        BY <1>6 DEF SlotRemove, SlotRows
    <2>2. participation' \in [Slots -> [Users -> Rows]]
        BY <1>6, TransitionRows DEF SlotRemove
    <2> QED BY <1>6, <2>1, <2>2 DEF SlotRemove
<1>7. CASE UNCHANGED vars
    BY <1>7 DEF vars
<1> QED BY <1>1, <1>2, <1>3, <1>4, <1>5, <1>6, <1>7
        DEF Next, CreateReads, TransitionReads, TransactionFails, Publish, Crash, Running

\* Every variable keeps its type, and an open transaction has its call and its snapshot.
THEOREM TypeCorrect == Spec => []TypeOK
<1>1. Init => TypeOK
    <2> SUFFICES ASSUME Init PROVE TypeOK OBVIOUS
    <2>1. participation \in [Slots -> [Users -> Rows]]
        BY TransitionRows DEF Init
    <2>2. slot \in [Slots -> SlotRows]
        BY DEF Init, SlotRows
    <2> QED BY <2>1, <2>2 DEF Init, TypeOK
<1>2. TypeOK /\ [Next]_vars => TypeOK'
    BY TypeStep
<1> QED BY <1>1, <1>2, PTL DEF Spec

-----------------------------------------------------------------------------
(* What every open transaction has behind it *)

\* The guards passed on the snapshot that is still the transaction's.
GuardsHeld ==
    \A r \in Requests : pc[r] = "open" =>
        IF call[r].op = "JOIN" THEN CanJoin(call[r], snap[r])
                               ELSE CanTransition(call[r], snap[r])

\* A request that becomes committed does so by one of the two commits, its own.
LEMMA CommitCases ==
    ASSUME TypeOK, [Next]_vars, NEW r \in Requests, Commits(r)
    PROVE  CreateCommits(r) \/ TransitionCommits(r)
<1> USE DEF TypeOK, Commits
<1>1. ASSUME NEW x \in Requests, NEW c \in Calls, Open(x, c) PROVE FALSE
    BY <1>1 DEF Open
<1>2. ASSUME NEW R \in SUBSET Requests, Finish(R) PROVE FALSE
    BY <1>2 DEF Finish
<1>3. ASSUME NEW x \in Requests, CreateCommits(x) \/ TransitionCommits(x) PROVE x = r
    BY <1>3 DEF CreateCommits, TransitionCommits, Commit
<1>4. ASSUME NEW s \in Slots, SlotRemove(s) \/ \E row \in SlotRows : SlotUpdate(s, row)
      PROVE  FALSE
    BY <1>4 DEF SlotUpdate, SlotRemove
<1>5. CASE UNCHANGED vars
    BY <1>5 DEF vars
<1> QED BY <1>1, <1>2, <1>3, <1>4, <1>5
        DEF Next, CreateReads, TransitionReads, TransactionFails, Publish, Crash, Running

\* A guard that passed stays passed: it speaks of the snapshot, not of the rows.
LEMMA GuardsStayHeld == TypeOK /\ GuardsHeld /\ [Next]_vars => GuardsHeld'
<1> SUFFICES ASSUME TypeOK, GuardsHeld, [Next]_vars PROVE GuardsHeld' OBVIOUS
<1> USE DEF TypeOK, GuardsHeld
<1>1. ASSUME NEW x \in Requests, NEW c \in Calls, CreateReads(x, c) \/ TransitionReads(x, c)
      PROVE  GuardsHeld'
    <2>1. /\ pc' = [pc EXCEPT ![x] = "open"]
          /\ call' = [call EXCEPT ![x] = c]
          /\ snap' = [snap EXCEPT ![x] = Current(c.slot)]
        BY <1>1 DEF CreateReads, TransitionReads, Open
    <2>2. IF c.op = "JOIN" THEN CanJoin(c, Current(c.slot))
                           ELSE CanTransition(c, Current(c.slot))
        BY <1>1 DEF CreateReads, TransitionReads
    <2> SUFFICES ASSUME NEW r \in Requests, pc'[r] = "open"
                 PROVE  IF call'[r].op = "JOIN" THEN CanJoin(call'[r], snap'[r])
                                                ELSE CanTransition(call'[r], snap'[r])
        BY DEF CanJoin, CanTransition, MayAct, Accepted
    <2>3. CASE r = x
        BY <2>1, <2>2, <2>3
    <2>4. CASE r # x
        BY <2>1, <2>4
    <2> QED BY <2>3, <2>4
<1>2. ASSUME \A r \in Requests : pc'[r] = "open" =>
                pc[r] = "open" /\ call'[r] = call[r] /\ snap'[r] = snap[r]
      PROVE  GuardsHeld'
    <2> SUFFICES ASSUME NEW r \in Requests, pc'[r] = "open"
                 PROVE  IF call'[r].op = "JOIN" THEN CanJoin(call'[r], snap'[r])
                                                ELSE CanTransition(call'[r], snap'[r])
        BY DEF CanJoin, CanTransition, MayAct, Accepted
    <2> QED BY <1>2
<1>3. ASSUME NEW R \in SUBSET Requests, Finish(R) PROVE GuardsHeld'
    BY <1>2, <1>3 DEF Finish
<1>4. ASSUME NEW x \in Requests, CreateCommits(x) \/ TransitionCommits(x)
      PROVE  GuardsHeld'
    BY <1>2, <1>4 DEF CreateCommits, TransitionCommits, Commit
<1>5. ASSUME NEW s \in Slots, SlotRemove(s) \/ \E row \in SlotRows : SlotUpdate(s, row)
      PROVE  GuardsHeld'
    BY <1>2, <1>5 DEF SlotUpdate, SlotRemove
<1>6. CASE UNCHANGED vars
    BY <1>2, <1>6 DEF vars
<1> QED BY <1>1, <1>3, <1>4, <1>5, <1>6
        DEF Next, TransactionFails, Publish, Crash, Running

\* The guards of an open transaction hold of its snapshot, in every reachable state.
THEOREM GuardsAlwaysHeld == Spec => []GuardsHeld
<1>1. Init => GuardsHeld
    BY DEF Init, GuardsHeld
<1> QED BY <1>1, GuardsStayHeld, TypeCorrect, PTL DEF Spec

-----------------------------------------------------------------------------
(* Safety under any overlap of transactions *)

\* Whatever overlaps, a row's dates agree with its status: each write sets the three.
THEOREM DatesAlwaysMatch == Spec => []DatesMatchStatus
<1>1. Init => DatesMatchStatus
    BY DEF Init, EarlierRows, NoRow, JoinedRow, Transition, Row, DatesMatchStatus
<1>2. TypeOK /\ DatesMatchStatus /\ [Next]_vars => DatesMatchStatus'
    <2> SUFFICES ASSUME TypeOK, DatesMatchStatus, [Next]_vars PROVE DatesMatchStatus'
        OBVIOUS
    <2> USE DEF TypeOK, DatesMatchStatus
    <2>1. ASSUME NEW r \in Requests, CreateCommits(r) PROVE DatesMatchStatus'
        <3>1. call[r] \in Calls
            BY <2>1 DEF CreateCommits, Commit
        <3> QED BY <2>1, <3>1, CallFields DEF CreateCommits, JoinedRow, Row
    <2>2. ASSUME NEW r \in Requests, TransitionCommits(r) PROVE DatesMatchStatus'
        <3>1. call[r] \in Calls /\ call[r].op # "JOIN"
            BY <2>2 DEF TransitionCommits, Commit
        <3>2. LET row == Transition[call[r].op].to IN
              /\ row.decision_at <=> row.status \in {"ACCEPTED", "REJECTED"}
              /\ row.cancelled_at <=> row.status = "CANCELLED"
            BY <3>1, CallFields DEF Transition, Row
        <3> QED BY <2>2, <3>1, <3>2, CallFields DEF TransitionCommits
    <2>3. ASSUME NEW s \in Slots, SlotRemove(s) PROVE DatesMatchStatus'
        BY <2>3 DEF SlotRemove, NoRow, Row
    <2>4. CASE UNCHANGED participation
        BY <2>4
    <2> QED BY <2>1, <2>2, <2>3, <2>4
            DEF Next, vars, CreateReads, TransitionReads, Open, TransactionFails, Publish,
                Crash, Finish, SlotUpdate
<1> QED BY <1>1, <1>2, TypeCorrect, PTL DEF Spec

\* The row a commit writes.
Written(c) == IF c.op = "JOIN" THEN JoinedRow ELSE Transition[c.op].to

\* A commit writes its own row and no other.
LEMMA CommitWrites ==
    ASSUME TypeOK, [Next]_vars, NEW r \in Requests, Commits(r)
    PROVE  /\ call[r] \in Calls /\ snap[r] \in Snapshots
           /\ call[r].slot \in Slots /\ call[r].user \in Users
           /\ participation'[call[r].slot][call[r].user] = Written(call[r])
           /\ \A s \in Slots, u \in Users : s # call[r].slot \/ u # call[r].user
                => participation'[s][u] = participation[s][u]
<1>1. call[r] \in Calls /\ snap[r] \in Snapshots
    BY DEF TypeOK, Commits
<1>2. call[r].slot \in Slots /\ call[r].user \in Users
    BY <1>1, CallFields
<1>3. participation' =
        [participation EXCEPT ![call[r].slot][call[r].user] = Written(call[r])]
    BY CommitCases DEF CreateCommits, TransitionCommits, Written
<1>4. participation \in [Slots -> [Users -> Rows]]
    BY DEF TypeOK
<1> QED BY <1>1, <1>2, <1>3, <1>4

\* A row that a commit writes was still as read if it was not there when it was read: the
\* unique key refuses the second of two first requests.
LEMMA FirstIsFirst ==
    ASSUME TypeOK, GuardsHeld, [Next]_vars, NEW r \in Requests, Commits(r),
           snap[r].rows[call[r].user].status = "NONE"
    PROVE  /\ call[r].op = "JOIN"
           /\ participation[call[r].slot][call[r].user].status = "NONE"
<1>1. call[r] \in Calls /\ pc[r] = "open"
    BY CommitWrites DEF Commits
<1>2. participation[call[r].slot][call[r].user].status = "NONE"
    BY CommitCases DEF CreateCommits, TransitionCommits, Writable
<1>3. ASSUME call[r].op # "JOIN" PROVE FALSE
    <2>1. "NONE" \in Transition[call[r].op].from
        BY <1>1, <1>3 DEF GuardsHeld, CanTransition
    <2> QED BY <1>1, <1>3, <2>1, CallFields, TransitionTable
<1> QED BY <1>2, <1>3

\* As long as nobody wrote the row between guard and write, or it was not there to read, it
\* follows the lifecycle.
THEOREM FreshCommitFollowsLifecycleHolds == Spec => FreshCommitFollowsLifecycle
<1>1. TypeOK /\ GuardsHeld /\ [Next]_vars =>
        [\A r \in Requests :
            LET s == call[r].slot
                u == call[r].user
                read == snap[r].rows[u]
            IN  (Commits(r) /\ (read = participation[s][u] \/ read.status = "NONE"))
                    => <<participation[s][u].status, participation'[s][u].status>>
                            \in AllowedChanges]_vars
    <2> SUFFICES ASSUME TypeOK, GuardsHeld, [Next]_vars, NEW r \in Requests, Commits(r),
                        \/ snap[r].rows[call[r].user]
                                = participation[call[r].slot][call[r].user]
                        \/ snap[r].rows[call[r].user].status = "NONE"
                 PROVE  <<participation[call[r].slot][call[r].user].status,
                          participation'[call[r].slot][call[r].user].status>>
                            \in AllowedChanges
        OBVIOUS
    <2> DEFINE c == call[r]
               old == participation[c.slot][c.user].status
               new == participation'[c.slot][c.user].status
    <2>1. c \in Calls /\ c.slot \in Slots /\ c.user \in Users
        BY CommitWrites, CallFields
    <2>2. pc[r] = "open"
        BY DEF Commits
    <2>3. old = snap[r].rows[c.user].status
        BY FirstIsFirst
    <2>4. CASE c.op = "JOIN"
        <3>1. old \in {"NONE", "CANCELLED"}
            BY <2>2, <2>3, <2>4 DEF GuardsHeld, CanJoin
        <3>2. new = "PENDING"
            BY <2>4, CommitWrites DEF Written, JoinedRow, Row
        <3> QED BY <3>1, <3>2 DEF AllowedChanges
    <2>5. CASE c.op # "JOIN"
        <3>1. old \in Transition[c.op].from
            BY <2>2, <2>3, <2>5 DEF GuardsHeld, CanTransition
        <3>2. new = Transition[c.op].to.status
            BY <2>5, CommitWrites DEF Written
        <3>3. c.op \in {"ACCEPT", "REJECT", "CANCEL"}
            BY <2>1, <2>5, CallFields
        <3> QED BY <3>1, <3>2, <3>3 DEF AllowedChanges, Transition, Row
    <2> QED BY <2>4, <2>5
<1> QED BY <1>1, TypeCorrect, GuardsAlwaysHeld, PTL DEF Spec, FreshCommitFollowsLifecycle

\* A row changes only by its own request, made by one of its two parties.
THEOREM OnlyPartiesChangeRowsHolds == Spec => OnlyPartiesChangeRows
<1>1. TypeOK /\ GuardsHeld /\ [Next]_vars =>
        [\A s \in Slots, u \in Users :
            (participation'[s][u] # participation[s][u] /\ slot'[s].status # "GONE")
                => \E r \in Requests :
                    LET c == call[r]
                        new == participation'[s][u].status
                    IN  /\ Commits(r) /\ c.slot = s /\ c.user = u
                        /\ c.actor \in {u, OrganizerOf[s]}
                        /\ new \in {"ACCEPTED", "REJECTED"} => c.actor = OrganizerOf[s]
                        /\ new = "PENDING" => c.actor = u]_vars
    <2> SUFFICES ASSUME TypeOK, GuardsHeld, [Next]_vars, NEW s \in Slots, NEW u \in Users,
                        participation'[s][u] # participation[s][u],
                        slot'[s].status # "GONE"
                 PROVE  \E r \in Requests :
                            LET c == call[r]
                                new == participation'[s][u].status
                            IN  /\ Commits(r) /\ c.slot = s /\ c.user = u
                                /\ c.actor \in {u, OrganizerOf[s]}
                                /\ new \in {"ACCEPTED", "REJECTED"}
                                        => c.actor = OrganizerOf[s]
                                /\ new = "PENDING" => c.actor = u
        OBVIOUS
    <2>1. ASSUME NEW x \in Slots, SlotRemove(x) PROVE FALSE
        <3>1. x # s
            BY <2>1 DEF SlotRemove, TypeOK, SlotRows
        <3> QED BY <2>1, <3>1 DEF SlotRemove, TypeOK
    <2>2. ~UNCHANGED participation
        OBVIOUS
    <2>3. PICK r \in Requests : CreateCommits(r) \/ TransitionCommits(r)
        BY <2>1, <2>2 DEF Next, vars, CreateReads, TransitionReads, Open,
            TransactionFails, Publish, Crash, Finish, SlotUpdate
    <2>4. Commits(r)
        BY <2>3 DEF CreateCommits, TransitionCommits, Commit, Commits, TypeOK
    <2>5. call[r].slot = s /\ call[r].user = u /\ call[r] \in Calls
        BY <2>4, CommitWrites
    <2>6. participation'[s][u] = Written(call[r])
        BY <2>4, <2>5, CommitWrites
    <2>7. CASE call[r].op = "JOIN"
        <3>1. call[r].actor = u
            BY <2>4, <2>5, <2>7 DEF GuardsHeld, CanJoin, Commits
        <3>2. participation'[s][u].status = "PENDING"
            BY <2>6, <2>7 DEF Written, JoinedRow, Row
        <3> QED BY <2>4, <2>5, <3>1, <3>2
    <2>8. CASE call[r].op # "JOIN"
        <3>1. MayAct(call[r])
            BY <2>4, <2>8 DEF GuardsHeld, CanTransition, Commits
        <3>2. participation'[s][u].status = Transition[call[r].op].to.status
            BY <2>6, <2>8 DEF Written
        <3>3. CASE call[r].op = "CANCEL"
            <4>1. participation'[s][u].status = "CANCELLED"
                BY <3>2, <3>3 DEF Transition, Row
            <4> QED BY <2>4, <2>5, <3>1, <4>1 DEF MayAct
        <3>4. CASE call[r].op \in {"ACCEPT", "REJECT"}
            <4>1. participation'[s][u].status \in {"ACCEPTED", "REJECTED"}
                BY <3>2, <3>4 DEF Transition, Row
            <4>2. call[r].actor = OrganizerOf[s]
                BY <2>5, <3>1, <3>4 DEF MayAct
            <4> QED BY <2>4, <2>5, <4>1, <4>2
        <3> QED BY <2>5, <2>8, <3>3, <3>4, CallFields
    <2> QED BY <2>7, <2>8
<1> QED BY <1>1, TypeCorrect, GuardsAlwaysHeld, PTL DEF Spec, OnlyPartiesChangeRows

\* A transaction counts after its own write what the committed rows will hold, as long as
\* the others are accepted as it read them.
LEMMA PlacesView ==
    ASSUME TypeOK, [Next]_vars, NEW r \in Requests, Commits(r), call[r].op # "JOIN",
           PlacesAsRead(r)
    PROVE  /\ Accepted(OwnView(r)) = Accepted(participation'[call[r].slot])
           /\ slot' = SlotAfterSync(r)
           /\ snap[r].slot = slot[call[r].slot]
<1>1. TransitionCommits(r)
    BY CommitCases DEF CreateCommits
<1>2. call[r].slot \in Slots /\ call[r].user \in Users /\ snap[r].rows \in [Users -> Rows]
    BY CommitWrites DEF Snapshots
<1>3. \A u \in Users : OwnView(r)[u].status = "ACCEPTED"
                        <=> participation'[call[r].slot][u].status = "ACCEPTED"
    <2> SUFFICES ASSUME NEW u \in Users
                 PROVE  OwnView(r)[u].status = "ACCEPTED"
                        <=> participation'[call[r].slot][u].status = "ACCEPTED"
        OBVIOUS
    <2>1. OwnView(r)[u] = IF u = call[r].user THEN Transition[call[r].op].to
                                              ELSE snap[r].rows[u]
        BY <1>2 DEF OwnView
    <2>2. participation'[call[r].slot][u]
            = IF u = call[r].user THEN Transition[call[r].op].to
                                  ELSE participation[call[r].slot][u]
        BY <1>1, <1>2 DEF TransitionCommits, TypeOK
    <2> QED BY <2>1, <2>2 DEF PlacesAsRead
<1>4. {u \in Users : OwnView(r)[u].status = "ACCEPTED"}
        = {u \in Users : participation'[call[r].slot][u].status = "ACCEPTED"}
    BY <1>3
<1> HIDE DEF OwnView
<1> QED BY <1>1, <1>4 DEF Accepted, TransitionCommits, PlacesAsRead

\* An accept or cancel leaves the slot's status exact unless what overlapped it changed
\* the slot or who else is accepted.
THEOREM SyncIsExactHolds == Spec => SyncIsExact
<1>1. TypeOK /\ [Next]_vars =>
        [\A r \in Requests :
            LET s == call[r].slot IN
            (Commits(r) /\ call[r].op \in {"ACCEPT", "CANCEL"} /\ PlacesAsRead(r))
                => /\ SlotExact(s)'
                   /\ slot[s].status \in {"CLOSED", "CANCELLED"} => slot' = slot]_vars
    <2> SUFFICES ASSUME TypeOK, [Next]_vars, NEW r \in Requests, Commits(r),
                        call[r].op \in {"ACCEPT", "CANCEL"}, PlacesAsRead(r)
                 PROVE  /\ SlotExact(call[r].slot)'
                        /\ slot[call[r].slot].status \in {"CLOSED", "CANCELLED"}
                                => slot' = slot
        OBVIOUS
    <2> DEFINE s == call[r].slot
               new == SyncedStatus(slot[s], participation'[s])
    <2>1. s \in Slots /\ slot[s] \in SlotRows /\ slot \in [Slots -> SlotRows]
        BY CommitWrites DEF TypeOK
    <2>2. slot' = IF new = slot[s].status THEN slot ELSE [slot EXCEPT ![s].status = new]
        BY PlacesView DEF SlotAfterSync, SyncedStatus
    <2>3. /\ slot'[s].status = new
          /\ slot'[s].max_participant = slot[s].max_participant
        BY <2>1, <2>2 DEF SlotRows
    <2>0. call' = call
        BY CommitCases DEF CreateCommits, TransitionCommits, Commit
    <2>4. CASE slot[s].status \in {"CLOSED", "CANCELLED"}
        <3>1. new = slot[s].status
            BY <2>4 DEF SyncedStatus
        <3>2. slot' = slot
            BY <2>2, <3>1
        <3> QED BY <2>0, <2>4, <3>2 DEF SlotExact
    <2>5. CASE slot[s].status \notin {"CLOSED", "CANCELLED"}
        <3>1. new = IF Accepted(participation'[s]) >= slot[s].max_participant
                    THEN "FULL" ELSE "OPEN"
            BY <2>5 DEF SyncedStatus
        <3>2. new \in {"OPEN", "FULL"}
            BY <3>1
        <3>3. new = "FULL" <=> Accepted(participation'[s]) >= slot[s].max_participant
            BY <3>1
        <3>4. SlotExact(call[r].slot)'
            BY <2>0, <2>3, <3>2, <3>3 DEF SlotExact, Accepted
        <3> QED BY <2>5, <3>4
    <2> QED BY <2>4, <2>5
<1> QED BY <1>1, TypeCorrect, PTL DEF Spec, SyncIsExact

-----------------------------------------------------------------------------
(* Calls nobody overtook are calls served one at a time *)

\* The statuses after a commit are the statuses before it with one changed.
LEMMA StatusesAfterCommit ==
    ASSUME TypeOK, [Next]_vars, NEW r \in Requests, Commits(r)
    PROVE  Statuses' = [Statuses EXCEPT
                ![call[r].slot][call[r].user] = Written(call[r]).status]
<1> DEFINE s == call[r].slot
           u == call[r].user
           new == Written(call[r]).status
           F == Statuses
           G == Statuses'
<1>1. s \in Slots /\ u \in Users
    BY CommitWrites
<1>2. /\ F = [x \in Slots |-> F[x]]
      /\ G = [x \in Slots |-> G[x]]
      /\ \A x \in Slots : F[x] = [y \in Users |-> participation[x][y].status]
      /\ \A x \in Slots : G[x] = [y \in Users |-> participation'[x][y].status]
    BY DEF Statuses
<1>3. ASSUME NEW x \in Slots, x # s
      PROVE  G[x] = F[x]
    <2>1. \A y \in Users : participation'[x][y] = participation[x][y]
        BY <1>3, CommitWrites
    <2> HIDE DEF F, G
    <2> QED BY <1>2, <2>1
<1>4. \A y \in Users : participation'[s][y].status
                        = IF y = u THEN new ELSE participation[s][y].status
    BY <1>1, CommitWrites
<1> HIDE DEF s, u, new, F, G
<1>5. G[s] = [F[s] EXCEPT ![u] = new]
    BY <1>1, <1>2, <1>4
<1>6. [F EXCEPT ![s] = G[s]] = [x \in Slots |-> IF x = s THEN G[s] ELSE F[x]]
    BY <1>2
<1>7. G = [F EXCEPT ![s] = G[s]]
    BY <1>2, <1>3, <1>6
<1>8. G = [F EXCEPT ![s] = [F[s] EXCEPT ![u] = new]]
    BY <1>5, <1>7
<1> QED BY <1>8 DEF s, u, new, F, G

\* A slot is full for ParticipationLifecycle when the accepted rows reach its places.
LEMMA FullIsCounted ==
    ASSUME NEW s \in Slots, NEW st, NEW rows, \A u \in Users : st[u] = rows[u].status
    PROVE  Lifecycle!Full(s, st) <=> Accepted(rows) >= slot[s].max_participant
<1>1. {u \in Users : st[u] = "ACCEPTED"} = {u \in Users : rows[u].status = "ACCEPTED"}
    OBVIOUS
<1>2. Accepted(rows) = Cardinality({u \in Users : st[u] = "ACCEPTED"})
    BY <1>1, Zenon DEF Accepted
<1>3. Lifecycle!Full(s, st)
        <=> Cardinality({u \in Users : st[u] = "ACCEPTED"}) >= slot[s].max_participant
    BY Zenon DEF Lifecycle!Full, Lifecycle!Cardinality, Cardinality
<1> QED BY <1>2, <1>3, Zenon

\* Read or committed, a call nobody overtook counts the same places taken.
LEMMA SamePlaces ==
    ASSUME TypeOK, NEW r \in Requests, NotOvertaken(r)
    PROVE  Accepted(snap[r].rows) = Accepted(participation[call[r].slot])
<1>1. \A u \in Users : snap[r].rows[u].status = "ACCEPTED"
                        <=> participation[call[r].slot][u].status = "ACCEPTED"
    BY DEF NotOvertaken, PlacesAsRead
<1>2. {u \in Users : snap[r].rows[u].status = "ACCEPTED"}
        = {u \in Users : participation[call[r].slot][u].status = "ACCEPTED"}
    BY <1>1
<1> QED BY <1>2 DEF Accepted

\* A commit nobody overtook is one step of ParticipationLifecycle.
LEMMA FreshCommitRefines ==
    ASSUME TypeOK, GuardsHeld, [Next]_vars, NEW r \in Requests, Commits(r), NotOvertaken(r)
    PROVE  Lifecycle!Next
<1> DEFINE c == call[r]
           s == c.slot
           u == c.user
<1>1. c \in Calls /\ s \in Slots /\ u \in Users /\ pc[r] = "open"
    BY CommitWrites DEF Commits
<1>2. Statuses' = [Statuses EXCEPT ![s][u] = Written(c).status]
    BY StatusesAfterCommit
<1>3. Statuses[s][u] = participation[s][u].status
    BY <1>1 DEF Statuses
<1>4. snap[r].rows[u] = participation[s][u] /\ snap[r].slot = slot[s]
    BY DEF NotOvertaken, PlacesAsRead
<1>5. CASE c.op = "JOIN"
    <2>1. CanJoin(c, snap[r])
        BY <1>1, <1>5 DEF GuardsHeld
    <2>2. Statuses[s][u] \in {"NONE", "CANCELLED"} /\ slot[s].status = "OPEN"
        BY <1>3, <1>4, <2>1 DEF CanJoin
    <2>3. ~Lifecycle!Full(s, Statuses[s])
        <3>1. Lifecycle!Full(s, Statuses[s])
                <=> Accepted(participation[s]) >= slot[s].max_participant
            BY <1>1, FullIsCounted DEF Statuses
        <3>2. Accepted(participation[s]) < slot[s].max_participant
            BY <1>4, <2>1, SamePlaces DEF CanJoin
        <3>3. Accepted(participation[s]) \in Nat /\ slot[s].max_participant \in Nat
            BY <1>1, AcceptedType DEF TypeOK, SlotRows
        <3> QED BY <3>1, <3>2, <3>3
    <2>4. Statuses' = [Statuses EXCEPT ![s][u] = "PENDING"]
        BY <1>2, <1>5 DEF Written, JoinedRow, Row
    <2>5. UNCHANGED slot
        BY <1>5, CommitCases DEF CreateCommits, TransitionCommits
    <2>6. Lifecycle!Join(s, u)
        BY <2>2, <2>3, <2>4, <2>5 DEF Lifecycle!Join
    <2> QED BY <1>1, <2>6 DEF Lifecycle!Next
<1>6. CASE c.op # "JOIN"
    <2>1. CanTransition(c, snap[r])
        BY <1>1, <1>6 DEF GuardsHeld
    <2>2. Statuses[s][u] \in Transition[c.op].from
        BY <1>3, <1>4, <2>1 DEF CanTransition
    <2>3. Statuses' = [Statuses EXCEPT ![s][u] = Transition[c.op].to.status]
        BY <1>2, <1>6 DEF Written
    <2>4. slot' = SlotAfterSync(r) /\ Accepted(OwnView(r)) = Accepted(participation'[s])
        BY <1>6, PlacesView DEF NotOvertaken
    <2>5. CASE c.op = "REJECT"
        <3>1. Lifecycle!Reject(s, u)
            BY <2>2, <2>3, <2>4, <2>5, TransitionTable DEF Lifecycle!Reject, SlotAfterSync
        <3> QED BY <1>1, <3>1 DEF Lifecycle!Next
    <2>6. CASE c.op \in {"ACCEPT", "CANCEL"}
        <3>1. slot' = Lifecycle!Synced(s, Statuses'[s])
            <4>1. \A x \in Users : Statuses'[s][x] = participation'[s][x].status
                BY <1>1 DEF Statuses
            <4>2. Lifecycle!Full(s, Statuses'[s])
                    <=> Accepted(participation'[s]) >= slot[s].max_participant
                BY <1>1, <4>1, FullIsCounted
            <4>3. slot' = IF SyncedStatus(slot[s], participation'[s]) = slot[s].status
                          THEN slot
                          ELSE [slot EXCEPT ![s].status =
                                    SyncedStatus(slot[s], participation'[s])]
                BY <1>4, <2>4, <2>6 DEF SlotAfterSync, SyncedStatus
            <4>4. slot = [slot EXCEPT ![s].status = slot[s].status]
                BY <1>1 DEF TypeOK, SlotRows
            <4> QED BY <4>2, <4>3, <4>4 DEF Lifecycle!Synced, SyncedStatus
        <3>2. CASE c.op = "ACCEPT"
            <4>1. Lifecycle!Accept(s, u)
                BY <2>2, <2>3, <3>1, <3>2, TransitionTable DEF Lifecycle!Accept
            <4> QED BY <1>1, <4>1 DEF Lifecycle!Next
        <3>3. CASE c.op = "CANCEL"
            <4>1. Lifecycle!Cancel(s, u)
                BY <2>2, <2>3, <3>1, <3>3, TransitionTable DEF Lifecycle!Cancel
            <4> QED BY <1>1, <4>1 DEF Lifecycle!Next
        <3> QED BY <2>6, <3>2, <3>3
    <2> QED BY <1>1, <1>6, <2>5, <2>6, CallFields
<1> QED BY <1>5, <1>6

\* The rows a run starts from are statuses ParticipationLifecycle starts from.
LEMMA InitRefines == Init => Lifecycle!Init
<1> SUFFICES ASSUME Init PROVE Lifecycle!Init OBVIOUS
<1>1. \A row \in EarlierRows : row.status \in Lifecycle!Earlier
    <2>1. DOMAIN Transition = {"ACCEPT", "REJECT", "CANCEL"}
        BY DEF Transition
    <2> QED BY <2>1, TransitionTable
            DEF EarlierRows, NoRow, JoinedRow, Row, Lifecycle!Earlier
<1>2. Statuses \in [Slots -> [Users -> Lifecycle!Earlier]]
    BY <1>1 DEF Init, Statuses
<1>3. slot \in [Slots -> [status : {"OPEN", "FULL", "CLOSED", "CANCELLED"},
                          max_participant : Lifecycle!Sizes]]
    BY DEF Init, SlotStatus, Lifecycle!Sizes
<1> QED BY <1>2, <1>3 DEF Lifecycle!Init

\* A step in which no commit was overtaken is a step of ParticipationLifecycle, or changes
\* nothing its callers can see.
LEMMA StepRefines ==
    ASSUME TypeOK, GuardsHeld, [Next]_vars, \A r \in Requests : Commits(r) => NotOvertaken(r)
    PROVE  Lifecycle!Next \/ UNCHANGED Lifecycle!vars
<1>1. ASSUME UNCHANGED <<participation, slot>>
      PROVE  UNCHANGED Lifecycle!vars
    BY <1>1 DEF Lifecycle!vars, Statuses
<1>2. ASSUME NEW r \in Requests, CreateCommits(r) \/ TransitionCommits(r)
      PROVE  Lifecycle!Next
    <2>1. Commits(r)
        BY <1>2 DEF CreateCommits, TransitionCommits, Commit, Commits, TypeOK
    <2> QED BY <2>1, FreshCommitRefines
<1>3. ASSUME NEW s \in Slots, NEW row \in SlotRows, SlotUpdate(s, row)
      PROVE  Lifecycle!Next
    <2>1. /\ row.status \in {"OPEN", "FULL", "CLOSED", "CANCELLED"}
          /\ row.max_participant \in Lifecycle!Sizes
          /\ row = [status |-> row.status, max_participant |-> row.max_participant]
        BY <1>3 DEF SlotUpdate, SlotRows, SlotStatus, Lifecycle!Sizes
    <2>2. Lifecycle!Edit(s, row)
        BY <1>3 DEF SlotUpdate, Lifecycle!Edit, Statuses
    <2> QED BY <2>1, <2>2 DEF Lifecycle!Next
<1>4. ASSUME NEW s \in Slots, SlotRemove(s)
      PROVE  Lifecycle!Next
    <2>1. Statuses' = [Statuses EXCEPT ![s] = [u \in Users |-> "NONE"]]
        <3>1. participation' = [participation EXCEPT ![s] = [u \in Users |-> NoRow]]
            BY <1>4 DEF SlotRemove
        <3>2. \A x \in Slots : x # s => participation'[x] = participation[x]
            BY <3>1 DEF TypeOK
        <3>3. \A u \in Users : participation'[s][u].status = "NONE"
            BY <3>1 DEF TypeOK, NoRow, Row
        <3> QED BY <3>2, <3>3 DEF Statuses
    <2>2. Lifecycle!Remove(s)
        BY <1>4, <2>1 DEF SlotRemove, Lifecycle!Remove
    <2> QED BY <2>2 DEF Lifecycle!Next
<1> QED BY <1>1, <1>2, <1>3, <1>4
        DEF Next, vars, CreateReads, TransitionReads, Open, TransactionFails, Publish,
            Crash, Finish

\* With any number of connections, only an overtaken commit is anything else than one call
\* served alone.
THEOREM OnlyOvertakenCallsStrayHolds == Spec => OnlyOvertakenCallsStray
<1>1. TypeOK /\ GuardsHeld /\ [Next]_vars
        => [(\A r \in Requests : Commits(r) => NotOvertaken(r))
                => (Lifecycle!Next \/ UNCHANGED Lifecycle!vars)]_vars
    BY StepRefines
<1> QED BY <1>1, TypeCorrect, GuardsAlwaysHeld, PTL DEF Spec, OnlyOvertakenCallsStray

\* A service whose commits are never overtaken, however many of its transactions overlap,
\* is the one its callers expect, step by step.
THEOREM NotOvertakenRefinement ==
    (Spec /\ [][\A r \in Requests : Commits(r) => NotOvertaken(r)]_vars) => LifecycleSpec
<1> DEFINE Orderly == \A r \in Requests : Commits(r) => NotOvertaken(r)
<1>1. TypeOK /\ GuardsHeld /\ [Next]_vars /\ [Orderly]_vars
        => [Lifecycle!Next]_Lifecycle!vars
    <2>1. CASE UNCHANGED vars
        BY <2>1 DEF vars, Lifecycle!vars, Statuses
    <2> QED BY <2>1, StepRefines
<1> HIDE DEF Orderly
<1>2. (Spec /\ [][Orderly]_vars) => LifecycleSpec
    BY <1>1, InitRefines, TypeCorrect, GuardsAlwaysHeld, PTL DEF Spec, LifecycleSpec, Lifecycle!Spec
<1> QED BY <1>2 DEF Orderly
=============================================================================
