--------------------------- MODULE Participation ---------------------------
(***************************************************************************)
(* A volunteer asks for a place on a slot, the organizer accepts or        *)
(* rejects, either of them cancels: ParticipationService of the gateway    *)
(* (create, transition), over the tables Participation and Slot.           *)
(*                                                                         *)
(* Every call is one interactive transaction on MySQL 8.0 at its default   *)
(* level, REPEATABLE READ.  All its SELECTs read one snapshot, taken by    *)
(* the first of them, with the transaction's own writes laid over it; an   *)
(* UPDATE or an INSERT acts on the last committed row and holds its lock   *)
(* until COMMIT.  A transaction is therefore two steps:                    *)
(*   - ...Reads   takes the snapshot and applies the guards to it;         *)
(*   - ...Commits runs the writes.  From the first row lock to COMMIT      *)
(*     nobody else can change the locked rows, and whatever else the       *)
(*     transaction reads comes from its snapshot, so these statements take *)
(*     effect together when it commits.                                    *)
(* A refused call throws and leaves no trace: it is a stuttering step.     *)
(***************************************************************************)
EXTENDS Naturals, FiniteSets

CONSTANTS
    Users,         \* people, organizers included
    Slots,
    Requests,      \* HTTP calls; each is served once (bounds the model)
    OrganizerOf,   \* [Slots -> Users]: organizer_id of the slot's event, never updated
    PoolSize,      \* connectionLimit of the Prisma adapter (5 in the code)
    MaxPlaces      \* largest max_participant considered (bounds the model)

ASSUME UsersAssumption == IsFiniteSet(Users)
ASSUME RequestsAssumption == IsFiniteSet(Requests)
ASSUME OrganizerAssumption == OrganizerOf \in [Slots -> Users]
ASSUME PoolAssumption == PoolSize \in Nat \ {0}
ASSUME PlacesAssumption == MaxPlaces \in Nat \ {0}

VARIABLES
    participation, \* committed rows, by slot and user (unique_user_slot)
    slot,          \* committed slot rows
    pc,            \* where each request is
    call,          \* what each request asks for
    snap           \* what its transaction's snapshot holds of the slot

vars == <<participation, slot, pc, call, snap>>

-----------------------------------------------------------------------------
(* Rows and calls *)

ParticipationStatus == {"PENDING", "ACCEPTED", "REJECTED", "CANCELLED"}

SlotStatus == {"OPEN", "FULL", "CLOSED", "CANCELLED"}

\* A participation row; decision_at and cancelled_at tell only whether they are set.
Row(st, decided, cancelled) ==
    [status |-> st, decision_at |-> decided, cancelled_at |-> cancelled]

NoRow == Row("NONE", FALSE, FALSE)

Rows == [status : ParticipationStatus \cup {"NONE"},
         decision_at : BOOLEAN, cancelled_at : BOOLEAN]

\* A slot row; GONE once the slot, its mission or its event has been deleted.
SlotRows == [status : SlotStatus \cup {"GONE"}, max_participant : 1 .. MaxPlaces]

Calls == [op : {"JOIN", "ACCEPT", "REJECT", "CANCEL"},
          actor : Users, user : Users, slot : Slots]

NoCall == [op |-> "NONE"]

Snapshots == [rows : [Users -> Rows], slot : SlotRows]

NoSnapshot == [rows |-> "NONE"]

Current(s) == [rows |-> participation[s], slot |-> slot[s]]

Accepted(rows) == Cardinality({u \in Users : rows[u].status = "ACCEPTED"})

TypeOK ==
    /\ participation \in [Slots -> [Users -> Rows]]
    /\ slot \in [Slots -> SlotRows]
    /\ pc \in [Requests -> {"new", "open", "committed", "done"}]
    /\ call \in [Requests -> Calls \cup {NoCall}]
    /\ snap \in [Requests -> Snapshots \cup {NoSnapshot}]
    /\ \A r \in Requests :
        pc[r] = "open" => call[r] \in Calls /\ snap[r] \in Snapshots

-----------------------------------------------------------------------------
(* Policies *)

\* PARTICIPATION_TRANSITIONS: the row each transition writes, and from where.
Transition ==
    [ACCEPT |-> [from |-> {"PENDING"}, to |-> Row("ACCEPTED", TRUE, FALSE)],
     REJECT |-> [from |-> {"PENDING"}, to |-> Row("REJECTED", TRUE, FALSE)],
     CANCEL |-> [from |-> {"PENDING", "ACCEPTED"}, to |-> Row("CANCELLED", FALSE, TRUE)]]

\* The row createOrRejointParticipation writes, new or reused.
JoinedRow == Row("PENDING", FALSE, FALSE)

\* Variant: decisions use the looser check of cancellations.
MayActLoose(c) == c.actor \in {c.user, OrganizerOf[c.slot]}

\* assertOrganizer, assertOwnerOrOrganizer
MayAct(c) ==
    \/ c.actor = OrganizerOf[c.slot]
    \/ c.op = "CANCEL" /\ c.actor = c.user

\* The guard of a transition: role and starting status, on what was read.
CanTransition(c, s) ==
    /\ MayAct(c)
    /\ s.rows[c.user].status \in Transition[c.op].from

\* Variant: off by one on the number of places.
CanJoinOneMore(c, s) ==
    /\ c.actor = c.user
    /\ s.rows[c.user].status \in {"NONE", "CANCELLED"}
    /\ s.slot.status = "OPEN"
    /\ Accepted(s.rows) <= s.slot.max_participant

\* assertCanCreateOrRejoin and assertCanJoin, on what was read.
CanJoin(c, s) ==
    /\ c.actor = c.user
    /\ s.rows[c.user].status \in {"NONE", "CANCELLED"}
    /\ s.slot.status = "OPEN"
    /\ Accepted(s.rows) < s.slot.max_participant

\* The status syncSlotStatus leaves on a slot row it read as sl, with rows as read.
SyncedStatus(sl, rows) ==
    IF sl.status \in {"CLOSED", "CANCELLED"} THEN sl.status
    ELSE IF Accepted(rows) >= sl.max_participant THEN "FULL" ELSE "OPEN"

-----------------------------------------------------------------------------
(* Transactions *)

OpenTransactions == {r \in Requests : pc[r] = "open"}

ConnectionFree == Cardinality(OpenTransactions) < PoolSize

\* Variant: the guards read outside the transaction.
OpenUnread(r, c) ==
    /\ pc[r] = "new"
    /\ ConnectionFree
    /\ pc' = [pc EXCEPT ![r] = "open"]
    /\ call' = [call EXCEPT ![r] = c]
    /\ UNCHANGED <<participation, slot, snap>>

Open(r, c) ==
    /\ pc[r] = "new"
    /\ ConnectionFree
    /\ pc' = [pc EXCEPT ![r] = "open"]
    /\ call' = [call EXCEPT ![r] = c]
    /\ snap' = [snap EXCEPT ![r] = Current(c.slot)]
    /\ UNCHANGED <<participation, slot>>

\* create: getSlotOrThrow, getSlotContext and the two policies.
CreateReads(r, c) ==
    /\ c.op = "JOIN"
    /\ CanJoin(c, Current(c.slot))
    /\ Open(r, c)

\* applyTransition: findWithContextOrThrow and the transition's guard.
TransitionReads(r, c) ==
    /\ c.op # "JOIN"
    /\ CanTransition(c, Current(c.slot))
    /\ Open(r, c)

\* COMMIT: the connection goes back to the pool and the snapshot with it.
Commit(r) ==
    /\ pc[r] = "open"
    /\ pc' = [pc EXCEPT ![r] = "committed"]
    /\ snap' = [snap EXCEPT ![r] = NoSnapshot]
    /\ UNCHANGED call

\* Variant: an upsert instead of an INSERT under the unique key.
WritableUpsert(r) == slot[call[r].slot].status # "GONE"

\* The row as last committed allows the write: an INSERT needs the unique key free and
\* the slot to reference, an UPDATE needs the row.
Writable(r) ==
    LET c == call[r]
        exists == participation[c.slot][c.user].status # "NONE"
    IN  IF snap[r].rows[c.user].status = "NONE"
        THEN ~exists /\ slot[c.slot].status # "GONE"
        ELSE exists

\* createOrRejointParticipation and COMMIT.
CreateCommits(r) ==
    LET c == call[r] IN
    /\ c.op = "JOIN"
    /\ Commit(r)
    /\ Writable(r)
    /\ participation' = [participation EXCEPT ![c.slot][c.user] = JoinedRow]
    /\ UNCHANGED slot

\* Variant: the places are counted before the UPDATE.
OwnViewBeforeUpdate(r) == snap[r].rows

\* What the transaction sees after its own UPDATE: its row over the snapshot.
OwnView(r) ==
    [snap[r].rows EXCEPT ![call[r].user] = Transition[call[r].op].to]

\* Variant: a cancellation does not give the place back.
SlotAfterSyncAcceptOnly(r) ==
    IF call[r].op = "ACCEPT"
    THEN [slot EXCEPT ![call[r].slot].status = SyncedStatus(snap[r].slot, OwnView(r))]
    ELSE slot

\* The slot row after syncSlotStatus: written only if the status read differs.
SlotAfterSync(r) ==
    LET read == snap[r].slot
        new == SyncedStatus(read, OwnView(r))
    IN  IF call[r].op = "REJECT" \/ new = read.status
        THEN slot
        ELSE [slot EXCEPT ![call[r].slot].status = new]

\* Variant: the UPDATE sets the status and leaves the dates.
TransitionCommitsStatusOnly(r) ==
    LET c == call[r] IN
    /\ c.op # "JOIN"
    /\ Commit(r)
    /\ Writable(r)
    /\ participation' =
        [participation EXCEPT ![c.slot][c.user].status = Transition[c.op].to.status]
    /\ slot' = SlotAfterSync(r)

\* applyTransition: the UPDATE, syncSlotStatus for ACCEPT and CANCEL, and COMMIT.
TransitionCommits(r) ==
    LET c == call[r] IN
    /\ c.op # "JOIN"
    /\ Commit(r)
    /\ Writable(r)
    /\ participation' = [participation EXCEPT ![c.slot][c.user] = Transition[c.op].to]
    /\ slot' = SlotAfterSync(r)

\* The requests of R are over; their local variables go with them.
Finish(R) ==
    /\ pc' = [r \in Requests |-> IF r \in R THEN "done" ELSE pc[r]]
    /\ call' = [r \in Requests |-> IF r \in R THEN NoCall ELSE call[r]]
    /\ snap' = [r \in Requests |-> IF r \in R THEN NoSnapshot ELSE snap[r]]
    /\ UNCHANGED <<participation, slot>>

\* A statement fails (unique key, missing row, deadlock victim, transaction timeout):
\* ROLLBACK, and the caller gets an error.
TransactionFails(r) ==
    /\ pc[r] = "open"
    /\ Finish({r})

\* After COMMIT the request awaits publish(), which sends its event or logs that it could
\* not, and answers the caller in either case.
Publish(r) ==
    /\ pc[r] = "committed"
    /\ Finish({r})

Running == {r \in Requests : pc[r] \in {"open", "committed"}}

\* The gateway process dies: open transactions roll back, events not yet sent are lost.
Crash ==
    /\ Running # {}
    /\ Finish(Running)

-----------------------------------------------------------------------------
(* The organizer edits or deletes the slot, outside any transaction *)

\* SlotService.update: any status and any max_participant, and no syncSlotStatus.
SlotUpdate(s, row) ==
    /\ ConnectionFree
    /\ slot[s].status # "GONE"
    /\ row.status # "GONE"
    /\ slot' = [slot EXCEPT ![s] = row]
    /\ UNCHANGED <<participation, pc, call, snap>>

\* SlotService.remove, or the cascade from its mission or event.
SlotRemove(s) ==
    /\ ConnectionFree
    /\ slot[s].status # "GONE"
    /\ slot' = [slot EXCEPT ![s].status = "GONE"]
    /\ participation' = [participation EXCEPT ![s] = [u \in Users |-> NoRow]]
    /\ UNCHANGED <<pc, call, snap>>

-----------------------------------------------------------------------------
(* Specification *)

\* The tables as earlier traffic left them: every row a user and a slot can have, under
\* any status and size of the slot the organizer may have set meanwhile.
EarlierRows == {NoRow, JoinedRow} \cup {Transition[op].to : op \in DOMAIN Transition}

Init ==
    /\ participation \in [Slots -> [Users -> EarlierRows]]
    /\ slot \in [Slots -> [status : SlotStatus, max_participant : 1 .. MaxPlaces]]
    /\ pc = [r \in Requests |-> "new"]
    /\ call = [r \in Requests |-> NoCall]
    /\ snap = [r \in Requests |-> NoSnapshot]

Next ==
    \/ \E r \in Requests :
        \/ \E c \in Calls : CreateReads(r, c) \/ TransitionReads(r, c)
        \/ CreateCommits(r)
        \/ TransitionCommits(r)
        \/ TransactionFails(r)
        \/ Publish(r)
    \/ Crash
    \/ \E s \in Slots :
        \/ \E row \in SlotRows : SlotUpdate(s, row)
        \/ SlotRemove(s)

Spec == Init /\ [][Next]_vars

-----------------------------------------------------------------------------
(* Properties *)

Commits(r) == pc[r] = "open" /\ pc'[r] = "committed"

\* The two dates of a row agree with its status whichever transactions overlapped: every
\* write sets status, decision_at and cancelled_at together (service lines 145-158, 304-312).
DatesMatchStatus ==
    \A s \in Slots, u \in Users :
        LET row == participation[s][u] IN
        /\ row.decision_at <=> row.status \in {"ACCEPTED", "REJECTED"}
        /\ row.cancelled_at <=> row.status = "CANCELLED"

\* What each operation may make of a row.
AllowedChanges ==
    {<<"NONE", "PENDING">>, <<"CANCELLED", "PENDING">>,
     <<"PENDING", "ACCEPTED">>, <<"PENDING", "REJECTED">>,
     <<"PENDING", "CANCELLED">>, <<"ACCEPTED", "CANCELLED">>}

\* The status guards protect a row as long as nobody else wrote it between the guard and
\* the write, and a first request needs not even that: of two of them (two tabs, or a
\* confirmation pressed twice) the second never undoes what was decided on the first.
\* Every such change of status follows the lifecycle, REJECTED being final.
FreshCommitFollowsLifecycle ==
    [][\A r \in Requests :
        LET s == call[r].slot
            u == call[r].user
            read == snap[r].rows[u]
        IN  (Commits(r) /\ (read = participation[s][u] \/ read.status = "NONE"))
                => <<participation[s][u].status, participation'[s][u].status>> \in AllowedChanges
      ]_vars

\* The slot's status says whether it is full, unless the organizer took the slot out of
\* that game by closing or cancelling it.
SlotExact(s) ==
    \/ slot[s].status \in {"CLOSED", "CANCELLED"}
    \/ /\ slot[s].status \in {"OPEN", "FULL"}
       /\ slot[s].status = "FULL" <=>
            Accepted(participation[s]) >= slot[s].max_participant

\* What the transaction read of the slot beside its own row still tells the places taken:
\* the slot row is as it was, and the same others are accepted.
PlacesAsRead(r) ==
    LET s == call[r].slot IN
    /\ snap[r].slot = slot[s]
    /\ \A u \in Users \ {call[r].user} :
        snap[r].rows[u].status = "ACCEPTED" <=> participation[s][u].status = "ACCEPTED"

\* An accept or a cancel leaves the slot's status exact, whatever it was before, and never
\* reopens a closed slot, unless one that overlapped it changed who else is accepted, or
\* the organizer changed the slot; requests, refusals and anything that happened to its
\* own row may overlap it.  A status left wrong is repaired by the next such call.
SyncIsExact ==
    [][\A r \in Requests :
        LET s == call[r].slot IN
        (Commits(r) /\ call[r].op \in {"ACCEPT", "CANCEL"} /\ PlacesAsRead(r))
            => /\ SlotExact(s)'
               /\ slot[s].status \in {"CLOSED", "CANCELLED"} => slot' = slot]_vars

\* A row changes only by a request about that row, made by the volunteer or by the
\* organizer of the slot; a decision is the organizer's; a place is asked for only by the
\* volunteer; and no other row changes with it, until the slot itself is deleted.
OnlyPartiesChangeRows ==
    [][\A s \in Slots, u \in Users :
        (participation'[s][u] # participation[s][u] /\ slot'[s].status # "GONE")
            => \E r \in Requests :
                LET c == call[r]
                    new == participation'[s][u].status
                IN  /\ Commits(r) /\ c.slot = s /\ c.user = u
                    /\ c.actor \in {u, OrganizerOf[s]}
                    /\ new \in {"ACCEPTED", "REJECTED"} => c.actor = OrganizerOf[s]
                    /\ new = "PENDING" => c.actor = u]_vars

\* fromStatuses: a transition is applied only to a row in one of its starting statuses.
TransitionFromAllowedStatus ==
    [][\A r \in Requests :
        LET c == call[r] IN
        (Commits(r) /\ c.op # "JOIN")
            => participation[c.slot][c.user].status \in Transition[c.op].from]_vars

-----------------------------------------------------------------------------
(* Refinement *)

Statuses == [s \in Slots |-> [u \in Users |-> participation[s][u].status]]

Lifecycle == INSTANCE ParticipationLifecycle WITH status <- Statuses

\* With a single connection transactions never overlap, and the service is what callers
\* who come one at a time expect: every commit is one step of ParticipationLifecycle on
\* the current rows, and every other step changes nothing they can see.
LifecycleSpec == Lifecycle!Spec

\* Nobody overtook r: its own row and the places are still as it read them.
NotOvertaken(r) ==
    /\ participation[call[r].slot][call[r].user] = snap[r].rows[call[r].user]
    /\ PlacesAsRead(r)

\* With any number of connections, only a commit that was overtaken can be anything else
\* than one call served alone: "we need that all check pass ... (Important for the count
\* of the current participants)" (create's comment) is kept by every other one.
OnlyOvertakenCallsStray ==
    [][(\A r \in Requests : Commits(r) => NotOvertaken(r))
        => (Lifecycle!Next \/ UNCHANGED Lifecycle!vars)]_vars
=============================================================================
