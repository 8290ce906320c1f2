---------------------------- MODULE EventScreens ----------------------------
(***************************************************************************)
(* The screens of an event in one tab of the browser: the lists, the       *)
(* event, the mission, the slot and the user's own missions; the query     *)
(* cache they share, the changes made from them, and the queries each      *)
(* change refreshes, while the other party acts on the same participation. *)
(*                                                                         *)
(* There is one event with one mission, one slot and one volunteer's       *)
(* participation.  What a screen shows is a count, for each kind of        *)
(* content, of the changes of this tab it takes into account.  The cache   *)
(* (TanStack Query) and the router are modelled from how the screens use   *)
(* them.  Changes may overlap, from one screen or several; the slot keeps  *)
(* a place free.                                                           *)
(***************************************************************************)
EXTENDS Naturals, Sequences, FiniteSets

CONSTANTS
    MaxActs,    \* pages the user goes to and changes sent (bounds the model)
    MaxChanges, \* changes under way at once (bounds the model)
    MaxEvents,  \* calls lost and changes of the other party (bounds the model)
    Undefined, Idle, Asked, NotFound

VARIABLES
    me,        \* who uses the tab: the "organizer", the "volunteer", or "both" in one
    table,     \* rows: changes of this tab; alive; part; others: changes of the other
    page,
    cache,     \* for each key: data, fetch, stale, error
    mutation,  \* the changes under way
    acked,     \* the changes this tab was told of
    late,      \* history: keys whose answer was taken before an acknowledged change
    acts,
    fails      \* calls lost

vars == <<me, table, page, cache, mutation, acked, late, acts, fails>>

\* Which events, missions and slots there are, what each is, and the places taken.
Facets == {"events", "event", "missions", "mission", "slots", "slot", "places"}

Records == {"event", "mission", "slot"}

Changing == 1 .. MaxChanges

\* Whether the participation is the user's own: an organizer may take a place as well.
Owns == me # "organizer"

\* The organizer's buttons: the user is the organizer_id of the record.
CanEdit == me # "volunteer"

-----------------------------------------------------------------------------
(* What is read *)

Keys == {"lists", "event", "mission", "slot", "participations"}

\* The mappers of the gateway: what the answer to each key is made of.
EventAnswer == Facets \ {"events"}
MissionAnswer == {"mission", "slots", "slot", "places"}
SlotAnswer == {"slot", "places"}
ListsAnswer == {"events", "event"}
MineAnswer == {"event", "mission", "slot", "places"}

Reads(k) ==
    CASE k = "lists" -> ListsAnswer
      [] k = "event" -> EventAnswer
      [] k = "mission" -> MissionAnswer
      [] k = "slot" -> SlotAnswer
      [] k = "participations" -> IF Owns THEN MineAnswer ELSE {}

\* Who is told of the participation itself: its volunteer, and the organizer with the slot.
TellsPart(k) ==
    \/ CanEdit /\ k = "slot"
    \/ Owns /\ k \in {"event", "mission", "participations"}

Statuses == {"NONE", "PENDING", "ACCEPTED", "REJECTED", "CANCELLED"}

\* What an answer may be; no answer is mistaken for a mark.
Answers ==
    [rows : UNION {[S -> Nat] : S \in SUBSET Facets}, alive : SUBSET Records,
     part : Statuses, others : Nat]

ASSUME ScreenConstants ==
    /\ MaxActs \in Nat /\ MaxEvents \in Nat /\ MaxChanges \in Nat
    /\ \A m \in {Undefined, Idle, Asked, NotFound} : m \notin Answers /\ m \notin Nat
    /\ Idle # Asked /\ Idle # NotFound /\ Asked # NotFound

\* The tables as a key shows them, 404 for a record that is gone.
Snapshot(k) ==
    IF k \in Records \ table.alive THEN NotFound
    ELSE [rows |-> [f \in Reads(k) |-> table.rows[f]],
          alive |-> table.alive,
          part |-> IF TellsPart(k) THEN table.part ELSE "NONE",
          others |-> IF TellsPart(k) THEN table.others ELSE 0]

Pages == {"Lists", "Creation", "Event", "Mission", "Slot", "MyMissions"}

\* The queries each page observes.
EventPageKeys == {"event", "participations"}

Observes(p) ==
    CASE p = "Lists" -> {"lists"}
      [] p = "Creation" -> {}
      [] p = "Event" -> EventPageKeys
      [] p = "Mission" -> {"mission"}
      [] p = "Slot" -> {"slot"}
      [] p = "MyMissions" -> {"participations"}

\* What a page shows of a query: of the user's participations, an event only knows
\* whether one gives access to its members' area.
Renders(p, k) == IF p = "Event" /\ k = "participations" THEN {"places"} \cap Reads(k) ELSE Reads(k)

-----------------------------------------------------------------------------
(* What is offered, on the record shown *)

EventCardOffers == IF CanEdit THEN {"updateEvent", "deleteEvent", "createMission"} ELSE {}

MissionOffers == IF CanEdit THEN {"updateMission", "deleteMission", "createSlot"} ELSE {}

SlotOffers == IF CanEdit THEN {"updateSlot", "deleteSlot"} ELSE {}

SlotItemOffers(d) ==
    IF Owns /\ "slot" \in d.alive /\ d.part \in {"NONE", "CANCELLED"}
    THEN {"participate"} ELSE {}

\* The dialog of the participants lists every participation there is.
HandleParticipantOffers(d) ==
    IF ~CanEdit \/ d.part = "NONE" THEN {}
    ELSE {"accept" : x \in {d.part} \ {"ACCEPTED"}}
         \cup {"reject" : x \in {d.part} \ {"ACCEPTED"}}
         \cup {"cancel" : x \in {d.part} \ {"REJECTED"}}

IsActive(p) == p \in {"PENDING", "ACCEPTED"}

MyParticipationOffers(d) == IF Owns /\ IsActive(d.part) THEN {"cancelMine"} ELSE {}

Data(k) == cache[k].data

\* A page whose query failed shows an alert, the user's missions apart.
Shows(k) == Data(k) # Undefined /\ (cache[k].error => k = "participations")

Offers ==
    CASE page = "Creation" -> {"createEvent" : x \in {me} \ {"volunteer"}}
      [] page = "Event" /\ Shows("event") -> EventCardOffers \cup SlotItemOffers(Data("event"))
      [] page = "Mission" /\ Shows("mission") ->
            MissionOffers \cup SlotItemOffers(Data("mission"))
      [] page = "Slot" /\ Shows("slot") ->
            SlotOffers \cup HandleParticipantOffers(Data("slot"))
      [] page = "MyMissions" /\ Shows("participations") ->
            MyParticipationOffers(Data("participations"))
      [] OTHER -> {}

-----------------------------------------------------------------------------
(* The changes: what they write, the query they remove, those they refresh
   one after the other, and where they lead *)

Events == {"lists", "event"}  \* the keys that start with 'events'

Change(written, removed, refreshed, leads) ==
    [writes |-> written, removes |-> removed, refreshes |-> refreshed, goesTo |-> leads]

CreateEvent == Change({"events"}, {}, <<Events>>, {"Lists"})
UpdateEvent == Change({"event"}, {}, <<Events>>, {"Event"})
DeleteEvent == Change(Facets, {"event"}, <<Events>>, {"Lists"})
CreateMission == Change({"missions"}, {}, <<{"event"}>>, {})
UpdateMission == Change({"mission"}, {}, <<{"mission"}, {"event"}>>, {})
DeleteMission ==
    Change(Facets \ {"events", "event"}, {"mission"}, <<{"event"}>>, {"Event"})
CreateSlot == Change({"slots"}, {}, <<{"mission"}, {"event"}>>, {})

\* Variant: the event is not refreshed.
UpdateSlotAlone == Change({"slot"}, {}, <<{"slot"}, {"mission"}>>, {})

UpdateSlot == Change({"slot"}, {}, <<{"slot"}, {"mission"}, {"event"}>>, {})

\* It goes back, wherever that leads.
DeleteSlot ==
    Change({"slots", "slot", "places"}, {"slot"}, <<{"mission"}, {"event"}>>, Pages)

Participate ==
    Change({"places"}, {}, <<{"slot"}, {"participations"}, {"event"}, {"mission"}>>, {})

Transition ==
    Change({"places", "slot"}, {}, <<{"slot", "mission", "event", "participations"}>>, {})

\* Variant: the user's own list is not refreshed.
CancelMineAlone == Change({"places", "slot"}, {}, <<{"slot", "mission", "event"}>>, {})

CancelMine ==
    Change({"places", "slot"}, {}, <<{"participations", "slot", "mission", "event"}>>, {})

ChangeOf(kind) ==
    CASE kind = "createEvent" -> CreateEvent
      [] kind = "updateEvent" -> UpdateEvent
      [] kind = "deleteEvent" -> DeleteEvent
      [] kind = "createMission" -> CreateMission
      [] kind = "updateMission" -> UpdateMission
      [] kind = "deleteMission" -> DeleteMission
      [] kind = "createSlot" -> CreateSlot
      [] kind = "updateSlot" -> UpdateSlot
      [] kind = "deleteSlot" -> DeleteSlot
      [] kind = "participate" -> Participate
      [] kind = "cancelMine" -> CancelMine
      [] OTHER -> Transition

NoCount == [f \in Facets |-> 0]

NoMutation ==
    [kind |-> "none", phase |-> "none", locks |-> {}, wrote |-> NoCount,
     todo |-> <<>>, wait |-> {}, seen |-> 0]

\* The buttons that are disabled while the change they sent is pending, as long as their
\* page is mounted.
Locking == {"createEvent", "updateEvent", "createMission", "createSlot", "updateSlot",
            "cancelMine"}

Locked(kind) == \E m \in Changing : kind \in mutation[m].locks

-----------------------------------------------------------------------------
(* The gateway *)

\* The statuses a participation may be changed from (participations.transition.ts).
FromStatuses(kind) ==
    CASE kind = "participate" -> {"NONE", "CANCELLED"}
      [] kind \in {"accept", "reject"} -> {"PENDING"}
      [] kind \in {"cancel", "cancelMine"} -> {"PENDING", "ACCEPTED"}

ToStatus(kind) ==
    CASE kind = "participate" -> "PENDING"
      [] kind = "accept" -> "ACCEPTED"
      [] kind = "reject" -> "REJECTED"
      [] kind \in {"cancel", "cancelMine"} -> "CANCELLED"

Participations == {"participate", "accept", "reject", "cancel", "cancelMine"}

\* The record a change is about, and those that go with it.
About(kind) ==
    CASE kind = "createEvent" -> {}
      [] kind \in {"updateEvent", "deleteEvent", "createMission"} -> {"event"}
      [] kind \in {"updateMission", "deleteMission", "createSlot"} -> {"mission"}
      [] OTHER -> {"slot"}

Kills(kind) ==
    CASE kind = "deleteEvent" -> {"event", "mission", "slot"}
      [] kind = "deleteMission" -> {"mission", "slot"}
      [] kind = "deleteSlot" -> {"slot"}
      [] OTHER -> {}

Allowed(kind) ==
    /\ About(kind) \subseteq table.alive
    /\ kind \in Participations => table.part \in FromStatuses(kind)

-----------------------------------------------------------------------------
(* The cache *)

EmptyEntry == [data |-> Undefined, fetch |-> Idle, stale |-> FALSE, error |-> FALSE]

\* Sent again: an error is forgotten when nothing was ever known.
Ask(entry) == [entry EXCEPT !.fetch = Asked, !.error = @ /\ entry.data # Undefined]

\* An observer that mounts: nothing known, marked, a minute old; staleTime 0.
Refetched(k, aged) ==
    Data(k) = Undefined \/ cache[k].stale \/ k \in aged \/ k = "participations"

Mounts(p, aged) ==
    LET asked == {k \in Observes(p) : cache[k].fetch = Idle /\ Refetched(k, aged)}
    IN  /\ page' = p
        /\ cache' = [k \in Keys |-> IF k \in asked THEN Ask(cache[k]) ELSE cache[k]]
        /\ late' = late \ asked

\* cancelRefetch: a request under way is dropped for a new one, but for the first.
Restarts(entry) == entry.fetch = Idle \/ entry.data # Undefined

\* invalidateQueries: those of the cache are marked, and those the page observes are sent again and awaited.
Invalidates(entries, keys) ==
    LET known == {k \in keys : entries[k] # EmptyEntry}
        asked == {k \in known \cap Observes(page) : Restarts(entries[k])}
    IN  [k \in Keys |->
            IF k \in asked THEN [Ask(entries[k]) EXCEPT !.stale = TRUE]
            ELSE IF k \in known THEN [entries[k] EXCEPT !.stale = TRUE]
            ELSE entries[k]]

\* When the tables change, the requests the gateway has read for keep what it read.
TablesChange(entries) ==
    \E read \in SUBSET {k \in Keys : cache[k].fetch = Asked} :
        entries = [k \in Keys |-> IF k \in read THEN [cache[k] EXCEPT !.fetch = Snapshot(k)]
                                 ELSE cache[k]]

\* The answers on their way that miss an acknowledged change, and will not be asked again.
Overtaken(entries, told) ==
    {k \in Keys : /\ entries[k].fetch \notin {Idle, Asked, NotFound}
                  /\ \E f \in Reads(k) : entries[k].fetch.rows[f] < told[f]}

-----------------------------------------------------------------------------
(* The user *)

\* The page left, its components are told nothing of the changes they sent.
Leaves(changes) == [m \in Changing |-> [changes[m] EXCEPT !.locks = {}]]

\* A link, the menu or the browser's history: another page.
GoesTo(p) ==
    /\ p # page
    /\ acts < MaxActs
    /\ acts' = acts + 1
    /\ \E aged \in SUBSET Observes(p) : Mounts(p, aged)
    /\ mutation' = Leaves(mutation)
    /\ UNCHANGED <<me, table, acked, fails>>

\* What the user's own missions say of the other party, when they are not being asked again
\* and count what the user has changed, and no other change of the participation is under way.
Seen ==
    IF /\ cache["participations"].fetch = Idle /\ "participations" \notin late
       /\ \A m \in Changing : mutation[m].kind \notin Participations
    THEN Data("participations").others ELSE Asked

\* A change of the participation sent, an earlier one's view of it is no longer whole.
Overlapped(change, kind) ==
    IF kind \in Participations /\ change.kind = "cancelMine"
    THEN [change EXCEPT !.seen = Asked] ELSE change

\* A dialog confirmed or a form submitted; m is the first that is free.
Sends(m, kind) ==
    /\ mutation[m] = NoMutation /\ \A n \in 1 .. (m - 1) : mutation[n] # NoMutation
    /\ kind \in Offers
    /\ ~Locked(kind)
    /\ acts < MaxActs
    /\ acts' = acts + 1
    /\ mutation' = [n \in Changing |->
           IF n = m THEN [NoMutation EXCEPT !.kind = kind, !.phase = "sent",
                              !.locks = {kind} \cap Locking,
                              !.seen = IF kind = "cancelMine" THEN Seen ELSE 0]
           ELSE Overlapped(mutation[n], kind)]
    /\ UNCHANGED <<me, table, page, cache, acked, late, fails>>

\* The page renders again after its record was removed from the cache, and asks for it.
RendersAgain(k) ==
    /\ k \in Observes(page)
    /\ cache[k] = EmptyEntry
    /\ cache' = [cache EXCEPT ![k] = Ask(@)]
    /\ UNCHANGED <<me, table, page, mutation, acked, late, acts, fails>>

-----------------------------------------------------------------------------
(* A change under way *)

Commits(m) ==
    LET kind == mutation[m].kind
        rows == [f \in Facets |-> IF f \in ChangeOf(kind).writes THEN table.rows[f] + 1
                                 ELSE table.rows[f]]
    IN  /\ mutation[m].phase = "sent"
        /\ Allowed(kind)
        /\ mutation' = [mutation EXCEPT ![m] = [@ EXCEPT !.phase = "done",
               !.wrote = [f \in Facets |-> IF f \in ChangeOf(kind).writes THEN rows[f] ELSE 0]]]
        /\ table' = [table EXCEPT
               !.rows = rows,
               !.alive = @ \ Kills(kind),
               !.part = IF kind \in Participations THEN ToStatus(kind)
                        ELSE IF Kills(kind) # {} THEN "NONE" ELSE @]
        /\ TablesChange(cache')
        /\ UNCHANGED <<me, page, acked, late, acts, fails>>

\* Refused: the toast says so, nothing is refreshed and nothing leads elsewhere.
Refused(m) ==
    /\ mutation[m].phase = "sent"
    /\ ~Allowed(mutation[m].kind)
    /\ mutation' = [mutation EXCEPT ![m] = NoMutation]
    /\ UNCHANGED <<me, table, page, cache, acked, late, acts, fails>>

\* The request or its answer is lost: as a refusal, but it may have been done.
LosesCall(m) ==
    /\ mutation[m].phase \in {"sent", "done"}
    /\ fails + table.others < MaxEvents
    /\ fails' = fails + 1
    /\ mutation' = [mutation EXCEPT ![m] = NoMutation]
    /\ UNCHANGED <<me, table, page, cache, acked, late, acts>>

\* invalidateQueries on the next keys; the refetches it awaits are those observed.  A refetch
\* another change awaits, cancelled for a new one, is awaited as that one.
Refresh(m, changes, entries, todo, told) ==
    LET keys == Head(todo)
    IN  /\ cache' = Invalidates(entries, keys)
        /\ mutation' = [changes EXCEPT ![m] = [@ EXCEPT
               !.phase = "refreshing", !.wrote = NoCount, !.todo = Tail(todo),
               !.wait = {k \in keys \cap Observes(page) : cache'[k].fetch # Idle}]]
        /\ late' = {k \in late : cache'[k].fetch # Asked} \cup Overtaken(cache', told)

\* The requests that the changes no longer wait for.
Settled(keys) == [m \in Changing |-> [mutation[m] EXCEPT !.wait = @ \ keys]]

Highest(a, b) == IF a < b THEN b ELSE a

\* onSuccess: the record removed, with the refetches of it that others await, and the first
\* queries refreshed.
Acknowledged(m) ==
    /\ mutation[m].phase = "done"
    /\ LET change == ChangeOf(mutation[m].kind)
           kept == [k \in Keys |-> IF k \in change.removes THEN EmptyEntry ELSE cache[k]]
       IN  /\ acked' = [f \in Facets |-> Highest(acked[f], mutation[m].wrote[f])]
           /\ Refresh(m, Settled(change.removes), kept, change.refreshes, acked')
    /\ UNCHANGED <<me, table, page, acts, fails>>

Waits(m) == mutation[m].phase = "refreshing" /\ mutation[m].wait # {}

RefreshesNext(m) ==
    /\ mutation[m].phase = "refreshing" /\ ~Waits(m)
    /\ mutation[m].todo # <<>>
    /\ Refresh(m, mutation, cache, mutation[m].todo, acked)
    /\ UNCHANGED <<me, table, page, acked, acts, fails>>

\* The toast turns to success, and the handler leads to its page, wherever the user is.
Finishes(m) ==
    LET leads == ChangeOf(mutation[m].kind).goesTo
        ended == [mutation EXCEPT ![m] = NoMutation]
    IN  /\ mutation[m].phase = "refreshing" /\ ~Waits(m)
        /\ mutation[m].todo = <<>>
        /\ \/ /\ leads \subseteq {page}
              /\ mutation' = ended
              /\ UNCHANGED <<page, cache, late>>
           \/ /\ \E p \in leads \ {page} : \E aged \in SUBSET Observes(p) : Mounts(p, aged)
              /\ mutation' = Leaves(ended)
        /\ UNCHANGED <<me, table, acked, acts, fails>>

-----------------------------------------------------------------------------
(* The answers *)

Answer(k) == IF cache[k].fetch = Asked THEN Snapshot(k) ELSE cache[k].fetch

\* An answer clears the mark, whenever it was read.
Delivered(k) ==
    /\ cache[k].fetch # Idle /\ Answer(k) # NotFound
    /\ cache' = [cache EXCEPT ![k] = [EmptyEntry EXCEPT !.data = Answer(k)]]
    /\ mutation' = Settled({k})
    /\ UNCHANGED <<me, table, page, acked, late, acts, fails>>

\* Variant: a refresh that fails leaves the change waiting for it.
FailsUnsettled(k) ==
    /\ cache' = [cache EXCEPT ![k].fetch = Idle, ![k].error = TRUE]
    /\ UNCHANGED <<me, table, page, mutation, acked, late, acts>>

\* The retries end in an error, and what was known is kept.
Fails(k) ==
    /\ cache' = [cache EXCEPT ![k].fetch = Idle, ![k].error = TRUE]
    /\ mutation' = Settled({k})
    /\ UNCHANGED <<me, table, page, acked, late, acts>>

\* The record is gone.
IsNotFound(k) ==
    /\ cache[k].fetch # Idle /\ Answer(k) = NotFound
    /\ Fails(k)
    /\ UNCHANGED fails

\* The request and its retries are lost.
LosesQuery(k) ==
    /\ cache[k].fetch # Idle
    /\ fails + table.others < MaxEvents
    /\ fails' = fails + 1
    /\ Fails(k)

\* The other party: the organizer decides, or the volunteer signs up or withdraws.
OtherParty ==
    /\ fails + table.others < MaxEvents
    /\ "slot" \in table.alive
    /\ me # "both"
    /\ \E kind \in IF Owns THEN {"accept", "reject", "cancel"}
                   ELSE {"participate", "cancelMine"} :
          /\ table.part \in FromStatuses(kind)
          /\ table' = [table EXCEPT !.part = ToStatus(kind), !.others = @ + 1]
    /\ TablesChange(cache')
    /\ UNCHANGED <<me, page, mutation, acked, late, acts, fails>>

-----------------------------------------------------------------------------
\* The tab as it is opened, or with every page visited within the minute.
Init ==
    /\ me \in {"organizer", "volunteer", "both"}
    /\ \E p \in IF Owns THEN {"NONE", "PENDING"} ELSE {"PENDING"} :
          table = [rows |-> NoCount, alive |-> Records, part |-> p, others |-> 0]
    /\ page \in Pages
    /\ \E visited \in {{}, Keys} :
          cache = [k \in Keys |-> IF k \in Observes(page) THEN Ask(EmptyEntry)
                                 ELSE IF k \in visited
                                      THEN [EmptyEntry EXCEPT !.data = Snapshot(k)]
                                 ELSE EmptyEntry]
    /\ mutation = [m \in Changing |-> NoMutation]
    /\ acked = NoCount
    /\ late = {}
    /\ acts = 0 /\ fails = 0

Kinds == {"createEvent", "updateEvent", "deleteEvent", "createMission", "updateMission",
          "deleteMission", "createSlot", "updateSlot", "deleteSlot"} \cup Participations

User ==
    \/ \E p \in Pages : GoesTo(p)
    \/ \E m \in Changing, kind \in Kinds : Sends(m, kind)
    \/ \E k \in Keys : RendersAgain(k)

\* What goes on by itself: the changes, and the answers.
System ==
    \/ \E m \in Changing :
          Commits(m) \/ Refused(m) \/ Acknowledged(m) \/ RefreshesNext(m) \/ Finishes(m)
    \/ \E k \in Keys : Delivered(k) \/ IsNotFound(k)

Faults == (\E m \in Changing : LosesCall(m)) \/ \E k \in Keys : LosesQuery(k)

Next == User \/ System \/ Faults \/ OtherParty

\* Calls are answered, and what awaits an answer goes on.
Fairness == WF_vars(System)

Spec == Init /\ [][Next]_vars /\ Fairness

-----------------------------------------------------------------------------
\* The types of the state; the tab is told of nothing the tables do not count, and a change
\* only waits for requests that are under way: what invalidateQueries awaits in
\* use_*.service.ts.
ScreensTypeOK ==
    /\ me \in {"organizer", "volunteer", "both"}
    /\ page \in Pages
    /\ table.rows \in [Facets -> Nat] /\ table.alive \subseteq Records
    /\ acked \in [Facets -> Nat] /\ \A f \in Facets : acked[f] <= table.rows[f]
    /\ \A m \in Changing : \A k \in mutation[m].wait : cache[k].fetch # Idle
    /\ late \subseteq Keys

\* A change under way has yet to refresh a key.
Owed(k) ==
    \E m \in Changing :
        /\ mutation[m].phase = "refreshing"
        /\ \E i \in DOMAIN mutation[m].todo : k \in mutation[m].todo[i]

\* A mission or a slot deleted along with the event or the mission it belongs to: the change
\* removes the key of what it deletes and forgets those of what goes with it.
Forgotten(k) ==
    \/ k \in {"mission", "slot"} /\ "event" \notin table.alive
    \/ k = "slot" /\ "mission" \notin table.alive

\* A page never shows less than this tab's own acknowledged changes, however they overlap:
\* once its query is idle without an error, all it is made of counts them.  Three exceptions,
\* which the code allows: an answer taken before the change was acknowledged, when the cache
\* does not ask again; the page of a mission or slot that went with its event or mission,
\* shown from the cache as if it were there; and the missions of an organizer who has taken
\* a place, which no change of an event, a mission or a slot refreshes.  The lists of keys in
\* use_*.service.ts.
ReadYourWrites ==
    \A k \in Observes(page) :
        \/ cache[k].fetch # Idle \/ cache[k].error \/ Data(k) = Undefined
        \/ k \in late \/ Owed(k)
        \/ Forgotten(k) \/ (CanEdit /\ k = "participations")
        \/ \A f \in Renders(page, k) : Data(k).rows[f] >= acked[f]

\* The button that cancels a volunteer's participation, clicked on a list that is settled, is
\* refused only when the other party came first, as long as no call was lost and no other
\* change of the participation overlaps: not because of an earlier click, nor for a status
\* the gateway turns down.  (While the list is asked for again, the page still shows the old
\* one, and offers what was already cancelled.)  MyMissionsPage against
\* participations.transition.ts.
OwnCancelOvertaken ==
    [][ \A m \in Changing :
            (Refused(m) /\ mutation[m].kind = "cancelMine" /\ me = "volunteer" /\ fails = 0)
                => table.others # mutation[m].seen ]_vars

\* Every change ends, and its button comes back, even when a refresh it awaits fails.
MutationSettles ==
    \A m \in Changing : (mutation[m] # NoMutation) ~> (mutation[m] = NoMutation)
=============================================================================
