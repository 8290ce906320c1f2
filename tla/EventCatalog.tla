----------------------------- MODULE EventCatalog -----------------------------
(***************************************************************************)
(* What organizers put in the catalogue: events, their missions and the    *)
(* slots of those, created, edited, cancelled and deleted through          *)
(* EventService, MissionService and SlotService of the gateway.            *)
(*                                                                         *)
(* None of these handlers opens a transaction.  Each reads and checks, may *)
(* await another service (ms-auth, the geocoder), then runs one writing    *)
(* statement, so a handler is two steps:                                   *)
(*   - ...Reads   the checks.  A handler's several reads make one step:    *)
(*     an event's organizer and a row's parent never change and a deleted  *)
(*     id never comes back, so the last read decides;                      *)
(*   - ...Writes  the statement, with what the keys of the tables refuse.  *)
(* A refused call throws and leaves no trace: it is a stuttering step.     *)
(*                                                                         *)
(* Fields that no check and no other handler reads (titles, descriptions,  *)
(* programs, a mission's status) are left out; a slot's status and size    *)
(* are Participation's.                                                    *)
(***************************************************************************)
EXTENDS Naturals

CONSTANTS
    Users,
    Events, Missions, Slots,  \* the ids the tables will ever give out (bounds the model)
    Addresses,                \* unique_address keys; another line 2 is the same address
    Dates,                    \* a finite set of instants (bounds the model)
    Requests,                 \* calls in progress at a time (bounds the model)
    NewEvents, EventPatches   \* what creations and updates may send (bounds the model)

ASSUME DatesAssumption == Dates \subseteq Nat

VARIABLES
    event,    \* rows of Event, by id
    mission,  \* rows of Mission
    slot,     \* rows of Slot
    req       \* each request, between its reads and its write

tables == <<event, mission, slot>>

vars == <<event, mission, slot, req>>

-----------------------------------------------------------------------------
(* Rows and calls *)

\* OPEN stands for DRAFT and CLOSED too: no handler tells these three apart.
EventStatus == {"OPEN", "CANCELLED"}

EventRows == [status : EventStatus, organizer : Users, start : Dates, end : Dates,
              address : Addresses]

MissionRows == [status : {"SET"}, event : Events]

SlotRows == [status : {"SET"}, mission : Missions, start : Dates, end : Dates]

Unused == [status |-> "UNUSED"]

Deleted == [status |-> "DELETED"]

Missing == {Unused, Deleted}

\* A form of which an update may carry any of the fields (PartialType); the edit form of
\* the front carries them all.
EventForms == [start : Dates, end : Dates, address : Addresses, status : EventStatus]

AllEventPatches ==
    {[f \in sent |-> form[f]] :
        sent \in SUBSET {"start", "end", "address", "status"}, form \in EventForms}

ASSUME InputsAssumption == NewEvents \subseteq EventRows /\ EventPatches \subseteq AllEventPatches

\* An update of the status or the size alone has no dates.
SlotPatches == {<<>>} \cup [start : Dates] \cup [end : Dates] \cup [start : Dates, end : Dates]

Patched(row, patch) ==
    [f \in DOMAIN row |-> IF f \in DOMAIN patch THEN patch[f] ELSE row[f]]

Span(row) == [start |-> row.start, end |-> row.end]

Spans == [start : Dates, end : Dates]

Idle == [op |-> "NONE"]

Calls ==
    [op : {"createEvent"}, actor : Users, row : EventRows]
        \cup [op : {"updateEvent"}, actor : Users, event : Events, patch : EventPatches]
        \cup [op : {"cancelEvent", "removeEvent", "createMission"}, actor : Users, event : Events]
        \cup [op : {"removeMission"}, actor : Users, mission : Missions]
        \cup [op : {"createSlot"}, actor : Users, row : SlotRows, within : Spans]
        \cup [op : {"updateSlot"}, actor : Users, slot : Slots, patch : SlotPatches,
              old : Spans, within : Spans]
        \cup [op : {"removeSlot"}, actor : Users, slot : Slots]

CTypeOK ==
    /\ event \in [Events -> EventRows \cup Missing]
    /\ mission \in [Missions -> MissionRows \cup Missing]
    /\ slot \in [Slots -> SlotRows \cup Missing]
    /\ req \in [Requests -> Calls \cup {Idle}]

-----------------------------------------------------------------------------
(* Who owns what, and what the keys allow *)

Live(row) == row \notin Missing

EventOf(m) == mission[m].event

EventOfSlot(s) == EventOf(slot[s].mission)

\* findOwnedEventOrFail
OwnsEvent(u, e) == Live(event[e]) /\ event[e].organizer = u

\* verifyOwnership; checkOwnership of a mission
OwnsMission(u, m) == Live(mission[m]) /\ event[EventOf(m)].organizer = u

\* checkOwnership of a slot
OwnsSlot(u, s) == Live(slot[s]) /\ event[EventOfSlot(s)].organizer = u

SameEvent(a, b) ==
    a.organizer = b.organizer /\ a.address = b.address /\ a.start = b.start

\* hasEventConflict: another event of the organizer starts then and there.
Conflict(row, others) == \E e \in others : Live(event[e]) /\ SameEvent(event[e], row)

\* unique_event, as the table is when the statement runs.
UniqueEvent(row, others) == ~Conflict(row, others)

Within(a, b) == b.start <= a.start /\ a.end <= b.end

-----------------------------------------------------------------------------
(* Handlers: the checks *)

Begin(r, c) ==
    /\ req[r] = Idle
    /\ req' = [req EXCEPT ![r] = c]
    /\ UNCHANGED tables

\* EventService.create up to the geocoder: nothing compares the two dates.
CreateEventReads(r, u, row) ==
    /\ row.organizer = u
    /\ ~Conflict(row, Events)
    /\ Begin(r, [op |-> "createEvent", actor |-> u, row |-> row])

\* EventService.update: the patch over the row as read must meet no other event.
UpdateEventReads(r, u, e, patch) ==
    /\ OwnsEvent(u, e)
    /\ ~Conflict(Patched(event[e], patch), Events \ {e})
    /\ Begin(r, [op |-> "updateEvent", actor |-> u, event |-> e, patch |-> patch])

\* EventService.cancel: an event cancelled already is returned as it is.
CancelEventReads(r, u, e) ==
    /\ OwnsEvent(u, e)
    /\ event[e].status # "CANCELLED"
    /\ Begin(r, [op |-> "cancelEvent", actor |-> u, event |-> e])

RemoveEventReads(r, u, e) ==
    /\ OwnsEvent(u, e)
    /\ Begin(r, [op |-> "removeEvent", actor |-> u, event |-> e])

\* Variant: any signed-in user adds missions to any event.
CreateMissionReadsAnyone(r, u, e) ==
    /\ Live(event[e])
    /\ event[e].status # "CANCELLED"
    /\ Begin(r, [op |-> "createMission", actor |-> u, event |-> e])

\* MissionController.create: findOne does not find a cancelled event.
CreateMissionReads(r, u, e) ==
    /\ OwnsEvent(u, e)
    /\ event[e].status # "CANCELLED"
    /\ Begin(r, [op |-> "createMission", actor |-> u, event |-> e])

RemoveMissionReads(r, u, m) ==
    /\ OwnsMission(u, m)
    /\ Begin(r, [op |-> "removeMission", actor |-> u, mission |-> m])

\* Variant: the slot may end after the event.
CreateSlotReadsStartOnly(r, u, row) ==
    /\ OwnsMission(u, row.mission)
    /\ event[EventOf(row.mission)].start <= row.start
    /\ row.start < row.end
    /\ Begin(r, [op |-> "createSlot", actor |-> u, row |-> row,
                 within |-> Span(event[EventOf(row.mission)])])

\* SlotService.create
CreateSlotReads(r, u, row) ==
    /\ OwnsMission(u, row.mission)
    /\ Within(row, event[EventOf(row.mission)])
    /\ row.start < row.end
    /\ Begin(r, [op |-> "createSlot", actor |-> u, row |-> row,
                 within |-> Span(event[EventOf(row.mission)])])

\* SlotService.update: the patch over the dates as read; start and end are not compared.
UpdateSlotReads(r, u, s, patch) ==
    /\ OwnsSlot(u, s)
    /\ Within(Patched(slot[s], patch), event[EventOfSlot(s)])
    /\ Begin(r, [op |-> "updateSlot", actor |-> u, slot |-> s, patch |-> patch,
                 old |-> Span(slot[s]), within |-> Span(event[EventOfSlot(s)])])

RemoveSlotReads(r, u, s) ==
    /\ OwnsSlot(u, s)
    /\ Begin(r, [op |-> "removeSlot", actor |-> u, slot |-> s])

-----------------------------------------------------------------------------
(* Handlers: the statement *)

Runs(r, op) ==
    /\ req[r].op = op
    /\ req' = [req EXCEPT ![r] = Idle]

CreateEventWrites(r) ==
    /\ Runs(r, "createEvent")
    /\ UniqueEvent(req[r].row, Events)
    /\ \E e \in Events :
        /\ event[e] = Unused
        /\ event' = [event EXCEPT ![e] = req[r].row]
    /\ UNCHANGED <<mission, slot>>

UpdateEventWrites(r) ==
    LET e == req[r].event
        row == Patched(event[e], req[r].patch)
    IN  /\ Runs(r, "updateEvent")
        /\ Live(event[e])
        /\ UniqueEvent(row, Events \ {e})
        /\ event' = [event EXCEPT ![e] = row]
        /\ UNCHANGED <<mission, slot>>

\* Variant: another spelling of the status.
CancelEventWritesMisspelt(r) ==
    LET e == req[r].event
    IN  /\ Runs(r, "cancelEvent")
        /\ Live(event[e])
        /\ event' = [event EXCEPT ![e].status = "CANCELED"]
        /\ UNCHANGED <<mission, slot>>

CancelEventWrites(r) ==
    LET e == req[r].event
    IN  /\ Runs(r, "cancelEvent")
        /\ Live(event[e])
        /\ event' = [event EXCEPT ![e].status = "CANCELLED"]
        /\ UNCHANGED <<mission, slot>>

DeleteIf(table, Doomed(_)) ==
    [id \in DOMAIN table |-> IF Doomed(id) THEN Deleted ELSE table[id]]

\* onDelete: Cascade from Event to Mission to Slot (to Participation).
RemoveEventWrites(r) ==
    LET e == req[r].event
        InEvent(m) == Live(mission[m]) /\ EventOf(m) = e
        SlotInEvent(s) == Live(slot[s]) /\ EventOfSlot(s) = e
    IN  /\ Runs(r, "removeEvent")
        /\ Live(event[e])
        /\ event' = [event EXCEPT ![e] = Deleted]
        /\ mission' = DeleteIf(mission, InEvent)
        /\ slot' = DeleteIf(slot, SlotInEvent)

\* Variant: the event is not a foreign key.
CreateMissionUnconnected(r) ==
    /\ Runs(r, "createMission")
    /\ \E m \in Missions :
        /\ mission[m] = Unused
        /\ mission' = [mission EXCEPT ![m] = [status |-> "SET", event |-> req[r].event]]
    /\ UNCHANGED <<event, slot>>

\* Event: { connect }
CreateMissionWrites(r) ==
    /\ Runs(r, "createMission")
    /\ Live(event[req[r].event])
    /\ \E m \in Missions :
        /\ mission[m] = Unused
        /\ mission' = [mission EXCEPT ![m] = [status |-> "SET", event |-> req[r].event]]
    /\ UNCHANGED <<event, slot>>

RemoveMissionWrites(r) ==
    LET m == req[r].mission
        InMission(s) == Live(slot[s]) /\ slot[s].mission = m
    IN  /\ Runs(r, "removeMission")
        /\ Live(mission[m])
        /\ mission' = [mission EXCEPT ![m] = Deleted]
        /\ slot' = DeleteIf(slot, InMission)
        /\ UNCHANGED event

CreateSlotWrites(r) ==
    /\ Runs(r, "createSlot")
    /\ Live(mission[req[r].row.mission])
    /\ \E s \in Slots :
        /\ slot[s] = Unused
        /\ slot' = [slot EXCEPT ![s] = req[r].row]
    /\ UNCHANGED <<event, mission>>

UpdateSlotWrites(r) ==
    LET s == req[r].slot
    IN  /\ Runs(r, "updateSlot")
        /\ Live(slot[s])
        /\ slot' = [slot EXCEPT ![s] = Patched(@, req[r].patch)]
        /\ UNCHANGED <<event, mission>>

RemoveSlotWrites(r) ==
    LET s == req[r].slot
    IN  /\ Runs(r, "removeSlot")
        /\ Live(slot[s])
        /\ slot' = [slot EXCEPT ![s] = Deleted]
        /\ UNCHANGED <<event, mission>>

\* Another service refuses or fails, the statement is refused (unique key, foreign key, no
\* such row), or the gateway dies: nothing is written.
GivesUp(r) ==
    /\ req[r] # Idle
    /\ req' = [req EXCEPT ![r] = Idle]
    /\ UNCHANGED tables

-----------------------------------------------------------------------------
(* Specification *)

Init ==
    /\ event = [e \in Events |-> Unused]
    /\ mission = [m \in Missions |-> Unused]
    /\ slot = [s \in Slots |-> Unused]
    /\ req = [r \in Requests |-> Idle]

Reads(r, u) ==
    \/ \E row \in NewEvents : CreateEventReads(r, u, row)
    \/ \E e \in Events :
        \/ \E patch \in EventPatches : UpdateEventReads(r, u, e, patch)
        \/ CancelEventReads(r, u, e)
        \/ RemoveEventReads(r, u, e)
        \/ CreateMissionReads(r, u, e)
    \/ \E m \in Missions : RemoveMissionReads(r, u, m)
    \/ \E row \in SlotRows : CreateSlotReads(r, u, row)
    \/ \E s \in Slots :
        \/ \E patch \in SlotPatches : UpdateSlotReads(r, u, s, patch)
        \/ RemoveSlotReads(r, u, s)

Writes(r) ==
    \/ CreateEventWrites(r)
    \/ UpdateEventWrites(r)
    \/ CancelEventWrites(r)
    \/ RemoveEventWrites(r)
    \/ CreateMissionWrites(r)
    \/ RemoveMissionWrites(r)
    \/ CreateSlotWrites(r)
    \/ UpdateSlotWrites(r)
    \/ RemoveSlotWrites(r)

Next ==
    \E r \in Requests :
        \/ \E u \in Users : Reads(r, u)
        \/ Writes(r)
        \/ GivesUp(r)

Spec == Init /\ [][Next]_vars

-----------------------------------------------------------------------------
(* Properties *)

\* No mission outlives its event and no slot its mission, although a mission or a slot may
\* be created, from checks that passed, while its parent is deleted.
NoOrphans ==
    /\ \A m \in Missions : Live(mission[m]) => Live(event[EventOf(m)])
    /\ \A s \in Slots : Live(slot[s]) => Live(mission[slot[s].mission])

\* The request that writes in this step, if any.
Wrote(r) == req[r] # Idle /\ req'[r] = Idle /\ tables' # tables

\* What this step creates, changes or deletes is, or is put, in an event of the caller's.
WritesInOwnEvents(r) ==
    LET u == req[r].actor
        Was(old, new) == IF Live(old) THEN old ELSE new
    IN  /\ \A e \in Events : event'[e] # event[e] => Was(event[e], event'[e]).organizer = u
        /\ \A m \in Missions : mission'[m] # mission[m]
                => OwnsEvent(u, Was(mission[m], mission'[m]).event)
        /\ \A s \in Slots : slot'[s] # slot[s]
                => OwnsMission(u, Was(slot[s], slot'[s]).mission)

\* An event, its missions and its slots are created, changed and deleted only by calls of
\* the event's organizer, although ownership is checked along slot, mission and event and
\* statements before a write that names one id, while rows on that path come and go.
OnlyOrganizerWrites == [][\A r \in Requests : Wrote(r) => WritesInOwnEvents(r)]_vars

\* This step writes slot s over dates that are those its request had read.
WritesOverReadDates(r, s) ==
    /\ Wrote(r) /\ slot'[s] # slot[s] /\ Live(slot'[s])
    /\ req[r].within = Span(event[EventOf(slot'[s].mission)])
    /\ Live(slot[s]) => req[r].old = Span(slot[s])

\* A slot is written inside the dates of its event, provided that neither the event nor the
\* slot got other dates since they were read, and a new slot ends after it starts.
FreshSlotInsideEvent ==
    [][\A r \in Requests, s \in Slots : WritesOverReadDates(r, s) =>
        /\ Within(slot'[s], event[EventOf(slot'[s].mission)])
        /\ ~Live(slot[s]) => slot'[s].start < slot'[s].end]_vars
=============================================================================
