--------------------------- MODULE EventCatalogProofs ---------------------------
(***************************************************************************)
(* Theorems about EventCatalog, for any ids, dates and number of calls in  *)
(* progress: its rows are well formed, nothing is orphaned, only the       *)
(* organizer writes in an event, and slots lie inside it unless it moved.  *)
(***************************************************************************)
EXTENDS EventCatalog, TLAPS

-----------------------------------------------------------------------------
(* Rows and patches *)

LEMMA MissingRows == Live(Unused) = FALSE /\ Live(Deleted) = FALSE
    BY DEF Live, Missing

\* A row that is there has its fields.
LEMMA LiveRows ==
    ASSUME CTypeOK
    PROVE  /\ \A e \in Events : Live(event[e]) => event[e] \in EventRows
           /\ \A m \in Missions : Live(mission[m]) => mission[m] \in MissionRows
           /\ \A s \in Slots : Live(slot[s]) => slot[s] \in SlotRows
    BY DEF CTypeOK, Live

LEMMA RowsAreLive ==
    /\ \A row \in EventRows : Live(row)
    /\ \A row \in MissionRows : Live(row)
    /\ \A row \in SlotRows : Live(row)
    BY DEF Live, Missing, Unused, Deleted, EventRows, MissionRows, SlotRows, EventStatus

\* An update of an event leaves a row, of the same organizer.
LEMMA PatchedEvent ==
    ASSUME NEW row \in EventRows, NEW patch \in AllEventPatches
    PROVE  Patched(row, patch) \in EventRows /\ Patched(row, patch).organizer = row.organizer
<1>1. row = [status |-> row.status, organizer |-> row.organizer, start |-> row.start,
             end |-> row.end, address |-> row.address]
      /\ row.status \in EventStatus /\ row.organizer \in Users /\ row.start \in Dates
      /\ row.end \in Dates /\ row.address \in Addresses
    BY DEF EventRows
<1>2. DOMAIN row = {"status", "organizer", "start", "end", "address"}
    BY <1>1
<1>3. /\ "organizer" \notin DOMAIN patch
      /\ "status" \in DOMAIN patch => patch["status"] \in EventStatus
      /\ "start" \in DOMAIN patch => patch["start"] \in Dates
      /\ "end" \in DOMAIN patch => patch["end"] \in Dates
      /\ "address" \in DOMAIN patch => patch["address"] \in Addresses
    <2>1. PICK sent \in SUBSET {"start", "end", "address", "status"}, form \in EventForms :
            patch = [f \in sent |-> form[f]]
        BY DEF AllEventPatches
    <2>2. /\ form["start"] \in Dates /\ form["end"] \in Dates
          /\ form["address"] \in Addresses /\ form["status"] \in EventStatus
        BY DEF EventForms
    <2> QED BY <2>1, <2>2
<1> DEFINE after(f) == IF f \in DOMAIN patch THEN patch[f] ELSE row[f]
<1>4. Patched(row, patch) = [status |-> after("status"), organizer |-> after("organizer"),
             start |-> after("start"), end |-> after("end"), address |-> after("address")]
    BY <1>2 DEF Patched
<1>5. /\ after("status") \in EventStatus /\ after("organizer") = row.organizer
      /\ after("start") \in Dates /\ after("end") \in Dates /\ after("address") \in Addresses
    BY <1>1, <1>3
<1> HIDE DEF after
<1>6. QED
    BY <1>1, <1>4, <1>5 DEF EventRows

\* An update of a slot leaves a row, of the same mission; its dates come from the patch
\* or from the row.
LEMMA PatchedSlot ==
    ASSUME NEW row \in SlotRows, NEW patch \in SlotPatches
    PROVE  /\ Patched(row, patch) \in SlotRows
           /\ Patched(row, patch).mission = row.mission
           /\ Patched(row, patch).start = Patched(Span(row), patch).start
           /\ Patched(row, patch).end = Patched(Span(row), patch).end
<1>1. row = [status |-> row.status, mission |-> row.mission, start |-> row.start, end |-> row.end]
      /\ row.status = "SET" /\ row.mission \in Missions /\ row.start \in Dates /\ row.end \in Dates
    BY DEF SlotRows
<1>2. DOMAIN row = {"status", "mission", "start", "end"}
    BY <1>1
<1>3. /\ "mission" \notin DOMAIN patch /\ "status" \notin DOMAIN patch
      /\ "start" \in DOMAIN patch => patch["start"] \in Dates
      /\ "end" \in DOMAIN patch => patch["end"] \in Dates
    BY DEF SlotPatches
<1> DEFINE after(f) == IF f \in DOMAIN patch THEN patch[f] ELSE row[f]
<1>4. Patched(row, patch) = [status |-> after("status"), mission |-> after("mission"),
             start |-> after("start"), end |-> after("end")]
    BY <1>2 DEF Patched
<1>5. Patched(Span(row), patch) = [start |-> after("start"), end |-> after("end")]
    BY DEF Patched, Span
<1>6. /\ after("status") = "SET" /\ after("mission") = row.mission
      /\ after("start") \in Dates /\ after("end") \in Dates
    BY <1>1, <1>3
<1> HIDE DEF after
<1>7. QED
    BY <1>1, <1>4, <1>5, <1>6 DEF SlotRows

-----------------------------------------------------------------------------
(* Calls in progress *)

\* What a call in progress carries, by its operation.
LEMMA CallFields ==
    ASSUME NEW c \in Calls \cup {Idle}
    PROVE  /\ c.op = "createEvent" => c.row \in EventRows
           /\ c.op = "updateEvent" => c.event \in Events /\ c.patch \in AllEventPatches
           /\ c.op \in {"cancelEvent", "removeEvent", "createMission"} => c.event \in Events
           /\ c.op = "removeMission" => c.mission \in Missions
           /\ c.op = "createSlot" => c.row \in SlotRows /\ c.within \in Spans
           /\ c.op = "updateSlot" =>
                c.slot \in Slots /\ c.patch \in SlotPatches /\ c.old \in Spans /\ c.within \in Spans
           /\ c.op = "removeSlot" => c.slot \in Slots
<1>1. c \in Calls => c \in Calls
    OBVIOUS
<1>2. EventPatches \subseteq AllEventPatches
    BY InputsAssumption
<1>3. CASE c = Idle
    BY <1>3 DEF Idle
<1>4. CASE c \in [op : {"createEvent"}, actor : Users, row : EventRows]
    BY <1>4
<1>5. CASE c \in [op : {"updateEvent"}, actor : Users, event : Events, patch : EventPatches]
    BY <1>2, <1>5
<1>6. CASE c \in [op : {"cancelEvent", "removeEvent", "createMission"}, actor : Users, event : Events]
    BY <1>6
<1>7. CASE c \in [op : {"removeMission"}, actor : Users, mission : Missions]
    BY <1>7
<1>8. CASE c \in [op : {"createSlot"}, actor : Users, row : SlotRows, within : Spans]
    BY <1>8
<1>9. CASE c \in [op : {"updateSlot"}, actor : Users, slot : Slots, patch : SlotPatches,
                 old : Spans, within : Spans]
    BY <1>9
<1>10. CASE c \in [op : {"removeSlot"}, actor : Users, slot : Slots]
    BY <1>10
<1>11. QED
    BY <1>3, <1>4, <1>5, <1>6, <1>7, <1>8, <1>9, <1>10 DEF Calls

\* The parents of a row that is there are there.
LEMMA Parents ==
    ASSUME CTypeOK, NoOrphans
    PROVE  /\ \A m \in Missions : Live(mission[m]) =>
                EventOf(m) \in Events /\ Live(event[EventOf(m)])
           /\ \A s \in Slots : Live(slot[s]) =>
                /\ slot[s].mission \in Missions /\ Live(mission[slot[s].mission])
                /\ EventOfSlot(s) \in Events /\ Live(event[EventOfSlot(s)])
    BY LiveRows DEF NoOrphans, EventOf, EventOfSlot, MissionRows, SlotRows

LEMMA SpansOfRows ==
    /\ \A row \in EventRows : Span(row) \in Spans
    /\ \A row \in SlotRows : Span(row) \in Spans
    BY DEF Span, Spans, EventRows, SlotRows

\* What the handlers' checks begin is a call.
LEMMA ReadsBegin ==
    ASSUME CTypeOK, NoOrphans, NEW r \in Requests, NEW u \in Users, Reads(r, u)
    PROVE  \E c \in Calls : c.actor = u /\ Begin(r, c)
<1> USE LiveRows DEF Begin
<1>1. CASE \E row \in NewEvents : CreateEventReads(r, u, row)
    <2>1. PICK row \in NewEvents : CreateEventReads(r, u, row)
        BY <1>1
    <2>2. row \in EventRows
        BY InputsAssumption
    <2>3. [op |-> "createEvent", actor |-> u, row |-> row] \in Calls
        BY <2>2 DEF Calls
    <2>4. QED
        BY <2>1, <2>3 DEF CreateEventReads
<1>2. CASE \E e \in Events : \E patch \in EventPatches : UpdateEventReads(r, u, e, patch)
    <2>1. PICK e \in Events, patch \in EventPatches : UpdateEventReads(r, u, e, patch)
        BY <1>2
    <2>2. [op |-> "updateEvent", actor |-> u, event |-> e, patch |-> patch] \in Calls
        BY DEF Calls
    <2>3. QED
        BY <2>1, <2>2 DEF UpdateEventReads
<1>3. CASE \E e \in Events : CancelEventReads(r, u, e) \/ RemoveEventReads(r, u, e) \/ CreateMissionReads(r, u, e)
    <2>1. \A e \in Events, op \in {"cancelEvent", "removeEvent", "createMission"} :
            [op |-> op, actor |-> u, event |-> e] \in Calls
        BY DEF Calls
    <2>2. QED
        BY <1>3, <2>1 DEF CancelEventReads, RemoveEventReads, CreateMissionReads
<1>4. CASE \E m \in Missions : RemoveMissionReads(r, u, m)
    <2>1. \A m \in Missions : [op |-> "removeMission", actor |-> u, mission |-> m] \in Calls
        BY DEF Calls
    <2>2. QED
        BY <1>4, <2>1 DEF RemoveMissionReads
<1>5. CASE \E row \in SlotRows : CreateSlotReads(r, u, row)
    <2>1. PICK row \in SlotRows : CreateSlotReads(r, u, row)
        BY <1>5
    <2> DEFINE within == Span(event[EventOf(row.mission)])
    <2>2. within \in Spans
        BY <2>1, Parents, SpansOfRows DEF CreateSlotReads, OwnsMission, SlotRows
    <2>3. [op |-> "createSlot", actor |-> u, row |-> row, within |-> within] \in Calls
        BY <2>2 DEF Calls
    <2>4. QED
        BY <2>1, <2>3 DEF CreateSlotReads
<1>6. CASE \E s \in Slots : \E patch \in SlotPatches : UpdateSlotReads(r, u, s, patch)
    <2>1. PICK s \in Slots, patch \in SlotPatches : UpdateSlotReads(r, u, s, patch)
        BY <1>6
    <2> DEFINE within == Span(event[EventOfSlot(s)])
    <2>2. within \in Spans /\ Span(slot[s]) \in Spans
        BY <2>1, Parents, SpansOfRows DEF UpdateSlotReads, OwnsSlot
    <2>3. [op |-> "updateSlot", actor |-> u, slot |-> s, patch |-> patch,
           old |-> Span(slot[s]), within |-> within] \in Calls
        BY <2>2 DEF Calls
    <2>4. QED
        BY <2>1, <2>3 DEF UpdateSlotReads
<1>7. CASE \E s \in Slots : RemoveSlotReads(r, u, s)
    <2>1. \A s \in Slots : [op |-> "removeSlot", actor |-> u, slot |-> s] \in Calls
        BY DEF Calls
    <2>2. QED
        BY <1>7, <2>1 DEF RemoveSlotReads
<1>8. QED
    BY <1>1, <1>2, <1>3, <1>4, <1>5, <1>6, <1>7 DEF Reads

-----------------------------------------------------------------------------
(* Types, and no orphans *)

\* The call that writes, with what it carries.
LEMMA WritersCall ==
    ASSUME CTypeOK, NEW r \in Requests, NEW op, Runs(r, op)
    PROVE  /\ req[r] \in Calls \cup {Idle} /\ req[r].op = op
           /\ req' \in [Requests -> Calls \cup {Idle}]
    BY DEF CTypeOK, Runs

LEMMA WritesTyped ==
    ASSUME CTypeOK, NEW r \in Requests, Writes(r)
    PROVE  CTypeOK'
<1> USE WritersCall, LiveRows DEF CTypeOK
<1> Deleted \in Missing
    BY DEF Missing
<1>1. CASE CreateEventWrites(r)
    BY <1>1, CallFields DEF CreateEventWrites
<1>2. CASE UpdateEventWrites(r)
    BY <1>2, CallFields, PatchedEvent DEF UpdateEventWrites
<1>3. CASE CancelEventWrites(r)
    BY <1>3, CallFields DEF CancelEventWrites, EventRows, EventStatus
<1>4. CASE RemoveEventWrites(r)
    BY <1>4, CallFields DEF RemoveEventWrites, DeleteIf
<1>5. CASE CreateMissionWrites(r)
    BY <1>5, CallFields DEF CreateMissionWrites, MissionRows
<1>6. CASE RemoveMissionWrites(r)
    BY <1>6, CallFields DEF RemoveMissionWrites, DeleteIf
<1>7. CASE CreateSlotWrites(r)
    BY <1>7, CallFields DEF CreateSlotWrites
<1>8. CASE UpdateSlotWrites(r)
    BY <1>8, CallFields, PatchedSlot DEF UpdateSlotWrites
<1>9. CASE RemoveSlotWrites(r)
    BY <1>9, CallFields DEF RemoveSlotWrites
<1>10. QED
    BY <1>1, <1>2, <1>3, <1>4, <1>5, <1>6, <1>7, <1>8, <1>9 DEF Writes

\* The tables after each statement: which rows appear, change and go.
LEMMA NoOrphansAfterWrites ==
    ASSUME CTypeOK, NoOrphans, NEW r \in Requests, Writes(r)
    PROVE  NoOrphans'
<1> USE WritersCall, LiveRows, MissingRows, RowsAreLive
<1> DEFINE Kept == \A e \in Events : Live(event[e]) => Live(event'[e])
<1>1. ASSUME Kept, UNCHANGED <<mission, slot>> PROVE NoOrphans'
    BY <1>1, Parents DEF NoOrphans, EventOf, Live
<1>2. CASE CreateEventWrites(r)
    <2>1. Kept
        BY <1>2, CallFields DEF CreateEventWrites, CTypeOK
    <2>2. QED
        BY <1>1, <1>2, <2>1 DEF CreateEventWrites
<1>3. CASE UpdateEventWrites(r)
    <2>1. Kept
        BY <1>3, CallFields, PatchedEvent DEF UpdateEventWrites, CTypeOK
    <2>2. QED
        BY <1>1, <1>3, <2>1 DEF UpdateEventWrites
<1>4. CASE CancelEventWrites(r)
    <2>1. Kept
        BY <1>4, CallFields DEF CancelEventWrites, CTypeOK, EventRows, EventStatus
    <2>2. QED
        BY <1>1, <1>4, <2>1 DEF CancelEventWrites
<1>5. CASE RemoveEventWrites(r)
    <2> DEFINE e == req[r].event
    <2>1. e \in Events /\ \A x \in Events \ {e} : event'[x] = event[x]
        BY <1>5, CallFields DEF RemoveEventWrites, CTypeOK
    <2>2. \A m \in Missions : mission'[m] = IF Live(mission[m]) /\ EventOf(m) = e THEN Deleted ELSE mission[m]
        BY <1>5 DEF RemoveEventWrites, DeleteIf, CTypeOK
    <2>3. \A s \in Slots : slot'[s] = IF Live(slot[s]) /\ EventOfSlot(s) = e THEN Deleted ELSE slot[s]
        BY <1>5 DEF RemoveEventWrites, DeleteIf, CTypeOK
    <2>4. \A m \in Missions : Live(mission'[m]) => mission'[m] = mission[m] /\ EventOf(m) # e /\ Live(mission[m])
        BY <2>2
    <2>5. \A s \in Slots : Live(slot'[s]) => slot'[s] = slot[s] /\ EventOfSlot(s) # e /\ Live(slot[s])
        BY <2>3
    <2>6. ASSUME NEW m \in Missions, Live(mission'[m]) PROVE Live(event'[mission'[m].event])
        BY <2>1, <2>4, <2>6, Parents DEF EventOf
    <2>7. ASSUME NEW s \in Slots, Live(slot'[s]) PROVE Live(mission'[slot'[s].mission])
        BY <2>2, <2>5, <2>7, Parents DEF EventOf, EventOfSlot
    <2>8. QED
        BY <2>6, <2>7 DEF NoOrphans, EventOf, Live
<1>6. CASE CreateMissionWrites(r)
    <2>1. PICK m \in Missions : mission[m] = Unused
              /\ mission' = [mission EXCEPT ![m] = [status |-> "SET", event |-> req[r].event]]
        BY <1>6 DEF CreateMissionWrites
    <2>2. UNCHANGED <<event, slot>> /\ Live(event[req[r].event])
        BY <1>6 DEF CreateMissionWrites
    <2>3. mission'[m].event = req[r].event /\ \A x \in Missions \ {m} : mission'[x] = mission[x]
        BY <2>1 DEF CTypeOK
    <2>4. \A x \in Missions : Live(mission'[x]) => Live(event[mission'[x].event])
        BY <2>1, <2>2, <2>3, Parents DEF EventOf
    <2>5. \A s \in Slots : Live(slot[s]) => slot[s].mission # m
        BY <2>1, Parents
    <2>6. \A s \in Slots : Live(slot[s]) => Live(mission'[slot[s].mission])
        BY <2>3, <2>5, Parents
    <2>7. QED
        BY <2>2, <2>4, <2>6 DEF NoOrphans, EventOf, Live
<1>7. CASE RemoveMissionWrites(r)
    <2> DEFINE m == req[r].mission
    <2>1. m \in Missions /\ event' = event
        BY <1>7, CallFields DEF RemoveMissionWrites
    <2>2. mission'[m] = Deleted /\ \A x \in Missions \ {m} : mission'[x] = mission[x]
        BY <1>7, <2>1 DEF RemoveMissionWrites, CTypeOK
    <2>3. \A s \in Slots : slot'[s] = IF Live(slot[s]) /\ slot[s].mission = m THEN Deleted ELSE slot[s]
        BY <1>7 DEF RemoveMissionWrites, DeleteIf, CTypeOK
    <2>4. \A s \in Slots : Live(slot'[s]) => slot'[s] = slot[s] /\ slot[s].mission # m /\ Live(slot[s])
        BY <2>3
    <2>5. \A x \in Missions : Live(mission'[x]) => Live(event[mission'[x].event])
        BY <2>1, <2>2, Parents DEF EventOf
    <2>6. \A s \in Slots : Live(slot'[s]) => Live(mission'[slot'[s].mission])
        BY <2>2, <2>4, Parents
    <2>7. QED
        BY <2>1, <2>5, <2>6 DEF NoOrphans, EventOf, Live
<1>8. CASE CreateSlotWrites(r)
    <2>1. PICK s \in Slots : slot[s] = Unused /\ slot' = [slot EXCEPT ![s] = req[r].row]
        BY <1>8 DEF CreateSlotWrites
    <2>2. UNCHANGED <<event, mission>> /\ Live(mission[req[r].row.mission])
        BY <1>8 DEF CreateSlotWrites
    <2>3. \A x \in Slots : Live(slot'[x]) => Live(mission[slot'[x].mission])
        BY <2>1, <2>2, Parents DEF CTypeOK
    <2>4. QED
        BY <2>2, <2>3 DEF NoOrphans, EventOf, Live
<1>9. CASE UpdateSlotWrites(r)
    <2> DEFINE s == req[r].slot
    <2>1. s \in Slots /\ Live(slot[s]) /\ req[r].patch \in SlotPatches /\ UNCHANGED <<event, mission>>
          /\ slot' = [slot EXCEPT ![s] = Patched(@, req[r].patch)]
        BY <1>9, CallFields DEF UpdateSlotWrites
    <2>2. slot'[s].mission = slot[s].mission /\ \A x \in Slots \ {s} : slot'[x] = slot[x]
        BY <2>1, PatchedSlot DEF CTypeOK
    <2>3. \A x \in Slots : Live(slot'[x]) => Live(mission[slot'[x].mission])
        BY <2>1, <2>2, Parents
    <2>4. QED
        BY <2>1, <2>3 DEF NoOrphans, EventOf, Live
<1>10. CASE RemoveSlotWrites(r)
    <2>1. req[r].slot \in Slots /\ UNCHANGED <<event, mission>>
          /\ slot' = [slot EXCEPT ![req[r].slot] = Deleted]
        BY <1>10, CallFields DEF RemoveSlotWrites
    <2>2. \A x \in Slots : Live(slot'[x]) => slot'[x] = slot[x]
        BY <2>1 DEF CTypeOK
    <2>3. \A x \in Slots : Live(slot'[x]) => Live(mission[slot'[x].mission])
        BY <2>1, <2>2, Parents
    <2>4. QED
        BY <2>1, <2>3 DEF NoOrphans, EventOf, Live
<1>11. QED
    BY <1>2, <1>3, <1>4, <1>5, <1>6, <1>7, <1>8, <1>9, <1>10 DEF Writes

LEMMA CatalogStep ==
    ASSUME CTypeOK, NoOrphans, [Next]_vars
    PROVE  CTypeOK' /\ NoOrphans'
<1>1. ASSUME UNCHANGED tables PROVE NoOrphans'
    BY <1>1 DEF tables, NoOrphans, EventOf, Live
<1>2. ASSUME NEW r \in Requests, NEW u \in Users, Reads(r, u) PROVE CTypeOK' /\ NoOrphans'
    <2>1. PICK c \in Calls : Begin(r, c)
        BY <1>2, ReadsBegin
    <2>2. UNCHANGED tables /\ CTypeOK'
        BY <2>1 DEF Begin, CTypeOK, tables
    <2>3. QED
        BY <1>1, <2>2
<1>3. ASSUME NEW r \in Requests, Writes(r) PROVE CTypeOK' /\ NoOrphans'
    BY <1>3, WritesTyped, NoOrphansAfterWrites
<1>4. ASSUME NEW r \in Requests, GivesUp(r) PROVE CTypeOK' /\ NoOrphans'
    BY <1>1, <1>4 DEF GivesUp, CTypeOK, tables
<1>5. CASE UNCHANGED vars
    BY <1>1, <1>5 DEF vars, CTypeOK, tables
<1>6. QED
    BY <1>2, <1>3, <1>4, <1>5 DEF Next

LEMMA CatalogStarts == Init => CTypeOK /\ NoOrphans
    BY MissingRows DEF Init, CTypeOK, NoOrphans, Missing

\* Rows are well formed, and no mission outlives its event nor a slot its mission, although
\* each may be created, from checks that passed, while its parent is deleted (the creates of
\* MissionService and SlotService, the cascades of the schema).  The two need each other: the
\* handlers read the event above a mission without asking whether it is there.
THEOREM CatalogHolds == Spec => [](CTypeOK /\ NoOrphans)
<1>1. CTypeOK /\ NoOrphans /\ [Next]_vars => CTypeOK' /\ NoOrphans'
    BY CatalogStep
<1>2. QED
    BY <1>1, CatalogStarts, PTL DEF Spec

\* Rows, calls and what they have read keep their types.
THEOREM CatalogTypeCorrect == Spec => []CTypeOK
    BY CatalogHolds, PTL

\* No mission without its event and no slot without its mission (the cascades of the schema
\* against the creates of MissionService and SlotService).
THEOREM NoOrphansHolds == Spec => []NoOrphans
    BY CatalogHolds, PTL

-----------------------------------------------------------------------------
(* Owners and checks *)

\* A row once given out never changes hands, and a deleted one never comes back.
LEMMA OwnersStay ==
    ASSUME CTypeOK, NoOrphans, [Next]_vars
    PROVE  /\ \A e \in Events : event[e] # Unused =>
                /\ event'[e] # Unused
                /\ Live(event'[e]) => Live(event[e]) /\ event'[e].organizer = event[e].organizer
           /\ \A m \in Missions : mission[m] # Unused =>
                /\ mission'[m] # Unused
                /\ Live(mission'[m]) => Live(mission[m]) /\ mission'[m].event = mission[m].event
           /\ \A s \in Slots : slot[s] # Unused =>
                /\ slot'[s] # Unused
                /\ Live(slot'[s]) => Live(slot[s]) /\ slot'[s].mission = slot[s].mission
<1> USE WritersCall, LiveRows, MissingRows, RowsAreLive
<1> Deleted # Unused
    BY DEF Deleted, Unused
<1> DEFINE EventsStay == \A e \in Events : event[e] # Unused =>
                /\ event'[e] # Unused
                /\ Live(event'[e]) => Live(event[e]) /\ event'[e].organizer = event[e].organizer
           MissionsStay == \A m \in Missions : mission[m] # Unused =>
                /\ mission'[m] # Unused
                /\ Live(mission'[m]) => Live(mission[m]) /\ mission'[m].event = mission[m].event
           SlotsStay == \A s \in Slots : slot[s] # Unused =>
                /\ slot'[s] # Unused
                /\ Live(slot'[s]) => Live(slot[s]) /\ slot'[s].mission = slot[s].mission
<1>1. UNCHANGED event => EventsStay
    OBVIOUS
<1>2. UNCHANGED mission => MissionsStay
    OBVIOUS
<1>3. UNCHANGED slot => SlotsStay
    OBVIOUS
<1>4. ASSUME NEW r \in Requests, CreateEventWrites(r) PROVE EventsStay
    BY <1>4 DEF CreateEventWrites, CTypeOK
<1>5. ASSUME NEW r \in Requests, UpdateEventWrites(r) PROVE EventsStay
    BY <1>5, CallFields, PatchedEvent DEF UpdateEventWrites, CTypeOK
<1>6. ASSUME NEW r \in Requests, CancelEventWrites(r) PROVE EventsStay
    BY <1>6, CallFields DEF CancelEventWrites, CTypeOK, EventRows, EventStatus, Unused
<1>7. ASSUME NEW r \in Requests, RemoveEventWrites(r) PROVE EventsStay /\ MissionsStay /\ SlotsStay
    BY <1>7, CallFields DEF RemoveEventWrites, DeleteIf, CTypeOK
<1>8. ASSUME NEW r \in Requests, CreateMissionWrites(r) PROVE MissionsStay
    BY <1>8, CallFields DEF CreateMissionWrites, CTypeOK
<1>9. ASSUME NEW r \in Requests, RemoveMissionWrites(r) PROVE MissionsStay /\ SlotsStay
    BY <1>9, CallFields DEF RemoveMissionWrites, DeleteIf, CTypeOK
<1>10. ASSUME NEW r \in Requests, CreateSlotWrites(r) PROVE SlotsStay
    BY <1>10 DEF CreateSlotWrites, CTypeOK
<1>11. ASSUME NEW r \in Requests, UpdateSlotWrites(r) PROVE SlotsStay
    BY <1>11, CallFields, PatchedSlot DEF UpdateSlotWrites, CTypeOK
<1>12. ASSUME NEW r \in Requests, RemoveSlotWrites(r) PROVE SlotsStay
    BY <1>12, CallFields DEF RemoveSlotWrites, CTypeOK
<1> HIDE DEF EventsStay, MissionsStay, SlotsStay
<1>13. ASSUME NEW r \in Requests, Writes(r) PROVE EventsStay /\ MissionsStay /\ SlotsStay
    BY <1>1, <1>2, <1>3, <1>4, <1>5, <1>6, <1>7, <1>8, <1>9, <1>10, <1>11, <1>12, <1>13
        DEF Writes, CreateEventWrites, UpdateEventWrites, CancelEventWrites, CreateMissionWrites,
            RemoveMissionWrites, CreateSlotWrites, UpdateSlotWrites, RemoveSlotWrites
<1>14. UNCHANGED tables => EventsStay /\ MissionsStay /\ SlotsStay
    BY <1>1, <1>2, <1>3 DEF tables
<1>15. ASSUME NEW r \in Requests, NEW u \in Users, Reads(r, u) PROVE UNCHANGED tables
    BY <1>15, ReadsBegin DEF Begin
<1>16. EventsStay /\ MissionsStay /\ SlotsStay
    BY <1>13, <1>14, <1>15 DEF Next, GivesUp, tables, vars
<1>17. QED
    BY <1>16 DEF EventsStay, MissionsStay, SlotsStay

\* A row was given out, and is its organizer's as long as it is there.
EventIsOf(e, u) == event[e] # Unused /\ (Live(event[e]) => event[e].organizer = u)

MissionIsOf(m, u) == mission[m] # Unused /\ (Live(mission[m]) => event[EventOf(m)].organizer = u)

SlotIsOf(s, u) == slot[s] # Unused /\ (Live(slot[s]) => event[EventOfSlot(s)].organizer = u)

\* The call on a row is its owner's.
OwnerChecked(c) ==
    /\ c.op = "createEvent" => c.row.organizer = c.actor
    /\ c.op \in {"updateEvent", "cancelEvent", "removeEvent", "createMission"}
            => EventIsOf(c.event, c.actor)
    /\ c.op = "removeMission" => MissionIsOf(c.mission, c.actor)
    /\ c.op = "createSlot" => MissionIsOf(c.row.mission, c.actor)
    /\ c.op \in {"updateSlot", "removeSlot"} => SlotIsOf(c.slot, c.actor)

\* The dates the call would leave lie in those of the event as they were read.
DatesChecked(c) ==
    /\ c.op = "createSlot" => Within(c.row, c.within) /\ c.row.start < c.row.end
    /\ c.op = "updateSlot" => Within(Patched(c.old, c.patch), c.within)

\* What is left of the checks of a call when it writes: whose rows it is about, and what it
\* found of their dates.
ChecksHeld == \A r \in Requests : OwnerChecked(req[r]) /\ DatesChecked(req[r])

LEMMA StillTheirs ==
    ASSUME CTypeOK, NoOrphans, [Next]_vars, NEW u
    PROVE  /\ \A e \in Events : EventIsOf(e, u) => EventIsOf(e, u)'
           /\ \A m \in Missions : MissionIsOf(m, u) => MissionIsOf(m, u)'
           /\ \A s \in Slots : SlotIsOf(s, u) => SlotIsOf(s, u)'
<1> USE OwnersStay, MissingRows, Parents
<1> CTypeOK' /\ NoOrphans'
    BY CatalogStep
<1>1. \A m \in Missions : Live(mission'[m]) => Live(event'[mission'[m].event])
    BY DEF NoOrphans, EventOf, Live
<1>2. \A s \in Slots : Live(slot'[s]) => Live(mission'[slot'[s].mission])
    BY DEF NoOrphans, Live
<1>3. ASSUME NEW e \in Events, EventIsOf(e, u) PROVE EventIsOf(e, u)'
    BY <1>3 DEF EventIsOf, Live
<1>4. ASSUME NEW m \in Missions, mission[m] # Unused, Live(mission'[m])
      PROVE  Live(mission[m]) /\ event'[mission'[m].event].organizer = event[EventOf(m)].organizer
    <2>1. Live(mission[m]) /\ mission'[m].event = mission[m].event
        BY <1>4
    <2>2. EventOf(m) \in Events /\ Live(event[EventOf(m)]) /\ Live(event'[EventOf(m)])
        BY <1>1, <1>4, <2>1 DEF EventOf
    <2>3. QED
        BY <2>1, <2>2 DEF EventOf
<1>5. ASSUME NEW m \in Missions, MissionIsOf(m, u) PROVE MissionIsOf(m, u)'
    BY <1>4, <1>5 DEF MissionIsOf, EventOf, Live
<1>6. ASSUME NEW s \in Slots, SlotIsOf(s, u) PROVE SlotIsOf(s, u)'
    <2>1. ASSUME Live(slot'[s]) PROVE event'[mission'[slot'[s].mission].event].organizer = u
        <3>1. Live(slot[s]) /\ slot'[s].mission = slot[s].mission
            BY <1>6, <2>1 DEF SlotIsOf
        <3>2. slot[s].mission \in Missions /\ Live(mission[slot[s].mission])
            BY <3>1
        <3>3. Live(mission'[slot[s].mission]) /\ mission[slot[s].mission] # Unused
            BY <1>2, <2>1, <3>1, <3>2
        <3>4. QED
            BY <1>4, <1>6, <3>1, <3>2, <3>3 DEF SlotIsOf, EventOfSlot
    <2>2. QED
        BY <1>6, <2>1 DEF SlotIsOf, EventOfSlot, EventOf, Live
<1>7. QED
    BY <1>3, <1>5, <1>6

\* The checks themselves.
LEMMA ReadsCheck ==
    ASSUME CTypeOK, NoOrphans, NEW r \in Requests, NEW u \in Users, Reads(r, u)
    PROVE  OwnerChecked(req'[r]) /\ DatesChecked(req'[r])
<1> USE MissingRows DEF Begin, OwnerChecked, DatesChecked
<1>1. ASSUME NEW row, CreateEventReads(r, u, row) PROVE OwnerChecked(req'[r]) /\ DatesChecked(req'[r])
    BY <1>1 DEF CreateEventReads, CTypeOK
<1>2. ASSUME NEW e, OwnsEvent(u, e) PROVE EventIsOf(e, u)
    BY <1>2 DEF OwnsEvent, EventIsOf
<1>3. ASSUME NEW e, NEW patch, UpdateEventReads(r, u, e, patch)
      PROVE OwnerChecked(req'[r]) /\ DatesChecked(req'[r])
    BY <1>2, <1>3 DEF UpdateEventReads, CTypeOK
<1>4. ASSUME NEW e, CancelEventReads(r, u, e) \/ RemoveEventReads(r, u, e) \/ CreateMissionReads(r, u, e)
      PROVE OwnerChecked(req'[r]) /\ DatesChecked(req'[r])
    BY <1>2, <1>4 DEF CancelEventReads, RemoveEventReads, CreateMissionReads, CTypeOK
<1>0. ASSUME NEW m, OwnsMission(u, m) PROVE MissionIsOf(m, u)
    BY <1>0 DEF OwnsMission, MissionIsOf
<1>5. ASSUME NEW m, RemoveMissionReads(r, u, m) PROVE OwnerChecked(req'[r]) /\ DatesChecked(req'[r])
    BY <1>0, <1>5 DEF RemoveMissionReads, CTypeOK
<1>6. ASSUME NEW row \in SlotRows, CreateSlotReads(r, u, row)
      PROVE OwnerChecked(req'[r]) /\ DatesChecked(req'[r])
    <2>1. Within(row, Span(event[EventOf(row.mission)])) /\ row.start < row.end
        BY <1>6 DEF CreateSlotReads, Within, Span
    <2>2. QED
        BY <1>0, <1>6, <2>1 DEF CreateSlotReads, CTypeOK
<1>7. ASSUME NEW s, OwnsSlot(u, s) PROVE SlotIsOf(s, u)
    BY <1>7 DEF OwnsSlot, SlotIsOf
<1>8. ASSUME NEW s \in Slots, NEW patch \in SlotPatches, UpdateSlotReads(r, u, s, patch)
      PROVE OwnerChecked(req'[r]) /\ DatesChecked(req'[r])
    <2>1. Within(Patched(Span(slot[s]), patch), Span(event[EventOfSlot(s)]))
        BY <1>8, LiveRows, PatchedSlot DEF UpdateSlotReads, OwnsSlot, Within, Span
    <2>2. QED
        BY <1>7, <1>8, <2>1 DEF UpdateSlotReads, CTypeOK
<1>9. ASSUME NEW s, RemoveSlotReads(r, u, s) PROVE OwnerChecked(req'[r]) /\ DatesChecked(req'[r])
    BY <1>7, <1>9 DEF RemoveSlotReads, CTypeOK
<1>10. QED
    BY <1>1, <1>3, <1>4, <1>5, <1>6, <1>8, <1>9 DEF Reads

\* In a step, each request stays as it is, ends, or has just passed its checks.
LEMMA OneAtATime ==
    ASSUME CTypeOK, NoOrphans, [Next]_vars, NEW r \in Requests
    PROVE  \/ req'[r] = req[r]
           \/ req'[r] = Idle /\ (Writes(r) \/ UNCHANGED tables)
           \/ UNCHANGED tables /\ \E u \in Users : Reads(r, u)
<1>1. ASSUME NEW x \in Requests, NEW u \in Users, Reads(x, u)
      PROVE  UNCHANGED tables /\ (r # x => req'[r] = req[r])
    BY <1>1, ReadsBegin DEF Begin, CTypeOK
<1>2. ASSUME NEW x \in Requests, Writes(x)
      PROVE  req'[x] = Idle /\ (r # x => req'[r] = req[r])
    BY <1>2 DEF Writes, CreateEventWrites, UpdateEventWrites, CancelEventWrites, RemoveEventWrites,
        CreateMissionWrites, RemoveMissionWrites, CreateSlotWrites, UpdateSlotWrites,
        RemoveSlotWrites, Runs, CTypeOK
<1>3. ASSUME NEW x \in Requests, GivesUp(x)
      PROVE  UNCHANGED tables /\ req'[x] = Idle /\ (r # x => req'[r] = req[r])
    BY <1>3 DEF GivesUp, CTypeOK
<1>4. QED
    BY <1>1, <1>2, <1>3 DEF Next, vars

LEMMA ChecksStep ==
    ASSUME CTypeOK, NoOrphans, ChecksHeld, [Next]_vars
    PROVE  ChecksHeld'
<1>1. SUFFICES ASSUME NEW r \in Requests PROVE OwnerChecked(req[r])' /\ DatesChecked(req[r])'
    BY DEF ChecksHeld
<1>2. CASE req'[r] = req[r]
    <2>1. DatesChecked(req[r])'
        BY <1>2 DEF ChecksHeld, DatesChecked, Within, Patched
    <2>2. OwnerChecked(req[r]) /\ req[r] \in Calls \cup {Idle}
        BY DEF ChecksHeld, CTypeOK
    <2>3. OwnerChecked(req[r])'
        BY <1>2, <2>2, StillTheirs, CallFields DEF OwnerChecked, SlotRows
    <2>4. QED
        BY <2>1, <2>3
<1>3. CASE req'[r] = Idle
    BY <1>3 DEF OwnerChecked, DatesChecked, Idle
<1>4. CASE UNCHANGED tables /\ \E u \in Users : Reads(r, u)
    <2>1. OwnerChecked(req'[r]) /\ DatesChecked(req'[r])
        BY <1>4, ReadsCheck
    <2>2. QED
        BY <1>4, <2>1 DEF OwnerChecked, DatesChecked, EventIsOf, MissionIsOf, SlotIsOf, Live, EventOf,
            EventOfSlot, tables, Within, Patched
<1>5. QED
    BY <1>2, <1>3, <1>4, OneAtATime

\* What a call found stays true of what it writes, however many statements later: a row
\* never changes hands, and is never given out again.
THEOREM ChecksAlwaysHeld == Spec => []ChecksHeld
<1>1. Init => ChecksHeld
    BY DEF Init, ChecksHeld, OwnerChecked, DatesChecked, Idle
<1>2. (CTypeOK /\ NoOrphans) /\ ChecksHeld /\ [Next]_vars => ChecksHeld'
    BY ChecksStep
<1>3. QED
    BY <1>1, <1>2, CatalogHolds, PTL DEF Spec

-----------------------------------------------------------------------------
(* What a call writes *)

\* A request that wrote in a step wrote its own statement.
LEMMA WroteIsWrites ==
    ASSUME CTypeOK, NoOrphans, [Next]_vars, NEW r \in Requests, Wrote(r)
    PROVE  Writes(r)
    BY OneAtATime DEF Wrote

\* A step that leaves a table alone writes nothing there for anybody.
LEMMA OwnRowsStep ==
    ASSUME CTypeOK, NoOrphans, ChecksHeld, NEW r \in Requests, Writes(r)
    PROVE  WritesInOwnEvents(r)
<1> DEFINE u == req[r].actor
           EventsOwn == \A e \in Events : event'[e] # event[e]
                => (IF Live(event[e]) THEN event[e] ELSE event'[e]).organizer = u
           MissionsOwn == \A m \in Missions : mission'[m] # mission[m]
                => OwnsEvent(u, (IF Live(mission[m]) THEN mission[m] ELSE mission'[m]).event)
           SlotsOwn == \A s \in Slots : slot'[s] # slot[s]
                => OwnsMission(u, (IF Live(slot[s]) THEN slot[s] ELSE slot'[s]).mission)
<1> USE WritersCall, LiveRows, MissingRows, CallFields, Parents DEF ChecksHeld, OwnerChecked
<1>0. /\ UNCHANGED event => EventsOwn
      /\ UNCHANGED mission => MissionsOwn
      /\ UNCHANGED slot => SlotsOwn
    OBVIOUS
<1>1. CASE CreateEventWrites(r)
    <2>1. EventsOwn
        BY <1>1 DEF CreateEventWrites, CTypeOK
    <2> QED BY <1>0, <1>1, <2>1 DEF CreateEventWrites, WritesInOwnEvents
<1>2. CASE UpdateEventWrites(r)
    <2>1. EventsOwn
        BY <1>2 DEF UpdateEventWrites, EventIsOf, CTypeOK
    <2> QED BY <1>0, <1>2, <2>1 DEF UpdateEventWrites, WritesInOwnEvents
<1>3. CASE CancelEventWrites(r)
    <2>1. EventsOwn
        BY <1>3 DEF CancelEventWrites, EventIsOf, CTypeOK
    <2> QED BY <1>0, <1>3, <2>1 DEF CancelEventWrites, WritesInOwnEvents
<1>4. CASE RemoveEventWrites(r)
    <2>1. EventsOwn
        BY <1>4 DEF RemoveEventWrites, EventIsOf, CTypeOK
    <2>2. MissionsOwn
        BY <1>4 DEF RemoveEventWrites, EventIsOf, EventOf, OwnsEvent, DeleteIf, CTypeOK
    <2>3. SlotsOwn
        BY <1>4 DEF RemoveEventWrites, EventIsOf, EventOfSlot, OwnsMission, DeleteIf, CTypeOK
    <2> QED BY <2>1, <2>2, <2>3 DEF WritesInOwnEvents
<1>5. CASE CreateMissionWrites(r)
    <2>1. MissionsOwn
        BY <1>5 DEF CreateMissionWrites, EventIsOf, OwnsEvent, CTypeOK
    <2> QED BY <1>0, <1>5, <2>1 DEF CreateMissionWrites, WritesInOwnEvents
<1>6. CASE RemoveMissionWrites(r)
    <2>1. MissionsOwn
        BY <1>6 DEF RemoveMissionWrites, MissionIsOf, EventOf, OwnsEvent, CTypeOK
    <2>2. SlotsOwn
        BY <1>6 DEF RemoveMissionWrites, MissionIsOf, OwnsMission, DeleteIf, CTypeOK
    <2> QED BY <1>0, <1>6, <2>1, <2>2 DEF RemoveMissionWrites, WritesInOwnEvents
<1>7. CASE CreateSlotWrites(r)
    <2>1. SlotsOwn
        BY <1>7 DEF CreateSlotWrites, MissionIsOf, OwnsMission, CTypeOK
    <2> QED BY <1>0, <1>7, <2>1 DEF CreateSlotWrites, WritesInOwnEvents
<1>8. CASE UpdateSlotWrites(r)
    <2>1. SlotsOwn
        BY <1>8 DEF UpdateSlotWrites, SlotIsOf, EventOfSlot, OwnsMission, CTypeOK
    <2> QED BY <1>0, <1>8, <2>1 DEF UpdateSlotWrites, WritesInOwnEvents
<1>9. CASE RemoveSlotWrites(r)
    <2>1. SlotsOwn
        BY <1>9 DEF RemoveSlotWrites, SlotIsOf, EventOfSlot, OwnsMission, CTypeOK
    <2> QED BY <1>0, <1>9, <2>1 DEF RemoveSlotWrites, WritesInOwnEvents
<1>10. QED
    BY <1>1, <1>2, <1>3, <1>4, <1>5, <1>6, <1>7, <1>8, <1>9 DEF Writes

\* An event, its missions and its slots are created, changed and deleted only by its
\* organizer's calls, although ownership is checked statements before the write
\* (findOwnedEventOrFail, verifyOwnership, checkOwnership).
THEOREM OnlyOrganizerWritesHolds == Spec => OnlyOrganizerWrites
<1>1. CTypeOK /\ NoOrphans /\ ChecksHeld /\ [Next]_vars
        => [\A r \in Requests : Wrote(r) => WritesInOwnEvents(r)]_vars
    BY WroteIsWrites, OwnRowsStep
<1>2. QED
    BY <1>1, CatalogHolds, ChecksAlwaysHeld, PTL DEF Spec, OnlyOrganizerWrites

LEMMA SlotDatesStep ==
    ASSUME CTypeOK, NoOrphans, ChecksHeld, NEW r \in Requests, Writes(r), NEW s \in Slots,
           WritesOverReadDates(r, s)
    PROVE  /\ Within(slot'[s], event[EventOf(slot'[s].mission)])
           /\ ~Live(slot[s]) => slot'[s].start < slot'[s].end
<1> USE WritersCall, LiveRows, MissingRows, CallFields
<1>1. slot'[s] # slot[s] /\ Live(slot'[s])
    BY DEF WritesOverReadDates
<1>2. CASE CreateSlotWrites(r)
    <2>1. slot'[s] = req[r].row /\ ~Live(slot[s])
        BY <1>1, <1>2 DEF CreateSlotWrites, CTypeOK
    <2>2. Within(req[r].row, req[r].within) /\ req[r].row.start < req[r].row.end
        BY <1>2 DEF CreateSlotWrites, ChecksHeld, DatesChecked
    <2>3. QED
        BY <2>1, <2>2 DEF WritesOverReadDates, Within, Span
<1>3. CASE UpdateSlotWrites(r)
    <2>1. s = req[r].slot /\ Live(slot[s]) /\ slot'[s] = Patched(slot[s], req[r].patch)
          /\ req[r].patch \in SlotPatches
        BY <1>1, <1>3 DEF UpdateSlotWrites, CTypeOK
    <2>2. Within(Patched(req[r].old, req[r].patch), req[r].within)
        BY <1>3 DEF UpdateSlotWrites, ChecksHeld, DatesChecked
    <2>3. req[r].old = Span(slot[s]) /\ req[r].within = Span(event[EventOf(slot'[s].mission)])
        BY <2>1 DEF WritesOverReadDates
    <2>4. QED
        BY <2>1, <2>2, <2>3, PatchedSlot DEF Within, Span
<1>4. CASE RemoveEventWrites(r) \/ RemoveMissionWrites(r) \/ RemoveSlotWrites(r)
    <2>1. Live(slot'[s]) => slot'[s] = slot[s]
        BY <1>4 DEF RemoveEventWrites, RemoveMissionWrites, RemoveSlotWrites, DeleteIf, CTypeOK
    <2>2. QED
        BY <1>1, <2>1
<1>5. QED
    BY <1>1, <1>2, <1>3, <1>4
        DEF Writes, CreateEventWrites, UpdateEventWrites, CancelEventWrites, CreateMissionWrites

\* A slot is written inside the dates of its event, and a new one ends after it starts, as
\* long as the dates that were read are still those of the tables (SlotService.create, update).
THEOREM FreshSlotInsideEventHolds == Spec => FreshSlotInsideEvent
<1>1. CTypeOK /\ NoOrphans /\ ChecksHeld /\ [Next]_vars
        => [\A r \in Requests, s \in Slots : WritesOverReadDates(r, s) =>
                /\ Within(slot'[s], event[EventOf(slot'[s].mission)])
                /\ ~Live(slot[s]) => slot'[s].start < slot'[s].end]_vars
    BY WroteIsWrites, SlotDatesStep DEF WritesOverReadDates
<1>2. QED
    BY <1>1, CatalogHolds, ChecksAlwaysHeld, PTL DEF Spec, FreshSlotInsideEvent

=============================================================================
