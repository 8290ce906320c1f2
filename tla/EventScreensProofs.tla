-------------------------- MODULE EventScreensProofs --------------------------
(***************************************************************************)
(* Theorems about EventScreens, for any number of acts of the user, of the *)
(* other party and of lost calls: what the screens show of the changes of  *)
(* their tab, and why one's own cancellation may be refused.               *)
(***************************************************************************)
EXTENDS EventScreens, TLAPS

-----------------------------------------------------------------------------
(* The inductive invariant *)

Entries ==
    [data : Answers \cup {Undefined}, fetch : Answers \cup {Idle, Asked, NotFound},
     stale : BOOLEAN, error : BOOLEAN]

Users == {"organizer", "volunteer", "both"}

\* The changes each user can make.
KindsOf(u) == IF u = "volunteer" THEN {"participate", "cancelMine"} ELSE Kinds

SeenValues == Nat \cup {Asked}

Mutations ==
    [kind : Kinds \cup {"none"}, phase : {"none", "sent", "done", "refreshing"},
     locks : SUBSET Kinds, wrote : [Facets -> Nat],
     todo : Seq(SUBSET Keys), wait : SUBSET Keys, seen : SeenValues]

\* A change of user u, on the tables t: what it wrote is in the tables, once it is done.
ChangeUnderWay(c, t, u) ==
    /\ c.phase = "none" => c.kind = "none"
    /\ c.phase # "none" => c.kind \in KindsOf(u)
    /\ c.phase # "refreshing" => c.todo = <<>> /\ c.wait = {}
    /\ c.phase = "done" =>
          /\ Kills(c.kind) \cap t.alive = {}
          /\ \A f \in Facets : f \notin ChangeOf(c.kind).writes => c.wrote[f] = 0
    /\ \A f \in Facets : c.wrote[f] <= t.rows[f]

MutationOK ==
    /\ mutation \in [Changing -> Mutations]
    /\ \A m \in Changing : ChangeUnderWay(mutation[m], table, me)

Tables == [rows : [Facets -> Nat], alive : SUBSET Records, part : Statuses, others : Nat]

TypesOK ==
    /\ me \in Users
    /\ page \in Pages
    /\ table \in Tables
    /\ cache \in [Keys -> Entries]
    /\ acked \in [Facets -> Nat]
    /\ late \in SUBSET Keys
    /\ fails \in Nat

\* The tab is told of no more than the tables have.
CountsOK == \A f \in Facets : acked[f] <= table.rows[f]

WaitsOK == \A m \in Changing : \A k \in mutation[m].wait : cache[k].fetch # Idle

ShapesOK == TypesOK /\ MutationOK /\ CountsOK /\ WaitsOK

\* An answer counts no change the tables do not.
Read(k, s) == \A f \in Reads(k) : s.rows[f] \in 0 .. table.rows[f]

Fresh(k, s) == \A f \in Reads(k) : s.rows[f] >= acked[f]

\* An answer on its way counts the acknowledged changes, or is known to be late.
FetchOK(k) ==
    cache[k].fetch \notin {Idle, Asked, NotFound} =>
        /\ Read(k, cache[k].fetch)
        /\ k \in late \/ Fresh(k, cache[k].fetch)

\* The keys a change leaves out: those of the records that go with the one it deletes, and
\* the missions of an organizer who has taken a place.
LeftOut(k) == Forgotten(k) \/ (CanEdit /\ k = "participations")

\* What is known counts them too, unless it is marked, will be, or is being asked for.
DataOK(k) ==
    \/ cache[k].data = Undefined \/ cache[k].fetch # Idle \/ cache[k].error \/ cache[k].stale
    \/ k \in late \/ Owed(k) \/ LeftOut(k)
    \/ Fresh(k, cache[k].data)

\* A page that observes what is marked has asked for it.
MarkOK(k) ==
    k \in Observes(page) /\ cache[k].stale =>
        cache[k].fetch # Idle \/ cache[k].error \/ cache[k].data = Undefined

EntryOK(k) == FetchOK(k) /\ DataOK(k) /\ MarkOK(k)

-----------------------------------------------------------------------------
(* One's own cancellation *)

\* Nothing but the other party ends what is shown as active.
Good(s) ==
    /\ s.others <= table.others
    /\ s.others = table.others /\ IsActive(s.part) => IsActive(table.part)

Cancelled(m) == mutation[m].kind = "cancelMine" /\ mutation[m].phase = "done"

Mine == cache["participations"]

MinePlain ==
    /\ table.alive = Records
    /\ ~Mine.error /\ Mine.fetch # NotFound
    /\ \A m \in Changing : mutation[m].kind = "cancelMine" => Mine.data # Undefined

\* What is known is good, or marked, or being asked for, or late, or a cancellation is not
\* acknowledged yet.
MineData ==
    Mine.data # Undefined =>
        \/ Good(Mine.data)
        \/ Mine.fetch # Idle \/ Mine.stale \/ "participations" \in late
        \/ \E m \in Changing : Cancelled(m)

\* A cancellation that is not acknowledged yet is missing from s.
Missing(m, s) == Cancelled(m) /\ s.rows["places"] < mutation[m].wrote["places"]

\* So is an answer on its way.
MineFetch ==
    Mine.fetch \notin {Idle, Asked} =>
        \/ Good(Mine.fetch)
        \/ "participations" \in late
        \/ \E m \in Changing : Missing(m, Mine.fetch)

\* A cancellation confirmed on a settled list is alone, and what was shown then still holds,
\* the other party apart.
SentFrom(m) ==
    mutation[m].kind = "cancelMine" /\ mutation[m].seen # Asked =>
        /\ \A n \in Changing \ {m} : mutation[n].kind = "none"
        /\ mutation[m].seen <= table.others
        /\ mutation[m].phase = "sent" /\ mutation[m].seen = table.others
              => IsActive(table.part)

MineSent == \A m \in Changing : SentFrom(m)

\* The volunteer's own list, as long as no call is lost.
MineOK == me = "volunteer" /\ fails = 0 => MinePlain /\ MineData /\ MineFetch /\ MineSent

EntriesOK == \A k \in Keys : EntryOK(k)

ScreensInv == ShapesOK /\ EntriesOK /\ MineOK

-----------------------------------------------------------------------------
(* What the operators of the module return *)

LEMMA TailOf ==
    ASSUME NEW S, NEW s \in Seq(S), s # <<>>
    PROVE  /\ Len(s) \in Nat \ {0}
           /\ Head(s) = s[1] /\ Head(s) \in S
           /\ Tail(s) \in Seq(S)
           /\ Len(Tail(s)) = Len(s) - 1
           /\ \A i \in 1 .. Len(Tail(s)) : Tail(s)[i] = s[i + 1]
    OBVIOUS

LEMMA KeysObserved == ASSUME NEW p \in Pages PROVE Observes(p) \in SUBSET Keys
    BY DEF Pages, Observes, EventPageKeys, Keys

LEMMA FacetsRead ==
    ASSUME me \in Users, NEW k \in Keys
    PROVE  Reads(k) \in SUBSET Facets
    BY DEF Users, Owns, Keys, Reads, Facets, EventAnswer, MissionAnswer, SlotAnswer, ListsAnswer, MineAnswer

\* The user of the tab does not change, nor what each query is made of.
LEMMA SameReader ==
    ASSUME me' = me
    PROVE  \A k \in Keys : Reads(k)' = Reads(k)
<1> SUFFICES ASSUME NEW k \in Keys PROVE Reads(k)' = Reads(k)
    OBVIOUS
<1> QED
    BY DEF Keys, Reads, Owns

\* The marks are no answers, and no numbers.
LEMMA MarksApart ==
    /\ Undefined \notin Answers /\ Idle \notin Answers
    /\ Asked \notin Answers /\ NotFound \notin Answers
    /\ Asked \notin Nat
    /\ Idle # Asked /\ Idle # NotFound /\ Asked # NotFound
    BY ScreenConstants

LEMMA SnapshotIs ==
    ASSUME me \in Users, table \in Tables, NEW k \in Keys
    PROVE  \/ Snapshot(k) = NotFound /\ k \in Records \ table.alive
           \/ /\ Snapshot(k) \in Answers
              /\ \A f \in Reads(k) : Snapshot(k).rows[f] = table.rows[f]
              /\ Snapshot(k).part = IF TellsPart(k) THEN table.part ELSE "NONE"
              /\ Snapshot(k).others = IF TellsPart(k) THEN table.others ELSE 0
<1> SUFFICES ASSUME k \notin Records \ table.alive
             PROVE  /\ Snapshot(k) \in Answers
                    /\ \A f \in Reads(k) : Snapshot(k).rows[f] = table.rows[f]
                    /\ Snapshot(k).part = IF TellsPart(k) THEN table.part ELSE "NONE"
                    /\ Snapshot(k).others = IF TellsPart(k) THEN table.others ELSE 0
    BY DEF Snapshot
<1> DEFINE r == [f \in Reads(k) |-> table.rows[f]]
           p == IF TellsPart(k) THEN table.part ELSE "NONE"
           o == IF TellsPart(k) THEN table.others ELSE 0
<1>1. Snapshot(k) = [rows |-> r, alive |-> table.alive, part |-> p, others |-> o]
    BY DEF Snapshot
<1>2. r \in [Reads(k) -> Nat] /\ \A f \in Reads(k) : r[f] = table.rows[f]
    BY FacetsRead DEF Tables
<1>3. r \in UNION {[S -> Nat] : S \in SUBSET Facets}
    BY <1>2, FacetsRead
<1>4. p \in Statuses /\ o \in Nat /\ table.alive \in SUBSET Records
    BY DEF Tables, Statuses
<1> HIDE DEF r
<1> QED
    BY <1>1, <1>2, <1>3, <1>4 DEF Answers

LEMMA EntryTyped ==
    /\ EmptyEntry \in Entries
    /\ EmptyEntry.data = Undefined /\ EmptyEntry.fetch = Idle
    /\ EmptyEntry.stale = FALSE /\ EmptyEntry.error = FALSE
    BY DEF EmptyEntry, Entries

LEMMA Asks ==
    ASSUME NEW e \in Entries
    PROVE  /\ Ask(e) \in Entries
           /\ Ask(e).data = e.data /\ Ask(e).fetch = Asked
           /\ Ask(e).stale = e.stale /\ (Ask(e).error => e.error)
<1> DEFINE b == e.error /\ e.data # Undefined
<1>1. Ask(e) = [e EXCEPT !.fetch = Asked, !.error = b]
    BY DEF Ask
<1>2. b \in BOOLEAN /\ (b => e.error)
    OBVIOUS
<1> HIDE DEF b
<1>3. Ask(e) = [data |-> e.data, fetch |-> Asked, stale |-> e.stale, error |-> b]
    BY <1>1 DEF Entries
<1> QED
    BY <1>2, <1>3 DEF Entries

-----------------------------------------------------------------------------
(* The changes *)

\* A change whose next queries are refreshed.
Refreshing(c, rest, w) ==
    [c EXCEPT !.phase = "refreshing", !.wrote = NoCount, !.todo = rest, !.wait = w]

LEMMA KindIs ==
    ASSUME NEW kind \in Kinds
    PROVE  \/ kind = "createEvent" \/ kind = "updateEvent" \/ kind = "deleteEvent"
           \/ kind = "createMission" \/ kind = "updateMission" \/ kind = "deleteMission"
           \/ kind = "createSlot" \/ kind = "updateSlot" \/ kind = "deleteSlot"
           \/ kind = "participate" \/ kind = "cancelMine"
           \/ kind \in {"accept", "reject", "cancel"}
    BY DEF Kinds, Participations

Changes ==
    [writes : SUBSET Facets, removes : SUBSET Keys, refreshes : Seq(SUBSET Keys),
     goesTo : SUBSET Pages]

\* The keys of the records that go with the one a change deletes.
GoneWith(kind) ==
    CASE kind = "deleteEvent" -> {"mission", "slot"}
      [] kind = "deleteMission" -> {"slot"}
      [] OTHER -> {}

\* What a change writes is refreshed in every query made of it, at once or in turn, or it is
\* one of the keys left out.
Covers(change, gone, k) ==
    Reads(k) \cap change.writes # {} =>
        \/ k \in change.removes \/ k \in gone
        \/ CanEdit /\ k = "participations"
        \/ \E i \in DOMAIN change.refreshes : k \in change.refreshes[i]

ChangeOK(change, gone) ==
    /\ change \in Changes
    /\ change.refreshes # <<>>
    /\ \A k \in Keys : Covers(change, gone, k)

\* An organizer may make any change.
LEMMA ChangesOrganizer ==
    ASSUME CanEdit
    PROVE  /\ ChangeOK(CreateEvent, {}) /\ ChangeOK(UpdateEvent, {})
           /\ ChangeOK(DeleteEvent, {"mission", "slot"})
           /\ ChangeOK(CreateMission, {}) /\ ChangeOK(UpdateMission, {})
           /\ ChangeOK(DeleteMission, {"slot"})
           /\ ChangeOK(CreateSlot, {}) /\ ChangeOK(UpdateSlot, {})
           /\ ChangeOK(DeleteSlot, {}) /\ ChangeOK(Transition, {})
<1> USE DEF Change, Changes, Covers, ChangeOK, Reads, Facets, Keys, Pages, Events, ListsAnswer,
            EventAnswer, MissionAnswer, SlotAnswer
<1>1. ChangeOK(CreateEvent, {}) /\ ChangeOK(UpdateEvent, {})
    BY DEF CreateEvent, UpdateEvent
<1>2. ChangeOK(DeleteEvent, {"mission", "slot"})
    BY DEF DeleteEvent
<1>3. ChangeOK(CreateMission, {}) /\ ChangeOK(UpdateMission, {})
    BY DEF CreateMission, UpdateMission
<1>4. ChangeOK(DeleteMission, {"slot"})
    BY DEF DeleteMission
<1>5. ChangeOK(CreateSlot, {}) /\ ChangeOK(UpdateSlot, {})
    BY DEF CreateSlot, UpdateSlot
<1>6. ChangeOK(DeleteSlot, {}) /\ ChangeOK(Transition, {})
    BY DEF DeleteSlot, Transition
<1> QED
    BY <1>1, <1>2, <1>3, <1>4, <1>5, <1>6

\* Whoever makes them, the changes of one's own participation refresh all that tells of it.
LEMMA ChangesVolunteer ==
    ASSUME me \in Users
    PROVE  /\ ChangeOK(Participate, {}) /\ Participate.removes = {}
           /\ ChangeOK(CancelMine, {}) /\ CancelMine.removes = {}
           /\ "places" \in CancelMine.writes
           /\ "participations" \in Head(CancelMine.refreshes)
<1> USE DEF Change, Changes, Covers, ChangeOK, Reads, Facets, Keys, Pages, Events, ListsAnswer,
            EventAnswer, MissionAnswer, SlotAnswer, MineAnswer
<1>1. ChangeOK(Participate, {}) /\ Participate.removes = {}
    BY DEF Participate
<1>2. ChangeOK(CancelMine, {}) /\ CancelMine.removes = {} /\ "places" \in CancelMine.writes
    BY DEF CancelMine
<1>3. "participations" \in Head(CancelMine.refreshes)
    BY DEF CancelMine
<1> QED
    BY <1>1, <1>2, <1>3

\* What any change of the user of the tab does.
LEMMA ChangeCovers ==
    ASSUME me \in Users, NEW kind \in KindsOf(me)
    PROVE  ChangeOK(ChangeOf(kind), GoneWith(kind))
<1>1. kind \in Kinds /\ (kind \in {"participate", "cancelMine"} \/ CanEdit)
    BY DEF KindsOf, Kinds, Participations, CanEdit
<1>2. CASE kind \in {"participate", "cancelMine"}
    BY <1>2, ChangesVolunteer DEF ChangeOf, GoneWith
<1>3. CASE kind \notin {"participate", "cancelMine"}
    <2>1. ChangeOK(CreateEvent, {}) /\ ChangeOK(UpdateEvent, {})
          /\ ChangeOK(DeleteEvent, {"mission", "slot"})
          /\ ChangeOK(CreateMission, {}) /\ ChangeOK(UpdateMission, {})
          /\ ChangeOK(DeleteMission, {"slot"})
          /\ ChangeOK(CreateSlot, {}) /\ ChangeOK(UpdateSlot, {})
          /\ ChangeOK(DeleteSlot, {}) /\ ChangeOK(Transition, {})
        BY <1>1, <1>3, ChangesOrganizer
    <2> QED
        BY <1>1, <1>3, <2>1, KindIs DEF ChangeOf, GoneWith
<1> QED
    BY <1>2, <1>3

\* What goes with a deleted record has a key that is left out.
LEMMA GoneIsLeftOut ==
    ASSUME NEW kind, NEW k \in GoneWith(kind), Kills(kind) \cap table.alive = {}
    PROVE  LeftOut(k)
<1>1. CASE kind = "deleteEvent"
    BY <1>1 DEF GoneWith, Kills, LeftOut, Forgotten
<1>2. CASE kind = "deleteMission"
    BY <1>2 DEF GoneWith, Kills, LeftOut, Forgotten
<1>3. CASE kind \notin {"deleteEvent", "deleteMission"}
    BY <1>3 DEF GoneWith
<1> QED
    BY <1>1, <1>2, <1>3

LEMMA LeftOutStays ==
    ASSUME me' = me, table'.alive \subseteq table.alive, NEW k, LeftOut(k)
    PROVE  LeftOut(k)'
    BY DEF LeftOut, Forgotten, CanEdit

LEMMA VolunteerChanges ==
    ASSUME me = "volunteer", NEW kind \in KindsOf(me)
    PROVE  /\ kind \in {"participate", "cancelMine"}
           /\ Kills(kind) = {} /\ ChangeOf(kind).removes = {}
           /\ kind = "cancelMine" => /\ "places" \in ChangeOf(kind).writes
                                     /\ "participations" \in Head(ChangeOf(kind).refreshes)
<1>1. kind = "participate" \/ kind = "cancelMine"
    BY DEF KindsOf
<1>2. me \in Users
    BY DEF Users
<1>3. CASE kind = "participate"
    BY <1>2, <1>3, ChangesVolunteer DEF ChangeOf, Kills
<1>4. CASE kind = "cancelMine"
    BY <1>2, <1>4, ChangesVolunteer DEF ChangeOf, Kills
<1> QED
    BY <1>1, <1>3, <1>4

\* What a screen offers is for its user to change; one's own participation is cancelled
\* from the user's missions, as they are shown.
LEMMA Offered ==
    ASSUME me \in Users, page \in Pages, NEW kind \in Offers
    PROVE  /\ kind \in KindsOf(me)
           /\ kind = "cancelMine" => /\ page = "MyMissions" /\ Shows("participations")
                                     /\ IsActive(Data("participations").part)
<1> USE DEF Offers, Pages, EventCardOffers, MissionOffers, SlotOffers, SlotItemOffers,
            HandleParticipantOffers, MyParticipationOffers, CanEdit, Owns
<1>1. kind = "cancelMine" => /\ page = "MyMissions" /\ Shows("participations")
                             /\ IsActive(Data("participations").part)
    OBVIOUS
<1>2. CASE me = "volunteer"
    <2>1. kind \in {"participate", "cancelMine"}
        BY <1>2
    <2> QED
        BY <1>1, <1>2, <2>1 DEF KindsOf
<1>3. CASE me # "volunteer"
    <2>1. kind \in {"createEvent", "updateEvent", "deleteEvent", "createMission",
                    "updateMission", "deleteMission", "createSlot", "updateSlot",
                    "deleteSlot", "accept", "reject", "cancel", "participate", "cancelMine"}
        OBVIOUS
    <2> QED
        BY <1>1, <1>3, <2>1 DEF KindsOf, Kinds, Participations
<1> QED
    BY <1>2, <1>3

-----------------------------------------------------------------------------
(* What the steps do to an entry of the cache *)

\* Asked again, or left alone but for its mark.
Kept(e, f) ==
    /\ f.data = e.data
    /\ f.fetch = Asked \/ (f.fetch = e.fetch /\ f.error = e.error)
    /\ e.stale => f.stale

LEMMA KeptByAsk == ASSUME NEW e \in Entries PROVE Kept(e, Ask(e)) /\ Kept(e, e)
<1>1. Ask(e).data = e.data /\ Ask(e).fetch = Asked /\ (e.stale => Ask(e).stale)
    BY Asks
<1>2. Kept(e, Ask(e))
    BY <1>1 DEF Kept
<1>3. Kept(e, e)
    BY DEF Kept
<1> QED
    BY <1>2, <1>3

\* A page that mounts asks for what it observes and is marked.
LEMMA MountsEffect ==
    ASSUME TypesOK, NEW p \in Pages, NEW aged \in SUBSET Observes(p), Mounts(p, aged)
    PROVE  /\ page' = p /\ cache' \in [Keys -> Entries] /\ late' \in SUBSET Keys
           /\ \A k \in Keys :
                 /\ Kept(cache[k], cache'[k])
                 /\ k \in late => k \in late' \/ cache'[k].fetch = Asked
                 /\ k \in late' => k \in late
                 /\ k \in Observes(p) /\ cache[k].stale => cache'[k].fetch # Idle
                 /\ cache[k].fetch # Idle => cache'[k].fetch # Idle
                 /\ cache'[k].stale = cache[k].stale
                 /\ cache'[k].error => cache[k].error
<1> DEFINE asked == {k \in Observes(p) : cache[k].fetch = Idle /\ Refetched(k, aged)}
<1>1. /\ page' = p
      /\ cache' = [k \in Keys |-> IF k \in asked THEN Ask(cache[k]) ELSE cache[k]]
      /\ late' = late \ asked
    BY DEF Mounts
<1>2. \A k \in Observes(p) : cache[k].fetch = Idle /\ cache[k].stale => k \in asked
    BY DEF Refetched
<1> HIDE DEF asked
<1>3. \A k \in Keys : cache[k] \in Entries
    BY DEF TypesOK
<1>4. cache' \in [Keys -> Entries]
    BY <1>1, <1>3, Asks
<1>5. late' \in SUBSET Keys
    BY <1>1 DEF TypesOK
<1>6. ASSUME NEW k \in Keys
      PROVE  /\ Kept(cache[k], cache'[k])
             /\ k \in late => k \in late' \/ cache'[k].fetch = Asked
             /\ k \in late' => k \in late
             /\ k \in Observes(p) /\ cache[k].stale => cache'[k].fetch # Idle
             /\ cache[k].fetch # Idle => cache'[k].fetch # Idle
             /\ cache'[k].stale = cache[k].stale
             /\ cache'[k].error => cache[k].error
    <2>1. CASE k \in asked
        <3>1. cache'[k] = Ask(cache[k]) /\ cache'[k].fetch = Asked
            BY <1>1, <1>3, <2>1, Asks
        <3> QED
            BY <1>1, <1>3, <3>1, KeptByAsk, Asks, MarksApart
    <2>2. CASE k \notin asked
        <3>1. cache'[k] = cache[k]
            BY <1>1, <2>2
        <3> QED
            BY <1>1, <1>2, <1>3, <2>2, <3>1, KeptByAsk
    <2> QED
        BY <2>1, <2>2
<1> QED
    BY <1>1, <1>4, <1>5, <1>6

\* Every query of the keys is marked, and asked for when the page observes it.
LEMMA InvalidatesEffect ==
    ASSUME NEW entries \in [Keys -> Entries], NEW keys \in SUBSET Keys
    PROVE  /\ Invalidates(entries, keys) \in [Keys -> Entries]
           /\ \A k \in Keys : LET e == entries[k]
                                  f == Invalidates(entries, keys)[k]
                              IN  /\ Kept(e, f)
                                  /\ k \in keys => f.stale \/ f.data = Undefined
                                  /\ k \in Observes(page) => f = e \/ f.fetch # Idle
                                  /\ f.fetch \in {e.fetch, Asked}
                                  /\ f.error => e.error
<1> DEFINE known == {k \in keys : entries[k] # EmptyEntry}
           asked == {k \in known \cap Observes(page) : Restarts(entries[k])}
           inv == [k \in Keys |->
                      IF k \in asked THEN [Ask(entries[k]) EXCEPT !.stale = TRUE]
                      ELSE IF k \in known THEN [entries[k] EXCEPT !.stale = TRUE]
                      ELSE entries[k]]
<1>1. Invalidates(entries, keys) = inv
    BY DEF Invalidates
<1>2. /\ \A k \in keys : k \notin known => entries[k].data = Undefined
      /\ \A k \in known \cap Observes(page) : k \notin asked => entries[k].fetch # Idle
      /\ asked \subseteq known
    BY EntryTyped DEF Restarts
<1> HIDE DEF asked, known
<1>3. ASSUME NEW k \in Keys
      PROVE  /\ inv[k] \in Entries /\ Kept(entries[k], inv[k])
             /\ k \in keys => inv[k].stale \/ inv[k].data = Undefined
             /\ k \in Observes(page) => inv[k] = entries[k] \/ inv[k].fetch # Idle
             /\ inv[k].fetch \in {entries[k].fetch, Asked}
             /\ inv[k].error => entries[k].error
    <2> DEFINE e == entries[k]
    <2>1. e \in Entries /\ Ask(e) \in Entries
        BY Asks
    <2>2. CASE k \in asked
        <3>1. inv[k] = [Ask(e) EXCEPT !.stale = TRUE]
            BY <2>2
        <3>2. /\ inv[k] = [data |-> Ask(e).data, fetch |-> Ask(e).fetch, stale |-> TRUE,
                          error |-> Ask(e).error]
            BY <2>1, <3>1 DEF Entries
        <3>3. inv[k] \in Entries
            BY <2>1, <3>2 DEF Entries
        <3>4. /\ inv[k].data = e.data /\ inv[k].fetch = Asked /\ inv[k].stale
              /\ inv[k].error => e.error
            BY <2>1, <3>2, Asks
        <3> HIDE DEF inv
        <3>5. Kept(e, inv[k])
            BY <3>4 DEF Kept
        <3>6. inv[k].fetch # Idle
            BY <3>4, MarksApart
        <3> QED
            BY <3>3, <3>4, <3>5, <3>6
    <2>3. CASE k \in known /\ k \notin asked
        <3>1. inv[k] = [e EXCEPT !.stale = TRUE]
            BY <2>3
        <3>2. inv[k] = [data |-> e.data, fetch |-> e.fetch, stale |-> TRUE, error |-> e.error]
            BY <2>1, <3>1 DEF Entries
        <3>3. inv[k] \in Entries
            BY <2>1, <3>2 DEF Entries
        <3> QED
            BY <1>2, <2>1, <2>3, <3>2, <3>3 DEF Kept
    <2>4. CASE k \notin known
        <3>1. inv[k] = e
            BY <1>2, <2>4
        <3> QED
            BY <1>2, <2>1, <2>4, <3>1, KeptByAsk
    <2> QED
        BY <2>2, <2>3, <2>4
<1>4. inv \in [Keys -> Entries]
    BY <1>3
<1> HIDE DEF inv
<1> QED
    BY <1>1, <1>3, <1>4

\* What is kept stays as good as it was, as long as the tab is told of nothing more.
LEMMA KeptStays ==
    ASSUME TypesOK, me' = me, NEW k \in Keys,
           FetchOK(k), DataOK(k),
           Kept(cache[k], cache'[k]),
           \A f \in Reads(k) : acked'[f] = acked[f],
           \A f \in Facets : table.rows[f] <= table'.rows[f],
           table' \in Tables, table'.alive \subseteq table.alive,
           k \in late => k \in late' \/ cache'[k].fetch = Asked,
           Owed(k) => Owed(k)' \/ cache'[k].stale
    PROVE  FetchOK(k)' /\ DataOK(k)'
<1>1. Reads(k)' = Reads(k) /\ Reads(k) \in SUBSET Facets
    BY SameReader, FacetsRead DEF TypesOK
<1>2. CASE cache'[k].fetch = Asked
    BY <1>2, MarksApart DEF FetchOK, DataOK
<1>3. CASE cache'[k].fetch # Asked
    <2>1. /\ cache'[k].fetch = cache[k].fetch /\ cache'[k].error = cache[k].error
          /\ cache'[k].data = cache[k].data /\ (cache[k].stale => cache'[k].stale)
          /\ k \in late => k \in late'
        BY <1>3 DEF Kept
    <2>2. \A s : Fresh(k, s) => Fresh(k, s)'
        BY <1>1 DEF Fresh
    <2>3. \A s : Read(k, s) => Read(k, s)'
        <3>1. \A f \in Reads(k) : table.rows[f] \in Nat /\ table'.rows[f] \in Nat
            BY <1>1 DEF TypesOK, Tables
        <3> QED
            BY <1>1, <3>1 DEF Read
    <2>4. FetchOK(k)'
        BY <2>1, <2>2, <2>3 DEF FetchOK
    <2>5. LeftOut(k) => LeftOut(k)'
        BY LeftOutStays
    <2>6. DataOK(k)'
        BY <2>1, <2>2, <2>5 DEF DataOK
    <2> QED
        BY <2>4, <2>6
<1> QED
    BY <1>2, <1>3

\* When the tables change, a request may have been answered from the tables before.
LEMMA TablesChangeEffect ==
    ASSUME TypesOK, TablesChange(cache')
    PROVE  /\ cache' \in [Keys -> Entries]
           /\ \A k \in Keys :
                 /\ cache'[k].data = cache[k].data
                 /\ cache'[k].stale = cache[k].stale /\ cache'[k].error = cache[k].error
                 /\ \/ cache'[k].fetch = cache[k].fetch
                    \/ cache[k].fetch = Asked /\ cache'[k].fetch = Snapshot(k)
<1>1. PICK read \in SUBSET {k \in Keys : cache[k].fetch = Asked} :
        cache' = [k \in Keys |-> IF k \in read THEN [cache[k] EXCEPT !.fetch = Snapshot(k)]
                                ELSE cache[k]]
    BY DEF TablesChange
<1>2. ASSUME NEW k \in Keys
      PROVE  /\ cache'[k] \in Entries
             /\ cache'[k].data = cache[k].data
             /\ cache'[k].stale = cache[k].stale /\ cache'[k].error = cache[k].error
             /\ \/ cache'[k].fetch = cache[k].fetch
                \/ cache[k].fetch = Asked /\ cache'[k].fetch = Snapshot(k)
    <2> DEFINE e == cache[k]
    <2>1. e \in Entries
        BY DEF TypesOK
    <2>2. CASE k \in read
        <3>1. cache'[k] = [e EXCEPT !.fetch = Snapshot(k)] /\ e.fetch = Asked
            BY <1>1, <2>2
        <3>2. cache'[k] = [data |-> e.data, fetch |-> Snapshot(k), stale |-> e.stale,
                           error |-> e.error]
            BY <2>1, <3>1 DEF Entries
        <3>3. Snapshot(k) \in Answers \cup {NotFound}
            BY SnapshotIs DEF TypesOK
        <3>4. cache'[k] \in Entries
            BY <2>1, <3>2, <3>3 DEF Entries
        <3> QED
            BY <3>1, <3>2, <3>4
    <2>3. CASE k \notin read
        <3>1. cache'[k] = e
            BY <1>1, <2>3
        <3> QED
            BY <2>1, <3>1
    <2> QED
        BY <2>2, <2>3
<1>3. cache' \in [Keys -> Entries]
    BY <1>1, <1>2
<1> QED
    BY <1>2, <1>3

\* A refresh marks its queries, waits for those the page observes, and what it leaves on its
\* way and misses what the tab was told of is late.
LEMMA RefreshEffect ==
    ASSUME page \in Pages, late \in SUBSET Keys, NEW m \in Changing,
           NEW changes \in [Changing -> Mutations],
           NEW entries \in [Keys -> Entries], NEW todo \in Seq(SUBSET Keys), todo # <<>>,
           NEW told, Refresh(m, changes, entries, todo, told)
    PROVE  /\ cache' = Invalidates(entries, Head(todo)) /\ cache' \in [Keys -> Entries]
           /\ Head(todo) \in SUBSET Keys
           /\ mutation' \in [Changing -> Mutations]
           /\ \A n \in Changing \ {m} : mutation'[n] = changes[n]
           /\ mutation'[m].kind = changes[m].kind /\ mutation'[m].phase = "refreshing"
           /\ mutation'[m].todo = Tail(todo) /\ mutation'[m].wrote = NoCount
           /\ mutation'[m].seen = changes[m].seen
           /\ \A k \in mutation'[m].wait : cache'[k].fetch # Idle
           /\ late' \in SUBSET Keys
           /\ \A k \in late : k \in late' \/ cache'[k].fetch = Asked
           /\ \A k \in Keys : k \notin late' /\ cache'[k].fetch \notin {Idle, Asked, NotFound} =>
                 \A f \in Reads(k) : ~(cache'[k].fetch.rows[f] < told[f])
<1> DEFINE keys == Head(todo)
           rest == Tail(todo)
           w == {k \in keys \cap Observes(page) : cache'[k].fetch # Idle}
<1>1. keys \in SUBSET Keys /\ rest \in Seq(SUBSET Keys)
    BY TailOf
<1>2. /\ cache' = Invalidates(entries, keys)
      /\ mutation' = [changes EXCEPT ![m] = Refreshing(changes[m], rest, w)]
      /\ late' = {k \in late : cache'[k].fetch # Asked} \cup Overtaken(cache', told)
    BY DEF Refresh, Refreshing
<1>3. cache' \in [Keys -> Entries]
    BY <1>1, <1>2, InvalidatesEffect
<1>4. w \in SUBSET Keys /\ \A k \in w : cache'[k].fetch # Idle
    BY <1>1
<1> HIDE DEF w, rest, keys
<1>5. PICK c, e, v : c = Refreshing(e, rest, v) /\ e = changes[m] /\ v = w
    OBVIOUS
<1>6. e \in Mutations /\ v \in SUBSET Keys
    BY <1>4, <1>5
<1>7. /\ c \in Mutations /\ c.kind = e.kind /\ c.phase = "refreshing"
      /\ c.wrote = NoCount /\ c.todo = rest /\ c.wait = v /\ c.seen = e.seen
    <2>1. ASSUME NEW z \in [Facets -> Nat], NEW r \in Seq(SUBSET Keys),
                 c = [e EXCEPT !.phase = "refreshing", !.wrote = z, !.todo = r, !.wait = v]
          PROVE  /\ c \in Mutations /\ c.kind = e.kind /\ c.phase = "refreshing"
                 /\ c.wrote = z /\ c.todo = r /\ c.wait = v /\ c.seen = e.seen
        BY <1>6, <2>1 DEF Mutations
    <2>2. NoCount \in [Facets -> Nat]
        BY DEF NoCount
    <2> QED
        BY <1>1, <1>5, <2>1, <2>2 DEF Refreshing
<1>8. /\ mutation' \in [Changing -> Mutations] /\ mutation'[m] = c
      /\ \A n \in Changing \ {m} : mutation'[n] = changes[n]
    BY <1>2, <1>5, <1>7
<1>9. late' \in SUBSET Keys
    BY <1>2 DEF Overtaken
<1>10. ASSUME NEW k \in Keys, k \notin late', cache'[k].fetch \notin {Idle, Asked, NotFound},
              NEW f \in Reads(k)
       PROVE  ~(cache'[k].fetch.rows[f] < told[f])
    <2>1. k \notin Overtaken(cache', told)
        BY <1>2, <1>10
    <2> QED
        BY <1>10, <2>1 DEF Overtaken
<1> QED
    BY <1>1, <1>2, <1>3, <1>4, <1>5, <1>7, <1>8, <1>9, <1>10 DEF rest, keys

-----------------------------------------------------------------------------
(* Each step keeps the entries as the invariant wants them *)

LEMMA Untouched ==
    ASSUME TypesOK, UNCHANGED <<me, table, page, acked>>, NEW k \in Keys, EntryOK(k),
           cache'[k] = cache[k], k \in late => k \in late', Owed(k) => Owed(k)'
    PROVE  EntryOK(k)'
<1>1. Kept(cache[k], cache'[k])
    BY DEF Kept
<1>2. /\ \A f \in Reads(k) : acked'[f] = acked[f]
      /\ \A f \in Facets : table.rows[f] <= table'.rows[f]
      /\ table' \in Tables /\ table'.alive \subseteq table.alive
    BY DEF TypesOK, Tables
<1>3. FetchOK(k)' /\ DataOK(k)'
    BY <1>1, <1>2, KeptStays DEF EntryOK
<1>4. MarkOK(k)'
    BY DEF EntryOK, MarkOK
<1> QED
    BY <1>3, <1>4 DEF EntryOK

\* The tables change: what was read before is still all that was acknowledged.
LEMMA TablesGrow ==
    ASSUME TypesOK, CountsOK, TablesChange(cache'), UNCHANGED <<me, page, acked, late>>,
           table' \in Tables, table'.alive \subseteq table.alive,
           \A f \in Facets : table.rows[f] <= table'.rows[f],
           NEW k \in Keys, EntryOK(k), Owed(k) => Owed(k)'
    PROVE  EntryOK(k)'
<1>1. /\ cache'[k].data = cache[k].data
      /\ cache'[k].stale = cache[k].stale /\ cache'[k].error = cache[k].error
      /\ \/ cache'[k].fetch = cache[k].fetch
         \/ cache[k].fetch = Asked /\ cache'[k].fetch = Snapshot(k)
    BY TablesChangeEffect
<1>2. CASE cache'[k].fetch = cache[k].fetch
    <2>1. Kept(cache[k], cache'[k])
        BY <1>1, <1>2 DEF Kept
    <2>2. FetchOK(k)' /\ DataOK(k)'
        BY <2>1, KeptStays DEF EntryOK
    <2>3. MarkOK(k)'
        BY <1>1, <1>2 DEF EntryOK, MarkOK
    <2> QED
        BY <2>2, <2>3 DEF EntryOK
<1>3. CASE cache[k].fetch = Asked /\ cache'[k].fetch = Snapshot(k)
    <2>1. Reads(k)' = Reads(k) /\ Reads(k) \in SUBSET Facets
        BY SameReader, FacetsRead DEF TypesOK
    <2>2. Snapshot(k) = NotFound \/ /\ Snapshot(k) \in Answers
                                    /\ \A f \in Reads(k) : Snapshot(k).rows[f] = table.rows[f]
        BY SnapshotIs DEF TypesOK
    <2>3. Snapshot(k) # Idle
        BY <2>2, MarksApart
    <2>4. FetchOK(k)'
        <3> SUFFICES ASSUME cache'[k].fetch # NotFound
                     PROVE  Read(k, cache[k].fetch)' /\ Fresh(k, cache[k].fetch)'
            BY DEF FetchOK
        <3>1. \A f \in Reads(k) : /\ cache'[k].fetch.rows[f] = table.rows[f]
                                  /\ table.rows[f] \in Nat /\ table'.rows[f] \in Nat
                                  /\ acked[f] \in Nat
                                  /\ acked[f] <= table.rows[f] /\ table.rows[f] <= table'.rows[f]
            BY <1>3, <2>1, <2>2 DEF TypesOK, Tables, CountsOK
        <3> QED
            BY <2>1, <3>1 DEF Read, Fresh
    <2>5. DataOK(k)' /\ MarkOK(k)'
        BY <1>3, <2>3 DEF DataOK, MarkOK
    <2> QED
        BY <2>4, <2>5 DEF EntryOK
<1> QED
    BY <1>1, <1>2, <1>3

\* The queries of a change are refreshed: what it wrote is counted, marked, or still to be.
LEMMA RefreshKeeps ==
    ASSUME TypesOK, UNCHANGED <<me, table, page>>, acked' \in [Facets -> Nat],
           NEW m \in Changing, NEW changes \in [Changing -> Mutations],
           NEW entries \in [Keys -> Entries], NEW todo \in Seq(SUBSET Keys), todo # <<>>,
           Refresh(m, changes, entries, todo, acked'),
           NEW k \in Keys, EntryOK(k),
           entries[k] = cache[k] \/ entries[k] = EmptyEntry,
           \/ \A f \in Reads(k) : acked'[f] = acked[f]
           \/ entries[k] = EmptyEntry \/ LeftOut(k)
           \/ \E i \in DOMAIN todo : k \in todo[i],
           Owed(k) => Owed(k)' \/ \E i \in DOMAIN todo : k \in todo[i]
    PROVE  EntryOK(k)'
<1> DEFINE e == entries[k]
           c == cache'[k]
<1>1. Reads(k)' = Reads(k) /\ Reads(k) \in SUBSET Facets
    BY SameReader, FacetsRead DEF TypesOK
<1>2. /\ mutation'[m].phase = "refreshing" /\ mutation'[m].todo = Tail(todo)
      /\ k \in late => k \in late' \/ c.fetch = Asked
      /\ k \notin late' /\ c.fetch \notin {Idle, Asked, NotFound} =>
            \A f \in Reads(k) : ~(c.fetch.rows[f] < acked'[f])
      /\ cache' = Invalidates(entries, Head(todo)) /\ Head(todo) \in SUBSET Keys
    BY RefreshEffect DEF TypesOK
<1>3. /\ Kept(e, c)
      /\ k \in Head(todo) => c.stale \/ c.data = Undefined
      /\ k \in Observes(page) => c = e \/ c.fetch # Idle
      /\ c.fetch \in {e.fetch, Asked}
    BY <1>2, InvalidatesEffect
<1>4. FetchOK(k)'
    <2> SUFFICES ASSUME c.fetch \notin {Idle, Asked, NotFound}
                 PROVE  /\ Read(k, cache[k].fetch)'
                        /\ k \in late' \/ Fresh(k, cache[k].fetch)'
        BY DEF FetchOK
    <2>1. e.fetch = c.fetch /\ e = cache[k]
        BY <1>3, EntryTyped
    <2>2. Read(k, cache[k].fetch)
        BY <2>1 DEF EntryOK, FetchOK
    <2>3. ASSUME NEW f \in Reads(k)
          PROVE  c.fetch.rows[f] \in 0 .. table.rows[f] /\ c.fetch.rows[f] \in Nat
        BY <1>1, <2>1, <2>2 DEF Read, TypesOK, Tables
    <2>4. k \in late' \/ \A f \in Reads(k) : c.fetch.rows[f] >= acked'[f]
        BY <1>1, <1>2, <2>3
    <2> QED
        BY <1>1, <2>3, <2>4 DEF Read, Fresh
<1>5. DataOK(k)'
    <2>1. CASE e = EmptyEntry
        BY <1>3, <2>1, EntryTyped DEF Kept, DataOK
    <2>2. CASE e = cache[k] /\ \E i \in DOMAIN todo : k \in todo[i]
        <3>1. PICK i \in DOMAIN todo : k \in todo[i]
            BY <2>2
        <3>2. CASE i = 1
            BY <1>3, <3>1, <3>2, TailOf DEF DataOK
        <3>3. CASE i # 1
            <4>1. i - 1 \in DOMAIN Tail(todo) /\ Tail(todo)[i - 1] = todo[i]
                BY <3>1, <3>3, TailOf
            <4>2. Owed(k)'
                BY <1>2, <3>1, <4>1 DEF Owed
            <4> QED
                BY <4>2 DEF DataOK
        <3> QED
            BY <3>2, <3>3
    <2>3. CASE e = cache[k] /\ LeftOut(k)
        BY <2>3, LeftOutStays DEF DataOK
    <2>4. CASE /\ e = cache[k] /\ \A f \in Reads(k) : acked'[f] = acked[f]
               /\ ~\E i \in DOMAIN todo : k \in todo[i]
        <3>1. /\ \A f \in Facets : table.rows[f] <= table'.rows[f]
              /\ table' \in Tables /\ table'.alive \subseteq table.alive
            BY DEF TypesOK, Tables
        <3>2. Kept(cache[k], cache'[k]) /\ (Owed(k) => Owed(k)')
            BY <1>3, <2>4
        <3> QED
            BY <1>2, <2>4, <3>1, <3>2, KeptStays DEF EntryOK
    <2> QED
        BY <2>1, <2>2, <2>3, <2>4
<1>6. MarkOK(k)'
    <2> SUFFICES ASSUME k \in Observes(page), c.stale, c.fetch = Idle
                 PROVE  c.error \/ c.data = Undefined
        BY DEF MarkOK
    <2>1. c = e
        BY <1>3
    <2> QED
        BY <2>1, EntryTyped DEF EntryOK, MarkOK
<1> QED
    BY <1>4, <1>5, <1>6 DEF EntryOK

-----------------------------------------------------------------------------
(* Each step keeps the types, the counts and what a change waits for *)

LEMMA AnswerIs ==
    ASSUME TypesOK, NEW k \in Keys, cache[k].fetch # Idle
    PROVE  /\ Answer(k) \in Answers \cup {NotFound}
           /\ cache[k].fetch = Asked => Answer(k) = Snapshot(k)
           /\ cache[k].fetch # Asked => Answer(k) = cache[k].fetch
<1>1. cache[k].fetch \in Answers \cup {Idle, Asked, NotFound}
    BY DEF TypesOK, Entries
<1>2. Snapshot(k) \in Answers \cup {NotFound}
    BY SnapshotIs DEF TypesOK
<1> QED
    BY <1>1, <1>2 DEF Answer

\* A change that stays what it is, but for the requests it no longer waits for.
Alike(c, d) ==
    /\ d.kind = c.kind /\ d.phase = c.phase /\ d.wrote = c.wrote /\ d.todo = c.todo
    /\ d.wait \subseteq c.wait

LEMMA AlikeUnderWay ==
    ASSUME NEW c, NEW d, NEW u, NEW t \in Tables, NEW x \in Tables, d.wrote \in [Facets -> Nat],
           ChangeUnderWay(c, t, u), Alike(c, d), x.alive \subseteq t.alive,
           \A f \in Facets : t.rows[f] <= x.rows[f]
    PROVE  ChangeUnderWay(d, x, u)
<1>1. \A f \in Facets : d.wrote[f] <= x.rows[f]
    <2> SUFFICES ASSUME NEW f \in Facets PROVE d.wrote[f] <= x.rows[f]
        OBVIOUS
    <2>1. t.rows[f] \in Nat /\ x.rows[f] \in Nat /\ t.rows[f] <= x.rows[f]
        BY DEF Tables
    <2>2. d.wrote[f] \in Nat /\ d.wrote[f] <= t.rows[f]
        BY DEF Alike, ChangeUnderWay
    <2> QED
        BY <2>1, <2>2
<1> QED
    BY <1>1 DEF Alike, ChangeUnderWay

\* The changes stay as the invariant wants them when each does, or is alike.
LEMMA ChangesStay ==
    ASSUME TypesOK, MutationOK, me' = me, table' \in Tables, table'.alive \subseteq table.alive,
           \A f \in Facets : table.rows[f] <= table'.rows[f],
           mutation' \in [Changing -> Mutations],
           \A n \in Changing : \/ Alike(mutation[n], mutation'[n])
                               \/ ChangeUnderWay(mutation'[n], table', me)
    PROVE  MutationOK'
<1>1. ASSUME NEW n \in Changing PROVE ChangeUnderWay(mutation'[n], table', me)
    <2>1. CASE Alike(mutation[n], mutation'[n])
        <3>1. mutation'[n].wrote \in [Facets -> Nat]
            BY DEF Mutations
        <3>2. table \in Tables /\ ChangeUnderWay(mutation[n], table, me)
            BY DEF TypesOK, MutationOK
        <3> QED
            BY <2>1, <3>1, <3>2, AlikeUnderWay
    <2> QED
        BY <2>1
<1> QED
    BY <1>1 DEF MutationOK

LEMMA TablesStay ==
    ASSUME TypesOK, table' = table
    PROVE  /\ table' \in Tables /\ table'.alive \subseteq table.alive
           /\ \A f \in Facets : table.rows[f] <= table'.rows[f]
    BY DEF TypesOK, Tables

LEMMA AlikeSelf == ASSUME NEW c PROVE Alike(c, c)
    BY DEF Alike

LEMMA SettledIs ==
    ASSUME mutation \in [Changing -> Mutations], NEW keys \in SUBSET Keys,
           NEW after, after = Settled(keys)
    PROVE  /\ after \in [Changing -> Mutations]
           /\ \A n \in Changing : /\ Alike(mutation[n], after[n])
                                  /\ after[n].wait = mutation[n].wait \ keys
                                  /\ after[n].seen = mutation[n].seen
<1>1. ASSUME NEW n \in Changing
      PROVE  /\ after[n] \in Mutations /\ Alike(mutation[n], after[n])
             /\ after[n].wait = mutation[n].wait \ keys
             /\ after[n].seen = mutation[n].seen
    <2>1. PICK c, d : c = mutation[n] /\ d = after[n]
        OBVIOUS
    <2>2. c \in Mutations /\ d = [c EXCEPT !.wait = c.wait \ keys]
        BY <2>1 DEF Settled
    <2>3. d \in Mutations /\ d.wait = c.wait \ keys /\ d.seen = c.seen
        BY <2>2 DEF Mutations
    <2>4. Alike(c, d)
        BY <2>2 DEF Mutations, Alike
    <2> QED
        BY <2>1, <2>3, <2>4
<1>2. after = [n \in Changing |-> [mutation[n] EXCEPT !.wait = @ \ keys]]
    BY DEF Settled
<1>3. after \in [Changing -> Mutations]
    BY <1>1, <1>2
<1> QED
    BY <1>1, <1>3

LEMMA LeavesIs ==
    ASSUME NEW changes \in [Changing -> Mutations], NEW after, after = Leaves(changes)
    PROVE  /\ after \in [Changing -> Mutations]
           /\ \A n \in Changing : /\ Alike(changes[n], after[n])
                                  /\ after[n].wait = changes[n].wait
                                  /\ after[n].seen = changes[n].seen
<1>1. ASSUME NEW n \in Changing
      PROVE  /\ after[n] \in Mutations /\ Alike(changes[n], after[n])
             /\ after[n].wait = changes[n].wait
             /\ after[n].seen = changes[n].seen
    <2>1. PICK c, d : c = changes[n] /\ d = after[n]
        OBVIOUS
    <2>2. c \in Mutations /\ d = [c EXCEPT !.locks = {}]
        BY <2>1 DEF Leaves
    <2>3. d \in Mutations /\ d.wait = c.wait /\ d.seen = c.seen
        BY <2>2 DEF Mutations
    <2>4. Alike(c, d)
        BY <2>2 DEF Mutations, Alike
    <2> QED
        BY <2>1, <2>3, <2>4
<1>2. after = [n \in Changing |-> [changes[n] EXCEPT !.locks = {}]]
    BY DEF Leaves
<1>3. after \in [Changing -> Mutations]
    BY <1>1, <1>2
<1> QED
    BY <1>1, <1>3

\* What an answer leaves in the cache.
LEMMA DeliveredIs ==
    ASSUME TypesOK, NEW k \in Keys, Delivered(k)
    PROVE  /\ cache' \in [Keys -> Entries]
           /\ cache'[k].data = Answer(k) /\ cache'[k].fetch = Idle
           /\ ~cache'[k].stale /\ ~cache'[k].error
           /\ \A j \in Keys : j # k => cache'[j] = cache[j]
           /\ Answer(k) \in Answers
<1> DEFINE new == [EmptyEntry EXCEPT !.data = Answer(k)]
<1>1. Answer(k) \in Answers
    BY AnswerIs DEF Delivered
<1>2. new = [data |-> Answer(k), fetch |-> EmptyEntry.fetch, stale |-> EmptyEntry.stale,
             error |-> EmptyEntry.error]
    BY EntryTyped DEF Entries
<1>3. new \in Entries
    BY <1>1, <1>2, EntryTyped DEF Entries
<1>4. new.data = Answer(k) /\ new.fetch = Idle /\ ~new.stale /\ ~new.error
    BY <1>2, EntryTyped
<1>5. cache' = [cache EXCEPT ![k] = new]
    BY DEF Delivered
<1> HIDE DEF new
<1> QED
    BY <1>1, <1>3, <1>4, <1>5 DEF TypesOK

LEMMA FailsIs ==
    ASSUME TypesOK, NEW k \in Keys, Fails(k)
    PROVE  /\ cache' \in [Keys -> Entries]
           /\ cache'[k].data = cache[k].data /\ cache'[k].fetch = Idle
           /\ cache'[k].stale = cache[k].stale /\ cache'[k].error
           /\ \A j \in Keys : j # k => cache'[j] = cache[j]
<1> DEFINE new == [cache[k] EXCEPT !.fetch = Idle, !.error = TRUE]
<1>1. cache[k] \in Entries
    BY DEF TypesOK
<1>2. cache' = [cache EXCEPT ![k] = new]
    <2>1. cache' = [cache EXCEPT ![k].fetch = Idle, ![k].error = TRUE]
        BY DEF Fails
    <2>2. [cache EXCEPT ![k].fetch = Idle, ![k].error = TRUE]
            = [cache EXCEPT ![k] = [cache[k] EXCEPT !.fetch = Idle, !.error = TRUE]]
        BY DEF TypesOK
    <2> QED
        BY <2>1, <2>2
<1>3. \A b \in BOOLEAN :
        LET f == [cache[k] EXCEPT !.fetch = Idle, !.error = b]
        IN  /\ f \in Entries /\ f.data = cache[k].data /\ f.fetch = Idle
            /\ f.stale = cache[k].stale /\ f.error = b
    BY <1>1 DEF Entries
<1>4. /\ new \in Entries /\ new.data = cache[k].data /\ new.fetch = Idle
      /\ new.stale = cache[k].stale /\ new.error
    BY <1>3
<1> HIDE DEF new
<1> QED
    BY <1>2, <1>4 DEF TypesOK

LEMMA NoMutationIs ==
    /\ NoMutation \in Mutations /\ NoMutation.kind = "none" /\ NoMutation.phase = "none"
    /\ NoMutation.todo = <<>> /\ NoMutation.wait = {} /\ NoMutation.wrote = NoCount
<1>1. 0 \in SeenValues /\ NoCount \in [Facets -> Nat]
    BY DEF SeenValues, NoCount
<1> HIDE DEF NoCount
<1>2. <<>> \in Seq(SUBSET Keys) /\ {} \in SUBSET Keys /\ {} \in SUBSET Kinds
    OBVIOUS
<1> QED
    BY <1>1, <1>2 DEF NoMutation, Mutations

LEMMA NothingUnderWay ==
    ASSUME NEW t \in Tables, NEW u PROVE ChangeUnderWay(NoMutation, t, u)
<1>1. \A f \in Facets : NoCount[f] <= t.rows[f]
    BY DEF NoCount, Tables
<1> QED
    BY <1>1, NoMutationIs DEF ChangeUnderWay

\* The change m ends.
LEMMA EndsIs ==
    ASSUME mutation \in [Changing -> Mutations], NEW m \in Changing,
           NEW after, after = [mutation EXCEPT ![m] = NoMutation]
    PROVE  /\ after \in [Changing -> Mutations] /\ after[m] = NoMutation
           /\ \A n \in Changing \ {m} : after[n] = mutation[n]
    BY NoMutationIs

\* The change as it is sent.
Sent(kind, seen) ==
    [NoMutation EXCEPT !.kind = kind, !.phase = "sent", !.locks = {kind} \cap Locking,
                       !.seen = seen]

LEMMA SentIs ==
    ASSUME NEW kind \in Kinds, NEW seen \in SeenValues, NEW c, c = Sent(kind, seen)
    PROVE  /\ c \in Mutations /\ c.kind = kind /\ c.phase = "sent"
           /\ c.todo = <<>> /\ c.wait = {} /\ c.wrote = NoCount /\ c.seen = seen
<1>1. PICK e, l : e = NoMutation /\ l = {kind} \cap Locking
    OBVIOUS
<1>2. e \in Mutations /\ l \in SUBSET Kinds
    BY <1>1, NoMutationIs
<1>3. c = [e EXCEPT !.kind = kind, !.phase = "sent", !.locks = l, !.seen = seen]
    BY <1>1 DEF Sent
<1>4. /\ c \in Mutations /\ c.kind = kind /\ c.phase = "sent"
      /\ c.todo = e.todo /\ c.wait = e.wait /\ c.wrote = e.wrote /\ c.seen = seen
    BY <1>2, <1>3 DEF Mutations
<1> QED
    BY <1>1, <1>4, NoMutationIs

\* The changes after another one is sent.
LEMMA SendsIs ==
    ASSUME TypesOK, MutationOK, NEW m \in Changing, NEW kind \in Kinds, Sends(m, kind)
    PROVE  /\ mutation[m] = NoMutation /\ kind \in Offers
           /\ UNCHANGED <<me, table, page, cache, acked, late, fails>>
           /\ mutation' \in [Changing -> Mutations]
           /\ mutation'[m].kind = kind /\ mutation'[m].phase = "sent"
           /\ mutation'[m].todo = <<>> /\ mutation'[m].wait = {}
           /\ mutation'[m].wrote = NoCount
           /\ mutation'[m].seen = IF kind = "cancelMine" THEN Seen ELSE 0
           /\ \A n \in Changing \ {m} :
                 /\ Alike(mutation[n], mutation'[n]) /\ mutation'[n].wait = mutation[n].wait
                 /\ mutation'[n] = Overlapped(mutation[n], kind)
                 /\ mutation'[n].seen \in {mutation[n].seen, Asked}
                 /\ kind \in Participations /\ mutation[n].kind = "cancelMine"
                       => mutation'[n].seen = Asked
<1> DEFINE s == IF kind = "cancelMine" THEN Seen ELSE 0
<1>1. /\ mutation[m] = NoMutation /\ kind \in Offers
      /\ UNCHANGED <<me, table, page, cache, acked, late, fails>>
      /\ mutation' = [n \in Changing |-> IF n = m THEN Sent(kind, s)
                                        ELSE Overlapped(mutation[n], kind)]
    BY DEF Sends, Sent
<1>2. s \in SeenValues
    <2> SUFFICES ASSUME kind = "cancelMine" PROVE Seen \in SeenValues
        BY DEF SeenValues
    <2>1. Data("participations") # Undefined
        BY <1>1, Offered DEF TypesOK, Shows
    <2>2. Data("participations") \in Answers
        BY <2>1 DEF TypesOK, Entries, Keys, Data
    <2>3. Data("participations").others \in Nat
        BY <2>2 DEF Answers
    <2> QED
        BY <2>3 DEF Seen, SeenValues
<1> HIDE DEF s
<1>3. PICK c : c = Sent(kind, s)
    OBVIOUS
<1>4. /\ c \in Mutations /\ c.kind = kind /\ c.phase = "sent"
      /\ c.todo = <<>> /\ c.wait = {} /\ c.wrote = NoCount /\ c.seen = s
    BY <1>2, <1>3, SentIs
<1>5. ASSUME NEW n \in Changing \ {m}
      PROVE  /\ Overlapped(mutation[n], kind) \in Mutations
             /\ Alike(mutation[n], Overlapped(mutation[n], kind))
             /\ Overlapped(mutation[n], kind).wait = mutation[n].wait
             /\ Overlapped(mutation[n], kind).seen \in {mutation[n].seen, Asked}
             /\ kind \in Participations /\ mutation[n].kind = "cancelMine"
                   => Overlapped(mutation[n], kind).seen = Asked
    <2>1. PICK e, d : e = mutation[n] /\ d = Overlapped(mutation[n], kind)
        OBVIOUS
    <2>2. e \in Mutations /\ Asked \in SeenValues
        BY <2>1 DEF MutationOK, SeenValues
    <2>3. CASE kind \in Participations /\ e.kind = "cancelMine"
        <3>1. d = [e EXCEPT !.seen = Asked]
            BY <2>1, <2>3 DEF Overlapped
        <3>2. d \in Mutations /\ d.wait = e.wait /\ d.seen = Asked
            BY <2>2, <3>1 DEF Mutations
        <3>3. Alike(e, d)
            BY <2>2, <3>1 DEF Mutations, Alike
        <3> QED
            BY <2>1, <3>2, <3>3
    <2>4. CASE ~(kind \in Participations /\ e.kind = "cancelMine")
        <3>1. d = e
            BY <2>1, <2>4 DEF Overlapped
        <3> QED
            BY <2>1, <2>2, <2>4, <3>1, AlikeSelf
    <2> QED
        BY <2>3, <2>4
<1>6. /\ mutation'[m] = c
      /\ \A n \in Changing \ {m} : mutation'[n] = Overlapped(mutation[n], kind)
    BY <1>1, <1>3
<1>7. mutation' \in [Changing -> Mutations]
    BY <1>1, <1>3, <1>4, <1>5
<1> QED
    BY <1>1, <1>4, <1>5, <1>6, <1>7 DEF s

\* The commit of a change: each facet it writes counts one more.
LEMMA CommitsIs ==
    ASSUME TypesOK, MutationOK, NEW m \in Changing, Commits(m)
    PROVE  LET kind == mutation[m].kind
           IN  /\ table' \in Tables /\ table'.others = table.others
               /\ table'.alive = table.alive \ Kills(kind)
               /\ \A f \in Facets : table'.rows[f] = IF f \in ChangeOf(kind).writes
                                                    THEN table.rows[f] + 1 ELSE table.rows[f]
               /\ kind \in Participations => table'.part = ToStatus(kind)
               /\ mutation' \in [Changing -> Mutations]
               /\ \A n \in Changing \ {m} : mutation'[n] = mutation[n]
               /\ mutation'[m].kind = kind /\ mutation'[m].phase = "done"
               /\ mutation'[m].seen = mutation[m].seen
               /\ mutation'[m].todo = mutation[m].todo /\ mutation'[m].wait = mutation[m].wait
               /\ \A f \in Facets : mutation'[m].wrote[f] = IF f \in ChangeOf(kind).writes
                                                           THEN table'.rows[f] ELSE 0
<1> DEFINE kind == mutation[m].kind
           rows == [f \in Facets |-> IF f \in ChangeOf(kind).writes THEN table.rows[f] + 1
                                     ELSE table.rows[f]]
           part == IF kind \in Participations THEN ToStatus(kind)
                   ELSE IF Kills(kind) # {} THEN "NONE" ELSE table.part
           wrote == [f \in Facets |-> IF f \in ChangeOf(kind).writes THEN rows[f] ELSE 0]
<1>1. /\ table' = [table EXCEPT !.rows = rows, !.alive = @ \ Kills(kind), !.part = part]
      /\ mutation' = [mutation EXCEPT ![m] = [@ EXCEPT !.phase = "done", !.wrote = wrote]]
    BY DEF Commits
<1>2. rows \in [Facets -> Nat]
    BY DEF TypesOK, Tables
<1>3. part \in Statuses
    BY DEF TypesOK, Tables, Statuses, Participations, ToStatus
<1>4. \A f \in Facets : rows[f] = IF f \in ChangeOf(kind).writes THEN table.rows[f] + 1
                                  ELSE table.rows[f]
    OBVIOUS
<1>5. kind \in Participations => part = ToStatus(kind)
    OBVIOUS
<1> HIDE DEF rows
<1>6. /\ wrote \in [Facets -> Nat]
      /\ \A f \in Facets : wrote[f] = IF f \in ChangeOf(kind).writes THEN rows[f] ELSE 0
    BY <1>2
<1> HIDE DEF part, wrote
<1>7. table' = [rows |-> rows, alive |-> table.alive \ Kills(kind), part |-> part,
                others |-> table.others]
    BY <1>1 DEF TypesOK, Tables
<1>8. table' \in Tables
    BY <1>2, <1>3, <1>7 DEF TypesOK, Tables
<1>9. PICK c, e, w : /\ e = mutation[m] /\ w = wrote
                     /\ c = [e EXCEPT !.phase = "done", !.wrote = w]
    OBVIOUS
<1>10. e \in Mutations /\ w \in [Facets -> Nat]
    BY <1>6, <1>9 DEF MutationOK
<1>11. /\ c \in Mutations /\ c.kind = e.kind /\ c.phase = "done" /\ c.seen = e.seen
       /\ c.todo = e.todo /\ c.wait = e.wait /\ c.wrote = w
    BY <1>9, <1>10 DEF Mutations
<1>12. /\ mutation' \in [Changing -> Mutations] /\ mutation'[m] = c
       /\ \A n \in Changing \ {m} : mutation'[n] = mutation[n]
    BY <1>1, <1>9, <1>11 DEF MutationOK
<1>13. table'.rows = rows /\ table'.others = table.others /\ table'.part = part
       /\ table'.alive = table.alive \ Kills(kind)
    BY <1>7
<1>14. \A f \in Facets : mutation'[m].wrote[f] = IF f \in ChangeOf(kind).writes
                                                THEN table'.rows[f] ELSE 0
    BY <1>6, <1>9, <1>11, <1>12, <1>13
<1> QED
    BY <1>4, <1>5, <1>8, <1>9, <1>11, <1>12, <1>13, <1>14

LEMMA OtherPartyIs ==
    ASSUME TypesOK, OtherParty
    PROVE  /\ table' \in Tables /\ table'.others = table.others + 1
           /\ table'.alive = table.alive /\ table'.rows = table.rows
<1>1. PICK kind \in IF Owns THEN {"accept", "reject", "cancel"}
                    ELSE {"participate", "cancelMine"} :
        table' = [table EXCEPT !.part = ToStatus(kind), !.others = @ + 1]
    BY DEF OtherParty
<1>2. kind \in Participations
    BY <1>1 DEF Participations
<1>3. ToStatus(kind) \in Statuses
    BY <1>2 DEF Participations, ToStatus, Statuses
<1>4. table' = [rows |-> table.rows, alive |-> table.alive, part |-> ToStatus(kind),
                others |-> table.others + 1]
    BY <1>1 DEF TypesOK, Tables
<1> QED
    BY <1>3, <1>4 DEF TypesOK, Tables

\* A step that leaves the tables and what the tab was told of as they are.
LEMMA ShapesFrame ==
    ASSUME TypesOK, CountsOK, UNCHANGED <<me, table, acked>>,
           page' \in Pages, cache' \in [Keys -> Entries], late' \in SUBSET Keys,
           fails' \in Nat, MutationOK', WaitsOK'
    PROVE  ShapesOK'
<1>1. TypesOK'
    BY DEF TypesOK
<1>2. CountsOK'
    BY DEF CountsOK
<1> QED
    BY <1>1, <1>2 DEF ShapesOK

\* No change waits for more than it did, and no request under way ends.
LEMMA WaitsStay ==
    ASSUME mutation \in [Changing -> Mutations], WaitsOK,
           \A n \in Changing : mutation'[n].wait \subseteq mutation[n].wait,
           \A k \in Keys : cache[k].fetch # Idle => cache'[k].fetch # Idle
    PROVE  WaitsOK'
<1> SUFFICES ASSUME NEW n \in Changing, NEW k \in mutation'[n].wait
             PROVE  cache'[k].fetch # Idle
    BY DEF WaitsOK
<1>1. mutation[n].wait \in SUBSET Keys
    BY DEF Mutations
<1> QED
    BY <1>1 DEF WaitsOK

\* The query j is answered, or has failed.
LEMMA SettledShapes ==
    ASSUME ShapesOK, UNCHANGED <<me, table, page, acked, late>>, fails' \in Nat,
           NEW j \in Keys, mutation' = Settled({j}), cache' \in [Keys -> Entries],
           \A k \in Keys : k # j => cache'[k] = cache[k]
    PROVE  ShapesOK'
<1> USE DEF ShapesOK
<1>1. /\ mutation' \in [Changing -> Mutations]
      /\ \A n \in Changing : /\ Alike(mutation[n], mutation'[n])
                             /\ mutation'[n].wait = mutation[n].wait \ {j}
    BY SettledIs DEF MutationOK
<1>2. MutationOK'
    BY <1>1, TablesStay, ChangesStay
<1>3. WaitsOK'
    <2> SUFFICES ASSUME NEW n \in Changing, NEW k \in mutation'[n].wait
                 PROVE  cache'[k].fetch # Idle
        BY DEF WaitsOK
    <2>1. mutation[n].wait \in SUBSET Keys
        BY DEF MutationOK, Mutations
    <2>2. k \in Keys /\ k # j /\ cache[k].fetch # Idle
        BY <1>1, <2>1 DEF WaitsOK
    <2> QED
        BY <2>2
<1>4. page' \in Pages /\ late' \in SUBSET Keys
    BY DEF TypesOK
<1> QED
    BY <1>2, <1>3, <1>4, ShapesFrame

\* The change m ends, refused or lost.
LEMMA EndedShapes ==
    ASSUME ShapesOK, UNCHANGED <<me, table, page, cache, acked, late>>, fails' \in Nat,
           NEW m \in Changing, mutation' = [mutation EXCEPT ![m] = NoMutation]
    PROVE  ShapesOK'
<1> USE DEF ShapesOK
<1>1. /\ mutation' \in [Changing -> Mutations] /\ mutation'[m] = NoMutation
      /\ \A n \in Changing \ {m} : mutation'[n] = mutation[n]
    BY EndsIs DEF MutationOK
<1>2. \A n \in Changing : \/ Alike(mutation[n], mutation'[n])
                          \/ ChangeUnderWay(mutation'[n], table', me)
    BY <1>1, AlikeSelf, NothingUnderWay DEF TypesOK
<1>3. MutationOK'
    BY <1>1, <1>2, TablesStay, ChangesStay
<1>4. \A n \in Changing : mutation'[n].wait \subseteq mutation[n].wait
    BY <1>1, NoMutationIs
<1>5. WaitsOK'
    BY <1>4, WaitsStay DEF MutationOK
<1>6. page' \in Pages /\ cache' \in [Keys -> Entries] /\ late' \in SUBSET Keys
    BY DEF TypesOK
<1> QED
    BY <1>3, <1>5, <1>6, ShapesFrame

LEMMA UserShapes == ASSUME ShapesOK, User PROVE ShapesOK'
<1> USE DEF ShapesOK
<1>0. mutation \in [Changing -> Mutations]
    BY DEF MutationOK
<1>1. ASSUME NEW p \in Pages, GoesTo(p) PROVE ShapesOK'
    <2>1. UNCHANGED <<me, table, acked, fails>> /\ mutation' = Leaves(mutation)
        BY <1>1 DEF GoesTo
    <2>2. PICK aged \in SUBSET Observes(p) : Mounts(p, aged)
        BY <1>1 DEF GoesTo
    <2>3. /\ page' \in Pages /\ cache' \in [Keys -> Entries] /\ late' \in SUBSET Keys
          /\ \A k \in Keys : cache[k].fetch # Idle => cache'[k].fetch # Idle
        BY <2>2, MountsEffect
    <2>4. /\ mutation' \in [Changing -> Mutations]
          /\ \A n \in Changing : /\ Alike(mutation[n], mutation'[n])
                                 /\ mutation'[n].wait = mutation[n].wait
        BY <1>0, <2>1, LeavesIs
    <2>5. MutationOK'
        BY <2>1, <2>4, TablesStay, ChangesStay
    <2>6. WaitsOK'
        BY <1>0, <2>3, <2>4, WaitsStay
    <2>7. fails' \in Nat
        BY <2>1 DEF TypesOK
    <2> QED
        BY <2>1, <2>3, <2>5, <2>6, <2>7, ShapesFrame
<1>2. ASSUME NEW m \in Changing, NEW kind \in Kinds, Sends(m, kind) PROVE ShapesOK'
    <2>1. /\ kind \in Offers /\ UNCHANGED <<me, table, page, cache, acked, late, fails>>
          /\ mutation' \in [Changing -> Mutations]
          /\ mutation'[m].kind = kind /\ mutation'[m].phase = "sent"
          /\ mutation'[m].todo = <<>> /\ mutation'[m].wait = {}
          /\ mutation'[m].wrote = NoCount
          /\ \A n \in Changing \ {m} :
                Alike(mutation[n], mutation'[n]) /\ mutation'[n].wait = mutation[n].wait
        BY <1>2, SendsIs
    <2>2. kind \in KindsOf(me)
        BY <2>1, Offered DEF TypesOK
    <2>3. ChangeUnderWay(mutation'[m], table', me)
        <3>1. \A f \in Facets : NoCount[f] <= table'.rows[f]
            BY <2>1 DEF NoCount, TypesOK, Tables
        <3> QED
            BY <2>1, <2>2, <3>1 DEF ChangeUnderWay
    <2>4. MutationOK'
        BY <2>1, <2>3, TablesStay, ChangesStay
    <2>5. \A n \in Changing : mutation'[n].wait \subseteq mutation[n].wait
        BY <2>1
    <2>6. WaitsOK'
        BY <1>0, <2>1, <2>5, WaitsStay
    <2>7. page' \in Pages /\ cache' \in [Keys -> Entries] /\ late' \in SUBSET Keys /\ fails' \in Nat
        BY <2>1 DEF TypesOK
    <2> QED
        BY <2>1, <2>4, <2>6, <2>7, ShapesFrame
<1>3. ASSUME NEW j \in Keys, RendersAgain(j) PROVE ShapesOK'
    <2>1. /\ cache' = [cache EXCEPT ![j] = Ask(cache[j])]
          /\ UNCHANGED <<me, table, page, mutation, acked, late, fails>>
        BY <1>3 DEF RendersAgain
    <2>2. cache[j] \in Entries
        BY DEF TypesOK
    <2>3. Ask(cache[j]) \in Entries /\ Ask(cache[j]).fetch = Asked
        BY <2>2, Asks
    <2>4. /\ cache' \in [Keys -> Entries]
          /\ \A k \in Keys : cache[k].fetch # Idle => cache'[k].fetch # Idle
        BY <2>1, <2>3, MarksApart DEF TypesOK
    <2>5. MutationOK'
        BY <2>1 DEF MutationOK
    <2>6. WaitsOK'
        BY <1>0, <2>1, <2>4, WaitsStay
    <2>7. page' \in Pages /\ late' \in SUBSET Keys /\ fails' \in Nat
        BY <2>1 DEF TypesOK
    <2> QED
        BY <2>1, <2>4, <2>5, <2>6, <2>7, ShapesFrame
<1> QED
    BY <1>1, <1>2, <1>3 DEF User

\* What a change of the user of the tab is made of.
LEMMA ChangeParts ==
    ASSUME TypesOK, NEW kind \in KindsOf(me)
    PROVE  LET change == ChangeOf(kind)
           IN  /\ change.writes \in SUBSET Facets /\ change.removes \in SUBSET Keys
               /\ change.refreshes \in Seq(SUBSET Keys) /\ change.refreshes # <<>>
               /\ change.goesTo \in SUBSET Pages
               /\ \A k \in Keys : Covers(change, GoneWith(kind), k)
<1>1. ChangeOK(ChangeOf(kind), GoneWith(kind))
    BY ChangeCovers DEF TypesOK
<1> QED
    BY <1>1 DEF ChangeOK, Changes

\* The change m refreshes its next queries; the others stay as they are in changes.
LEMMA RefreshShapes ==
    ASSUME TypesOK, MutationOK, UNCHANGED <<me, page, table>>,
           NEW m \in Changing, mutation[m].phase # "none",
           NEW changes \in [Changing -> Mutations],
           \A n \in Changing : Alike(mutation[n], changes[n]),
           NEW entries \in [Keys -> Entries], NEW todo \in Seq(SUBSET Keys), todo # <<>>,
           \A n \in Changing : \A k \in changes[n].wait : entries[k].fetch # Idle,
           NEW told, Refresh(m, changes, entries, todo, told)
    PROVE  /\ cache' \in [Keys -> Entries] /\ late' \in SUBSET Keys
           /\ MutationOK' /\ WaitsOK'
<1>1. /\ cache' = Invalidates(entries, Head(todo)) /\ cache' \in [Keys -> Entries]
      /\ Head(todo) \in SUBSET Keys /\ late' \in SUBSET Keys
      /\ mutation' \in [Changing -> Mutations]
      /\ \A n \in Changing \ {m} : mutation'[n] = changes[n]
      /\ mutation'[m].kind = changes[m].kind /\ mutation'[m].phase = "refreshing"
      /\ mutation'[m].wrote = NoCount
      /\ \A k \in mutation'[m].wait : cache'[k].fetch # Idle
    BY RefreshEffect DEF TypesOK
<1>2. ChangeUnderWay(mutation'[m], table', me)
    <2>1. \A f \in Facets : NoCount[f] <= table'.rows[f]
        BY DEF NoCount, TypesOK, Tables
    <2>2. mutation'[m].kind \in KindsOf(me)
        BY <1>1 DEF MutationOK, ChangeUnderWay, Alike
    <2> QED
        BY <1>1, <2>1, <2>2 DEF ChangeUnderWay
<1>3. MutationOK'
    BY <1>1, <1>2, TablesStay, ChangesStay
<1>4. WaitsOK'
    <2> SUFFICES ASSUME NEW n \in Changing \ {m}, NEW k \in changes[n].wait
                 PROVE  cache'[k].fetch # Idle
        BY <1>1 DEF WaitsOK
    <2>1. k \in Keys
        BY DEF Mutations
    <2>2. entries[k].fetch # Idle
        OBVIOUS
    <2>3. cache'[k].fetch \in {entries[k].fetch, Asked}
        BY <1>1, <2>1, InvalidatesEffect
    <2> QED
        BY <2>2, <2>3, MarksApart
<1> QED
    BY <1>1, <1>3, <1>4

LEMMA AcknowledgedIs ==
    ASSUME TypesOK, MutationOK, NEW m \in Changing, Acknowledged(m)
    PROVE  LET kind == mutation[m].kind
               change == ChangeOf(kind)
               kept == [k \in Keys |-> IF k \in change.removes THEN EmptyEntry ELSE cache[k]]
           IN  /\ mutation[m].phase = "done" /\ kind \in KindsOf(me)
               /\ acked' \in [Facets -> Nat]
               /\ \A f \in Facets : acked'[f] = Highest(acked[f], mutation[m].wrote[f])
               /\ kept \in [Keys -> Entries]
               /\ change.refreshes \in Seq(SUBSET Keys) /\ change.refreshes # <<>>
               /\ Refresh(m, Settled(change.removes), kept, change.refreshes, acked')
               /\ UNCHANGED <<me, table, page, fails>>
<1> DEFINE change == ChangeOf(mutation[m].kind)
           kept == [k \in Keys |-> IF k \in change.removes THEN EmptyEntry ELSE cache[k]]
<1>1. /\ mutation[m].phase = "done" /\ UNCHANGED <<me, table, page, fails>>
      /\ acked' = [f \in Facets |-> Highest(acked[f], mutation[m].wrote[f])]
      /\ Refresh(m, Settled(change.removes), kept, change.refreshes, acked')
    BY DEF Acknowledged
<1>2. mutation[m].kind \in KindsOf(me) /\ mutation[m].wrote \in [Facets -> Nat]
    BY <1>1 DEF MutationOK, ChangeUnderWay, Mutations
<1>3. change.refreshes \in Seq(SUBSET Keys) /\ change.refreshes # <<>>
    BY <1>2, ChangeParts
<1> HIDE DEF change
<1>4. kept \in [Keys -> Entries]
    BY EntryTyped DEF TypesOK
<1>5. acked' \in [Facets -> Nat]
    BY <1>1, <1>2 DEF TypesOK, Highest
<1>6. \A f \in Facets : acked'[f] = Highest(acked[f], mutation[m].wrote[f])
    BY <1>1
<1> HIDE DEF kept
<1> QED
    BY <1>1, <1>2, <1>3, <1>4, <1>5, <1>6 DEF change, kept

LEMMA AcknowledgedShapes ==
    ASSUME ShapesOK, NEW m \in Changing, Acknowledged(m) PROVE ShapesOK'
<1> USE DEF ShapesOK
<1> DEFINE change == ChangeOf(mutation[m].kind)
           kept == [k \in Keys |-> IF k \in change.removes THEN EmptyEntry ELSE cache[k]]
<1>1. /\ mutation[m].phase = "done" /\ acked' \in [Facets -> Nat]
      /\ mutation[m].kind \in KindsOf(me)
      /\ \A f \in Facets : acked'[f] = Highest(acked[f], mutation[m].wrote[f])
      /\ kept \in [Keys -> Entries]
      /\ change.refreshes \in Seq(SUBSET Keys) /\ change.refreshes # <<>>
      /\ Refresh(m, Settled(change.removes), kept, change.refreshes, acked')
      /\ UNCHANGED <<me, table, page, fails>>
    BY AcknowledgedIs
<1>2. change.removes \in SUBSET Keys
    BY <1>1, ChangeParts
<1>3. \A k \in Keys : kept[k] = IF k \in change.removes THEN EmptyEntry ELSE cache[k]
    OBVIOUS
<1> HIDE DEF kept, change
<1>4. PICK changes : changes = Settled(change.removes)
    OBVIOUS
<1>5. /\ changes \in [Changing -> Mutations]
      /\ \A n \in Changing : /\ Alike(mutation[n], changes[n])
                             /\ changes[n].wait = mutation[n].wait \ change.removes
    BY <1>2, <1>4, SettledIs DEF MutationOK
<1>6. ASSUME NEW n \in Changing, NEW k \in changes[n].wait PROVE kept[k].fetch # Idle
    <2>1. k \in mutation[n].wait /\ k \notin change.removes
        BY <1>5
    <2>2. k \in Keys /\ cache[k].fetch # Idle
        BY <2>1 DEF MutationOK, Mutations, WaitsOK
    <2> QED
        BY <1>3, <2>1, <2>2
<1>7. Refresh(m, changes, kept, change.refreshes, acked')
    BY <1>1, <1>4
<1>8. mutation[m].phase # "none"
    BY <1>1
<1>9. /\ cache' \in [Keys -> Entries] /\ late' \in SUBSET Keys
      /\ MutationOK' /\ WaitsOK'
    BY <1>1, <1>5, <1>6, <1>7, <1>8, RefreshShapes
<1>10. TypesOK'
    BY <1>1, <1>9 DEF TypesOK
<1>11. CountsOK'
    <2> SUFFICES ASSUME NEW f \in Facets PROVE acked'[f] <= table.rows[f]
        BY <1>1 DEF CountsOK
    <2>1. acked[f] <= table.rows[f] /\ mutation[m].wrote[f] <= table.rows[f]
        BY DEF CountsOK, MutationOK, ChangeUnderWay
    <2> QED
        BY <1>1, <2>1 DEF Highest
<1> QED
    BY <1>9, <1>10, <1>11

LEMMA SystemShapes == ASSUME ShapesOK, System PROVE ShapesOK'
<1> USE DEF ShapesOK
<1>0. mutation \in [Changing -> Mutations] /\ fails \in Nat
    BY DEF MutationOK, TypesOK
<1>1. ASSUME NEW m \in Changing, Commits(m) PROVE ShapesOK'
    <2> DEFINE kind == mutation[m].kind
    <2>1. /\ mutation[m].phase = "sent" /\ TablesChange(cache')
          /\ UNCHANGED <<me, page, acked, late, fails>>
        BY <1>1 DEF Commits
    <2>2. /\ table' \in Tables /\ table'.alive = table.alive \ Kills(kind)
          /\ \A f \in Facets : table'.rows[f] = IF f \in ChangeOf(kind).writes
                                               THEN table.rows[f] + 1 ELSE table.rows[f]
          /\ mutation' \in [Changing -> Mutations]
          /\ \A n \in Changing \ {m} : mutation'[n] = mutation[n]
          /\ mutation'[m].kind = kind /\ mutation'[m].phase = "done"
          /\ mutation'[m].todo = mutation[m].todo /\ mutation'[m].wait = mutation[m].wait
          /\ \A f \in Facets : mutation'[m].wrote[f] = IF f \in ChangeOf(kind).writes
                                                      THEN table'.rows[f] ELSE 0
        BY <1>1, CommitsIs
    <2>3. /\ cache' \in [Keys -> Entries]
          /\ \A k \in Keys : cache[k].fetch # Idle => cache'[k].fetch # Idle
        <3>1. \A k \in Keys : Snapshot(k) # Idle
            BY SnapshotIs, MarksApart DEF TypesOK
        <3> QED
            BY <2>1, <3>1, TablesChangeEffect
    <2>4. \A f \in Facets : /\ table.rows[f] \in Nat /\ table'.rows[f] \in Nat
                            /\ table.rows[f] <= table'.rows[f]
        BY <2>2 DEF TypesOK, Tables
    <2>5. TypesOK'
        BY <2>1, <2>2, <2>3 DEF TypesOK
    <2>6. ChangeUnderWay(mutation'[m], table', me)
        <3>1. /\ kind \in KindsOf(me) /\ mutation[m].todo = <<>> /\ mutation[m].wait = {}
            BY <2>1 DEF MutationOK, ChangeUnderWay
        <3>2. \A f \in Facets : mutation'[m].wrote[f] <= table'.rows[f]
            BY <2>2, <2>4
        <3> QED
            BY <2>2, <3>1, <3>2 DEF ChangeUnderWay
    <2>7. MutationOK'
        BY <2>1, <2>2, <2>4, <2>6, AlikeSelf, ChangesStay
    <2>8. WaitsOK'
        BY <1>0, <2>2, <2>3, WaitsStay
    <2>9. CountsOK'
        BY <2>1, <2>4 DEF CountsOK, TypesOK
    <2> QED
        BY <2>5, <2>7, <2>8, <2>9
<1>2. ASSUME NEW m \in Changing, Refused(m) PROVE ShapesOK'
    BY <1>0, <1>2, EndedShapes DEF Refused
<1>3. ASSUME NEW m \in Changing, Acknowledged(m) PROVE ShapesOK'
    BY <1>3, AcknowledgedShapes
<1>4. ASSUME NEW m \in Changing, RefreshesNext(m) PROVE ShapesOK'
    <2>1. /\ mutation[m].phase # "none" /\ mutation[m].todo # <<>>
          /\ Refresh(m, mutation, cache, mutation[m].todo, acked)
          /\ UNCHANGED <<me, table, page, acked, fails>>
        BY <1>4 DEF RefreshesNext
    <2>2. mutation[m].todo \in Seq(SUBSET Keys) /\ cache \in [Keys -> Entries]
        BY <1>0 DEF Mutations, TypesOK
    <2>3. \A n \in Changing : Alike(mutation[n], mutation[n])
        BY AlikeSelf
    <2>4. \A n \in Changing : \A k \in mutation[n].wait : cache[k].fetch # Idle
        BY DEF WaitsOK
    <2>5. /\ cache' \in [Keys -> Entries] /\ late' \in SUBSET Keys
          /\ MutationOK' /\ WaitsOK'
        BY <1>0, <2>1, <2>2, <2>3, <2>4, RefreshShapes
    <2>6. page' \in Pages /\ fails' \in Nat
        BY <1>0, <2>1 DEF TypesOK
    <2> QED
        BY <2>1, <2>5, <2>6, ShapesFrame
<1>5. ASSUME NEW m \in Changing, Finishes(m) PROVE ShapesOK'
    <2> DEFINE ended == [mutation EXCEPT ![m] = NoMutation]
               leads == ChangeOf(mutation[m].kind).goesTo
    <2>1. /\ mutation[m].phase = "refreshing" /\ UNCHANGED <<me, table, acked, fails>>
          /\ \/ mutation' = ended /\ UNCHANGED <<page, cache, late>>
             \/ /\ \E p \in leads \ {page} : \E aged \in SUBSET Observes(p) : Mounts(p, aged)
                /\ mutation' = Leaves(ended)
        BY <1>5 DEF Finishes
    <2>2. leads \in SUBSET Pages
        <3>1. mutation[m].kind \in KindsOf(me)
            BY <2>1 DEF MutationOK, ChangeUnderWay
        <3> QED
            BY <3>1, ChangeParts
    <2> HIDE DEF leads
    <2>3. CASE mutation' = ended /\ UNCHANGED <<page, cache, late>>
        BY <1>0, <2>1, <2>3, EndedShapes
    <2>4. CASE /\ \E p \in leads \ {page} : \E aged \in SUBSET Observes(p) : Mounts(p, aged)
               /\ mutation' = Leaves(ended)
        <3>1. PICK p \in Pages : \E aged \in SUBSET Observes(p) : Mounts(p, aged)
            BY <2>2, <2>4
        <3>2. /\ page' \in Pages /\ cache' \in [Keys -> Entries] /\ late' \in SUBSET Keys
              /\ \A k \in Keys : cache[k].fetch # Idle => cache'[k].fetch # Idle
            BY <3>1, MountsEffect
        <3>3. /\ ended \in [Changing -> Mutations] /\ ended[m] = NoMutation
              /\ \A n \in Changing \ {m} : ended[n] = mutation[n]
            BY <1>0, EndsIs
        <3> HIDE DEF ended
        <3>4. /\ mutation' \in [Changing -> Mutations]
              /\ \A n \in Changing : /\ Alike(ended[n], mutation'[n])
                                     /\ mutation'[n].wait = ended[n].wait
            BY <2>4, <3>3, LeavesIs
        <3>5. ChangeUnderWay(mutation'[m], table', me)
            <4>1. ChangeUnderWay(NoMutation, table, me)
                BY NothingUnderWay DEF TypesOK
            <4>2. mutation'[m].wrote \in [Facets -> Nat]
                BY <3>4 DEF Mutations
            <4>3. /\ table \in Tables /\ table' \in Tables /\ table'.alive \subseteq table.alive
                  /\ \A f \in Facets : table.rows[f] <= table'.rows[f]
                BY <2>1, TablesStay DEF TypesOK
            <4> QED
                BY <3>3, <3>4, <4>1, <4>2, <4>3, AlikeUnderWay
        <3>6. MutationOK'
            BY <2>1, <3>3, <3>4, <3>5, TablesStay, ChangesStay
        <3>7. \A n \in Changing : mutation'[n].wait \subseteq mutation[n].wait
            BY <3>3, <3>4, NoMutationIs
        <3>8. WaitsOK'
            BY <1>0, <3>2, <3>7, WaitsStay
        <3> QED
            BY <1>0, <2>1, <3>2, <3>6, <3>8, ShapesFrame
    <2> QED
        BY <2>1, <2>3, <2>4
<1>6. ASSUME NEW j \in Keys, Delivered(j) PROVE ShapesOK'
    <2>1. /\ mutation' = Settled({j}) /\ UNCHANGED <<me, table, page, acked, late, fails>>
        BY <1>6 DEF Delivered
    <2>2. cache' \in [Keys -> Entries] /\ \A k \in Keys : k # j => cache'[k] = cache[k]
        BY <1>6, DeliveredIs
    <2> QED
        BY <1>0, <2>1, <2>2, SettledShapes
<1>7. ASSUME NEW j \in Keys, IsNotFound(j) PROVE ShapesOK'
    <2>1. /\ mutation' = Settled({j}) /\ Fails(j)
          /\ UNCHANGED <<me, table, page, acked, late, fails>>
        BY <1>7 DEF IsNotFound, Fails
    <2>2. cache' \in [Keys -> Entries] /\ \A k \in Keys : k # j => cache'[k] = cache[k]
        BY <2>1, FailsIs
    <2> QED
        BY <1>0, <2>1, <2>2, SettledShapes
<1> QED
    BY <1>1, <1>2, <1>3, <1>4, <1>5, <1>6, <1>7 DEF System

LEMMA RestShapes == ASSUME ShapesOK, Faults \/ OtherParty PROVE ShapesOK'
<1> USE DEF ShapesOK
<1>0. mutation \in [Changing -> Mutations] /\ fails \in Nat /\ fails + 1 \in Nat
    BY DEF MutationOK, TypesOK
<1>1. ASSUME NEW m \in Changing, LosesCall(m) PROVE ShapesOK'
    BY <1>0, <1>1, EndedShapes DEF LosesCall
<1>2. ASSUME NEW j \in Keys, LosesQuery(j) PROVE ShapesOK'
    <2>1. /\ mutation' = Settled({j}) /\ Fails(j) /\ fails' = fails + 1
          /\ UNCHANGED <<me, table, page, acked, late>>
        BY <1>2 DEF LosesQuery, Fails
    <2>2. cache' \in [Keys -> Entries] /\ \A k \in Keys : k # j => cache'[k] = cache[k]
        BY <2>1, FailsIs
    <2> QED
        BY <1>0, <2>1, <2>2, SettledShapes
<1>3. CASE OtherParty
    <2>1. TablesChange(cache') /\ UNCHANGED <<me, page, mutation, acked, late, fails>>
        BY <1>3 DEF OtherParty
    <2>2. table' \in Tables /\ table'.alive = table.alive /\ table'.rows = table.rows
        BY <1>3, OtherPartyIs
    <2>3. \A k \in Keys : Snapshot(k) # Idle
        BY SnapshotIs, MarksApart DEF TypesOK
    <2>4. /\ cache' \in [Keys -> Entries]
          /\ \A k \in Keys : cache[k].fetch # Idle => cache'[k].fetch # Idle
        BY <2>1, <2>3, TablesChangeEffect
    <2>5. TypesOK'
        BY <2>1, <2>2, <2>4 DEF TypesOK
    <2>6. MutationOK'
        <3>1. /\ table'.alive \subseteq table.alive
              /\ \A f \in Facets : table.rows[f] <= table'.rows[f]
            BY <2>2 DEF TypesOK, Tables
        <3> QED
            BY <1>0, <2>1, <2>2, <3>1, AlikeSelf, ChangesStay
    <2>7. CountsOK'
        BY <2>1, <2>2 DEF CountsOK
    <2>8. WaitsOK'
        BY <1>0, <2>1, <2>4, WaitsStay
    <2> QED
        BY <2>5, <2>6, <2>7, <2>8
<1> QED
    BY <1>1, <1>2, <1>3 DEF Faults

-----------------------------------------------------------------------------
(* Each step keeps every entry as the invariant wants it *)

\* What is owed remains so while no change with queries left to refresh ends.
LEMMA OwedStays ==
    ASSUME NEW k,
           \A n \in Changing : mutation[n].phase = "refreshing" /\ mutation[n].todo # <<>> =>
               mutation'[n].phase = "refreshing" /\ mutation'[n].todo = mutation[n].todo
    PROVE  Owed(k) => Owed(k)'
<1> SUFFICES ASSUME Owed(k) PROVE Owed(k)'
    OBVIOUS
<1>1. PICK n \in Changing : /\ mutation[n].phase = "refreshing"
                            /\ \E i \in DOMAIN mutation[n].todo : k \in mutation[n].todo[i]
    BY DEF Owed
<1>2. mutation[n].todo # <<>>
    BY <1>1
<1> QED
    BY <1>1, <1>2 DEF Owed

LEMMA FailedEntry ==
    ASSUME TypesOK, MutationOK, NEW j \in Keys, Fails(j), NEW k \in Keys, EntryOK(k)
    PROVE  EntryOK(k)'
<1>1. /\ mutation' = Settled({j}) /\ UNCHANGED <<me, table, page, acked, late>>
    BY DEF Fails
<1>2. Owed(k) => Owed(k)'
    <2>1. \A n \in Changing : Alike(mutation[n], mutation'[n])
        BY <1>1, SettledIs DEF MutationOK
    <2> QED
        BY <2>1, OwedStays DEF Alike
<1>3. /\ cache'[j].fetch = Idle /\ cache'[j].error
      /\ \A i \in Keys : i # j => cache'[i] = cache[i]
    BY FailsIs
<1>4. CASE k = j
    <2>1. FetchOK(k)' /\ DataOK(k)' /\ MarkOK(k)'
        BY <1>3, <1>4 DEF FetchOK, DataOK, MarkOK
    <2> QED
        BY <2>1 DEF EntryOK
<1>5. CASE k # j
    BY <1>1, <1>2, <1>3, <1>5, Untouched
<1> QED
    BY <1>4, <1>5

LEMMA MountedEntry ==
    ASSUME TypesOK, UNCHANGED <<me, table, acked>>, NEW p \in Pages,
           NEW aged \in SUBSET Observes(p), Mounts(p, aged),
           NEW k \in Keys, EntryOK(k), Owed(k) => Owed(k)'
    PROVE  EntryOK(k)'
<1>1. /\ page' = p /\ Kept(cache[k], cache'[k])
      /\ k \in late => k \in late' \/ cache'[k].fetch = Asked
      /\ k \in Observes(p) /\ cache[k].stale => cache'[k].fetch # Idle
      /\ cache'[k].stale = cache[k].stale
    BY MountsEffect
<1>2. /\ \A f \in Reads(k) : acked'[f] = acked[f]
      /\ \A f \in Facets : table.rows[f] <= table'.rows[f]
      /\ table' \in Tables /\ table'.alive \subseteq table.alive
    BY DEF TypesOK, Tables
<1>3. FetchOK(k)' /\ DataOK(k)'
    BY <1>1, <1>2, KeptStays DEF EntryOK
<1>4. MarkOK(k)'
    BY <1>1 DEF MarkOK
<1> QED
    BY <1>3, <1>4 DEF EntryOK

\* The change m is acknowledged: what it wrote is refreshed, or left out.
LEMMA AcknowledgedEntry ==
    ASSUME ShapesOK, NEW m \in Changing, Acknowledged(m), NEW k \in Keys, EntryOK(k)
    PROVE  EntryOK(k)'
<1> USE DEF ShapesOK
<1> DEFINE kind == mutation[m].kind
           change == ChangeOf(kind)
           kept == [i \in Keys |-> IF i \in change.removes THEN EmptyEntry ELSE cache[i]]
<1>1. /\ mutation[m].phase = "done" /\ kind \in KindsOf(me)
      /\ acked' \in [Facets -> Nat]
      /\ \A f \in Facets : acked'[f] = Highest(acked[f], mutation[m].wrote[f])
      /\ kept \in [Keys -> Entries]
      /\ change.refreshes \in Seq(SUBSET Keys) /\ change.refreshes # <<>>
      /\ Refresh(m, Settled(change.removes), kept, change.refreshes, acked')
      /\ UNCHANGED <<me, table, page, fails>>
    BY AcknowledgedIs
<1>2. Covers(change, GoneWith(kind), k) /\ change.removes \in SUBSET Keys
    BY <1>1, ChangeParts
<1>3. kept[k] = IF k \in change.removes THEN EmptyEntry ELSE cache[k]
    OBVIOUS
<1>4. /\ Kills(kind) \cap table.alive = {}
      /\ \A f \in Facets : f \notin change.writes => mutation[m].wrote[f] = 0
    BY <1>1 DEF MutationOK, ChangeUnderWay
<1>5. k \in GoneWith(kind) \/ (CanEdit /\ k = "participations") => LeftOut(k)
    BY <1>4, GoneIsLeftOut DEF LeftOut
<1>6. Reads(k) \in SUBSET Facets
    BY FacetsRead DEF TypesOK
<1> HIDE DEF kept, change, kind
<1>7. \A f \in Reads(k) : f \notin change.writes => acked'[f] = acked[f]
    BY <1>1, <1>4, <1>6 DEF Highest, TypesOK
<1>8. \/ \A f \in Reads(k) : acked'[f] = acked[f]
      \/ kept[k] = EmptyEntry \/ LeftOut(k)
      \/ \E i \in DOMAIN change.refreshes : k \in change.refreshes[i]
    BY <1>2, <1>3, <1>5, <1>7 DEF Covers
<1>9. kept[k] = cache[k] \/ kept[k] = EmptyEntry
    BY <1>3
<1>10. PICK changes : changes = Settled(change.removes)
    OBVIOUS
<1>11. /\ changes \in [Changing -> Mutations]
       /\ \A n \in Changing : Alike(mutation[n], changes[n])
    BY <1>2, <1>10, SettledIs DEF MutationOK
<1>12. Refresh(m, changes, kept, change.refreshes, acked')
    BY <1>1, <1>10
<1>13. Owed(k) => Owed(k)'
    <2>1. \A n \in Changing \ {m} : mutation'[n] = changes[n]
        BY <1>1, <1>11, <1>12, RefreshEffect DEF TypesOK
    <2> QED
        BY <1>1, <1>11, <2>1, OwedStays DEF Alike
<1> QED
    BY <1>1, <1>8, <1>9, <1>11, <1>12, <1>13, RefreshKeeps

LEMMA EntryStep ==
    ASSUME ShapesOK, Next, NEW k \in Keys, EntryOK(k)
    PROVE  EntryOK(k)'
<1> USE DEF ShapesOK
<1>0. mutation \in [Changing -> Mutations] /\ page \in Pages
    BY DEF MutationOK, TypesOK
<1>1. ASSUME NEW p \in Pages, GoesTo(p) PROVE EntryOK(k)'
    <2>1. UNCHANGED <<me, table, acked, fails>> /\ mutation' = Leaves(mutation)
          /\ \E aged \in SUBSET Observes(p) : Mounts(p, aged)
        BY <1>1 DEF GoesTo
    <2>2. Owed(k) => Owed(k)'
        BY <1>0, <2>1, LeavesIs, OwedStays DEF Alike
    <2> QED
        BY <2>1, <2>2, MountedEntry
<1>2. ASSUME NEW m \in Changing, NEW kind \in Kinds, Sends(m, kind) PROVE EntryOK(k)'
    <2>1. /\ mutation[m] = NoMutation /\ UNCHANGED <<me, table, page, cache, acked, late>>
          /\ \A n \in Changing \ {m} : Alike(mutation[n], mutation'[n])
        BY <1>2, SendsIs
    <2>2. Owed(k) => Owed(k)'
        BY <2>1, NoMutationIs, OwedStays DEF Alike
    <2> QED
        BY <2>1, <2>2, Untouched
<1>3. ASSUME NEW j \in Keys, RendersAgain(j) PROVE EntryOK(k)'
    <2>1. /\ cache' = [cache EXCEPT ![j] = Ask(cache[j])] /\ j \in Keys
          /\ UNCHANGED <<me, table, page, mutation, acked, late, acts, fails>>
        BY <1>3 DEF RendersAgain
    <2>2. Owed(k) => Owed(k)'
        BY <2>1 DEF Owed
    <2>3. CASE k = j
        <3>1. cache'[k].fetch = Asked
            BY <2>1, <2>3, Asks DEF TypesOK
        <3>2. FetchOK(k)' /\ DataOK(k)' /\ MarkOK(k)'
            BY <3>1, MarksApart DEF FetchOK, DataOK, MarkOK
        <3> QED
            BY <3>2 DEF EntryOK
    <2>4. CASE k # j
        <3>1. cache'[k] = cache[k]
            BY <2>1, <2>4 DEF TypesOK
        <3> QED
            BY <2>1, <2>2, <3>1, Untouched
    <2> QED
        BY <2>3, <2>4
<1>4. ASSUME NEW m \in Changing, Commits(m) PROVE EntryOK(k)'
    <2>1. /\ mutation[m].phase = "sent" /\ TablesChange(cache')
          /\ UNCHANGED <<me, page, acked, late, acts, fails>>
        BY <1>4 DEF Commits
    <2>2. /\ table' \in Tables /\ table'.alive = table.alive \ Kills(mutation[m].kind)
          /\ \A f \in Facets : table'.rows[f] = IF f \in ChangeOf(mutation[m].kind).writes
                                               THEN table.rows[f] + 1 ELSE table.rows[f]
          /\ \A n \in Changing \ {m} : mutation'[n] = mutation[n]
        BY <1>4, CommitsIs
    <2>3. \A f \in Facets : table.rows[f] <= table'.rows[f]
        BY <2>2 DEF TypesOK, Tables
    <2>4. Owed(k) => Owed(k)'
        BY <2>1, <2>2, OwedStays
    <2> QED
        BY <2>1, <2>2, <2>3, <2>4, TablesGrow
<1>5. ASSUME NEW m \in Changing, Refused(m) \/ LosesCall(m) PROVE EntryOK(k)'
    <2>1. /\ mutation[m].phase \in {"sent", "done"}
          /\ mutation' = [mutation EXCEPT ![m] = NoMutation]
          /\ UNCHANGED <<me, table, page, cache, acked, late>>
        BY <1>5 DEF Refused, LosesCall
    <2>2. Owed(k) => Owed(k)'
        BY <1>0, <2>1, OwedStays
    <2> QED
        BY <2>1, <2>2, Untouched
<1>6. ASSUME NEW m \in Changing, Acknowledged(m) PROVE EntryOK(k)'
    BY <1>6, AcknowledgedEntry
<1>7. ASSUME NEW m \in Changing, RefreshesNext(m) PROVE EntryOK(k)'
    <2> DEFINE todo == mutation[m].todo
    <2>1. /\ mutation[m].phase = "refreshing" /\ todo # <<>>
          /\ Refresh(m, mutation, cache, todo, acked)
          /\ UNCHANGED <<me, table, page, acked, acts, fails>>
        BY <1>7 DEF RefreshesNext
    <2>2. /\ todo \in Seq(SUBSET Keys) /\ cache \in [Keys -> Entries]
          /\ acked' \in [Facets -> Nat] /\ Refresh(m, mutation, cache, todo, acked')
        BY <1>0, <2>1 DEF Mutations, TypesOK
    <2>3. \A n \in Changing \ {m} : mutation'[n] = mutation[n]
        BY <1>0, <2>1, <2>2, RefreshEffect DEF TypesOK
    <2>4. Owed(k) => Owed(k)' \/ \E i \in DOMAIN todo : k \in todo[i]
        <3> SUFFICES ASSUME Owed(k), ~\E i \in DOMAIN todo : k \in todo[i]
                     PROVE  Owed(k)'
            OBVIOUS
        <3>1. PICK n \in Changing : /\ mutation[n].phase = "refreshing"
                                    /\ \E i \in DOMAIN mutation[n].todo : k \in mutation[n].todo[i]
            BY DEF Owed
        <3>2. n # m
            BY <3>1
        <3>3. mutation'[n] = mutation[n]
            BY <2>3, <3>2
        <3> QED
            BY <3>1, <3>3 DEF Owed
    <2>5. \A f \in Reads(k) : acked'[f] = acked[f]
        BY <2>1
    <2> HIDE DEF todo
    <2> QED
        BY <1>0, <2>1, <2>2, <2>4, <2>5, RefreshKeeps
<1>8. ASSUME NEW m \in Changing, Finishes(m) PROVE EntryOK(k)'
    <2> DEFINE ended == [mutation EXCEPT ![m] = NoMutation]
               leads == ChangeOf(mutation[m].kind).goesTo
    <2>1. /\ mutation[m].phase = "refreshing" /\ mutation[m].todo = <<>>
          /\ UNCHANGED <<me, table, acked, acts, fails>>
          /\ \/ mutation' = ended /\ UNCHANGED <<page, cache, late>>
             \/ /\ \E p \in leads \ {page} : \E aged \in SUBSET Observes(p) : Mounts(p, aged)
                /\ mutation' = Leaves(ended)
        BY <1>8 DEF Finishes
    <2>2. /\ ended \in [Changing -> Mutations]
          /\ \A n \in Changing \ {m} : ended[n] = mutation[n]
        BY <1>0, EndsIs
    <2>3. leads \in SUBSET Pages
        <3>1. mutation[m].kind \in KindsOf(me)
            BY <2>1 DEF MutationOK, ChangeUnderWay
        <3> QED
            BY <3>1, ChangeParts
    <2> HIDE DEF ended, leads
    <2>4. Owed(k) => Owed(k)'
        <3>1. \A n \in Changing : Alike(ended[n], mutation'[n])
            BY <2>1, <2>2, LeavesIs, AlikeSelf
        <3> QED
            BY <2>1, <2>2, <3>1, OwedStays DEF Alike
    <2>5. CASE UNCHANGED <<page, cache, late>>
        BY <2>1, <2>4, <2>5, Untouched
    <2>6. CASE \E p \in leads \ {page} : \E aged \in SUBSET Observes(p) : Mounts(p, aged)
        <3>1. PICK p \in Pages : \E aged \in SUBSET Observes(p) : Mounts(p, aged)
            BY <2>3, <2>6
        <3> QED
            BY <2>1, <2>4, <3>1, MountedEntry
    <2> QED
        BY <2>1, <2>5, <2>6
<1>9. ASSUME NEW j \in Keys, Delivered(j) PROVE EntryOK(k)'
    <2>1. /\ mutation' = Settled({j}) /\ cache[j].fetch # Idle /\ Answer(j) # NotFound
          /\ UNCHANGED <<me, table, page, acked, late, acts, fails>>
        BY <1>9 DEF Delivered
    <2>2. /\ cache'[j].data = Answer(j) /\ cache'[j].fetch = Idle
          /\ ~cache'[j].stale /\ ~cache'[j].error
          /\ \A i \in Keys : i # j => cache'[i] = cache[i]
        BY <1>9, DeliveredIs
    <2>3. Owed(k) => Owed(k)'
        <3>1. \A n \in Changing : Alike(mutation[n], mutation'[n])
            BY <1>0, <2>1, SettledIs
        <3> QED
            BY <3>1, OwedStays DEF Alike
    <2>4. CASE k # j
        BY <2>1, <2>2, <2>3, <2>4, Untouched
    <2>5. CASE k = j
        <3>1. Reads(k)' = Reads(k) /\ Reads(k) \in SUBSET Facets
            BY <2>1, SameReader, FacetsRead DEF TypesOK
        <3>2. k \in late \/ Fresh(k, Answer(k))
            <4>1. CASE cache[k].fetch = Asked
                <5>1. \A f \in Reads(k) : Answer(k).rows[f] = table.rows[f]
                    BY <2>1, <2>5, <4>1, AnswerIs, SnapshotIs DEF TypesOK
                <5>2. \A f \in Reads(k) : /\ acked[f] \in Nat /\ table.rows[f] \in Nat
                                          /\ acked[f] <= table.rows[f]
                    BY <3>1 DEF TypesOK, Tables, CountsOK
                <5> QED
                    BY <5>1, <5>2 DEF Fresh
            <4>2. CASE cache[k].fetch # Asked
                <5>1. Answer(k) = cache[k].fetch
                    BY <2>1, <2>5, <4>2, AnswerIs
                <5> QED
                    BY <2>1, <2>5, <4>2, <5>1 DEF EntryOK, FetchOK
            <4> QED
                BY <4>1, <4>2
        <3>3. DataOK(k)'
            <4>1. Fresh(k, Answer(k)) => Fresh(k, cache[k].data)'
                BY <2>1, <2>2, <2>5, <3>1 DEF Fresh
            <4> QED
                BY <2>1, <3>2, <4>1 DEF DataOK
        <3>4. FetchOK(k)' /\ MarkOK(k)'
            BY <2>2, <2>5 DEF FetchOK, MarkOK
        <3> QED
            BY <3>3, <3>4 DEF EntryOK
    <2> QED
        BY <2>4, <2>5
<1>10. ASSUME NEW j \in Keys, IsNotFound(j) \/ LosesQuery(j) PROVE EntryOK(k)'
    BY <1>10, FailedEntry DEF IsNotFound, LosesQuery
<1>11. CASE OtherParty
    <2>1. TablesChange(cache') /\ UNCHANGED <<me, page, mutation, acked, late, acts, fails>>
        BY <1>11 DEF OtherParty
    <2>2. table' \in Tables /\ table'.alive = table.alive /\ table'.rows = table.rows
        BY <1>11, OtherPartyIs
    <2>3. \A f \in Facets : table.rows[f] <= table'.rows[f]
        BY <2>2 DEF TypesOK, Tables
    <2>4. Owed(k) => Owed(k)'
        BY <2>1 DEF Owed
    <2> QED
        BY <2>1, <2>2, <2>3, <2>4, TablesGrow
<1> QED
    BY <1>1, <1>2, <1>3, <1>4, <1>5, <1>6, <1>7, <1>8, <1>9, <1>10, <1>11
    DEF Next, User, System, Faults

-----------------------------------------------------------------------------
(* Each step keeps what the volunteer's own list says *)

LEMMA MineIs ==
    ASSUME TypesOK, me = "volunteer"
    PROVE  /\ "participations" \in Keys /\ Mine \in Entries
           /\ "places" \in Facets /\ "places" \in Reads("participations")
           /\ Snapshot("participations") \in Answers
           /\ Snapshot("participations").rows["places"] = table.rows["places"]
           /\ Snapshot("participations").part = table.part
           /\ Snapshot("participations").others = table.others
<1>1. "participations" \in Keys /\ "places" \in Facets
    BY DEF Keys, Facets
<1>2. "places" \in Reads("participations")
    BY DEF Reads, MineAnswer, Owns
<1>3. "participations" \notin Records /\ TellsPart("participations")
    BY DEF Records, TellsPart, Owns
<1>4. Mine \in Entries
    BY <1>1 DEF TypesOK, Mine
<1> QED
    BY <1>1, <1>2, <1>3, <1>4, SnapshotIs DEF TypesOK

\* A change of the volunteer's is a change of the participation.
LEMMA VolunteerKinds ==
    ASSUME MutationOK, me = "volunteer", NEW n \in Changing
    PROVE  mutation[n].kind \in {"none", "participate", "cancelMine"}
    BY DEF MutationOK, Mutations, ChangeUnderWay, KindsOf

\* No cancellation that is not acknowledged yet is told of, or lost.
CancelsStay == \A n \in Changing : Cancelled(n) => Alike(mutation[n], mutation'[n])

\* The change n is as it was, or has ended, or is further on.
Calm(n) ==
    \/ Alike(mutation[n], mutation'[n]) /\ mutation'[n].seen = mutation[n].seen
    \/ ~Cancelled(n) /\ mutation'[n].kind = "none"
    \/ /\ ~Cancelled(n) /\ mutation'[n].kind = mutation[n].kind
       /\ mutation'[n].phase # "sent" /\ mutation'[n].seen = mutation[n].seen

LEMMA CalmStays ==
    ASSUME \A n \in Changing : Calm(n), MinePlain
    PROVE  /\ CancelsStay
           /\ \A n \in Changing : mutation'[n].kind = "cancelMine" => Mine.data # Undefined
<1>1. CancelsStay
    BY DEF CancelsStay, Calm
<1>2. ASSUME NEW n \in Changing, mutation'[n].kind = "cancelMine" PROVE Mine.data # Undefined
    <2>1. mutation[n].kind = "cancelMine"
        BY <1>2 DEF Calm, Alike
    <2> QED
        BY <2>1 DEF MinePlain
<1> QED
    BY <1>1, <1>2

LEMMA CancelledStays ==
    ASSUME CancelsStay
    PROVE  /\ (\E n \in Changing : Cancelled(n)) => \E n \in Changing : Cancelled(n)'
           /\ \A s : (\E n \in Changing : Missing(n, s)) => \E n \in Changing : Missing(n, s)'
<1>1. ASSUME NEW n \in Changing, Cancelled(n)
      PROVE  Cancelled(n)' /\ mutation'[n].wrote = mutation[n].wrote
    BY <1>1 DEF CancelsStay, Cancelled, Alike
<1>2. ASSUME NEW s, NEW n \in Changing, Missing(n, s) PROVE Missing(n, s)'
    BY <1>1, <1>2 DEF Missing
<1> QED
    BY <1>1, <1>2

\* What a change was sent from is still so: the tables stay.
LEMMA SentStays ==
    ASSUME MineSent, UNCHANGED table, \A n \in Changing : Calm(n)
    PROVE  MineSent'
<1> SUFFICES ASSUME NEW m \in Changing, mutation'[m].kind = "cancelMine",
                    mutation'[m].seen # Asked
             PROVE  /\ \A n \in Changing \ {m} : mutation'[n].kind = "none"
                    /\ mutation'[m].seen <= table'.others
                    /\ mutation'[m].phase = "sent" /\ mutation'[m].seen = table'.others
                          => IsActive(table'.part)
    BY DEF MineSent, SentFrom
<1>1. /\ mutation[m].kind = "cancelMine" /\ mutation'[m].seen = mutation[m].seen
      /\ mutation'[m].phase = "sent" => mutation[m].phase = "sent"
    BY DEF Calm, Alike
<1>2. \A n \in Changing : mutation[n].kind = "none" => mutation'[n].kind = "none"
    BY DEF Calm, Alike
<1> QED
    BY <1>1, <1>2 DEF MineSent, SentFrom

\* The tables stay, and the list is kept.
LEMMA MineKept ==
    ASSUME table' = table, Kept(Mine, Mine'), Mine'.error => Mine.error,
           "participations" \in late => "participations" \in late' \/ Mine'.fetch = Asked,
           CancelsStay,
           \A n \in Changing : mutation'[n].kind = "cancelMine" => Mine.data # Undefined,
           MinePlain, MineData, MineFetch
    PROVE  MinePlain' /\ MineData' /\ MineFetch'
<1>1. \A s : Good(s) => Good(s)'
    BY DEF Good
<1>2. /\ Mine'.data = Mine.data /\ (Mine.stale => Mine'.stale)
      /\ Mine'.fetch = Asked \/ Mine'.fetch = Mine.fetch
    BY DEF Kept
<1>3. MinePlain'
    BY <1>2, MarksApart DEF MinePlain
<1>4. MineData'
    BY <1>1, <1>2, MarksApart, CancelledStays DEF MineData
<1>5. MineFetch'
    BY <1>1, <1>2, CancelledStays DEF MineFetch
<1> QED
    BY <1>3, <1>4, <1>5

LEMMA MineFrame ==
    ASSUME table' = table, Mine' = Mine,
           "participations" \in late => "participations" \in late',
           CancelsStay,
           \A n \in Changing : mutation'[n].kind = "cancelMine" => Mine.data # Undefined,
           MinePlain, MineData, MineFetch
    PROVE  MinePlain' /\ MineData' /\ MineFetch'
<1>1. Kept(Mine, Mine')
    BY DEF Kept
<1> QED
    BY <1>1, MineKept

LEMMA MineMounts ==
    ASSUME TypesOK, me = "volunteer", table' = table, NEW p \in Pages,
           NEW aged \in SUBSET Observes(p), Mounts(p, aged),
           CancelsStay,
           \A n \in Changing : mutation'[n].kind = "cancelMine" => Mine.data # Undefined,
           MinePlain, MineData, MineFetch
    PROVE  MinePlain' /\ MineData' /\ MineFetch'
<1>1. /\ Kept(Mine, Mine') /\ (Mine'.error => Mine.error)
      /\ "participations" \in late => "participations" \in late' \/ Mine'.fetch = Asked
    BY MountsEffect, MineIs DEF Mine
<1> QED
    BY <1>1, MineKept

\* A cancellation is sent, or a place taken.
LEMMA MineSends ==
    ASSUME ShapesOK, EntryOK("participations"), me = "volunteer",
           NEW m \in Changing, NEW kind \in Kinds, Sends(m, kind),
           MinePlain, MineData, MineFetch, MineSent
    PROVE  MinePlain' /\ MineData' /\ MineFetch' /\ MineSent'
<1> USE DEF ShapesOK
<1>1. /\ mutation[m] = NoMutation /\ kind \in Offers
      /\ UNCHANGED <<me, table, page, cache, acked, late, fails>>
      /\ mutation'[m].kind = kind
      /\ mutation'[m].seen = IF kind = "cancelMine" THEN Seen ELSE 0
      /\ \A n \in Changing \ {m} :
            /\ Alike(mutation[n], mutation'[n])
            /\ kind \in Participations /\ mutation[n].kind = "cancelMine"
                  => mutation'[n].seen = Asked
    BY SendsIs
<1>2. /\ kind \in KindsOf(me)
      /\ kind = "cancelMine" => /\ page = "MyMissions" /\ Shows("participations")
                                /\ IsActive(Data("participations").part)
    BY <1>1, Offered DEF TypesOK
<1>3. kind \in Participations
    BY <1>2 DEF KindsOf, Participations
<1>4. kind = "cancelMine" => Mine.data # Undefined
    BY <1>2, MineIs DEF Shows, Data, Mine
<1>5. CancelsStay
    <2>1. ~Cancelled(m)
        BY <1>1, NoMutationIs DEF Cancelled
    <2> QED
        BY <1>1, <2>1 DEF CancelsStay
<1>6. \A n \in Changing : mutation'[n].kind = "cancelMine" => Mine.data # Undefined
    BY <1>1, <1>4 DEF Alike, MinePlain
<1>7. Mine' = Mine
    BY <1>1 DEF Mine
<1>8. ASSUME kind = "cancelMine", Seen # Asked
      PROVE  /\ \A n \in Changing : mutation[n].kind = "none"
             /\ Seen <= table.others
             /\ Seen = table.others => IsActive(table.part)
    <2>1. /\ Mine.fetch = Idle /\ "participations" \notin late
          /\ \A n \in Changing : mutation[n].kind \notin Participations
          /\ Seen = Mine.data.others
        BY <1>8 DEF Seen, Mine, Data
    <2>2. \A n \in Changing : mutation[n].kind = "none"
        BY <2>1, VolunteerKinds DEF Participations
    <2>3. ~\E n \in Changing : Cancelled(n)
        BY <2>2 DEF Cancelled
    <2>4. "participations" \in Observes(page)
        BY <1>2, <1>8 DEF Observes
    <2>5. ~Mine.stale
        BY <1>4, <1>8, <2>1, <2>4 DEF EntryOK, MarkOK, Mine, MinePlain
    <2>6. Good(Mine.data)
        BY <1>4, <1>8, <2>1, <2>3, <2>5 DEF MineData
    <2> QED
        BY <1>2, <1>8, <2>1, <2>2, <2>6 DEF Good, Data, Mine
<1>9. MineSent'
    <2> SUFFICES ASSUME NEW n \in Changing, mutation'[n].kind = "cancelMine",
                        mutation'[n].seen # Asked
                 PROVE  /\ \A i \in Changing \ {n} : mutation'[i].kind = "none"
                        /\ mutation'[n].seen <= table'.others
                        /\ mutation'[n].seen = table'.others => IsActive(table'.part)
        BY DEF MineSent, SentFrom
    <2>1. n = m
        BY <1>1, <1>3 DEF Alike
    <2>2. kind = "cancelMine" /\ mutation'[n].seen = Seen
        BY <1>1, <2>1
    <2> QED
        BY <1>1, <1>8, <2>1, <2>2 DEF Alike
<1> QED
    BY <1>1, <1>5, <1>6, <1>7, <1>9, MineFrame

LEMMA MineUser ==
    ASSUME ShapesOK, EntryOK("participations"), me = "volunteer", User,
           MinePlain, MineData, MineFetch, MineSent
    PROVE  MinePlain' /\ MineData' /\ MineFetch' /\ MineSent'
<1> USE DEF ShapesOK
<1>1. ASSUME NEW p \in Pages, GoesTo(p) PROVE MinePlain' /\ MineData' /\ MineFetch' /\ MineSent'
    <2>1. UNCHANGED <<me, table, acked, fails>> /\ mutation' = Leaves(mutation)
          /\ \E aged \in SUBSET Observes(p) : Mounts(p, aged)
        BY <1>1 DEF GoesTo
    <2>2. \A n \in Changing : Calm(n)
        BY <2>1, LeavesIs DEF Calm, MutationOK
    <2>3. MineSent'
        BY <2>1, <2>2, SentStays
    <2> QED
        BY <2>1, <2>2, <2>3, CalmStays, MineMounts
<1>2. ASSUME NEW j \in Keys, RendersAgain(j)
      PROVE MinePlain' /\ MineData' /\ MineFetch' /\ MineSent'
    <2>1. /\ cache' = [cache EXCEPT ![j] = Ask(cache[j])] /\ j \in Keys
          /\ UNCHANGED <<me, table, page, mutation, acked, late, acts, fails>>
        BY <1>2 DEF RendersAgain
    <2>2. Mine' = Ask(Mine) \/ Mine' = Mine
        BY <2>1, MineIs DEF TypesOK, Mine
    <2>3. Kept(Mine, Mine') /\ (Mine'.error => Mine.error)
        BY <2>2, MineIs, KeptByAsk, Asks
    <2>4. \A n \in Changing : Calm(n)
        BY <2>1, AlikeSelf DEF Calm
    <2>5. MineSent'
        BY <2>1, <2>4, SentStays
    <2> QED
        BY <2>1, <2>3, <2>4, <2>5, CalmStays, MineKept
<1> QED
    BY <1>1, <1>2, MineSends DEF User

LEMMA MineCommits ==
    ASSUME ShapesOK, EntryOK("participations"), me = "volunteer",
           NEW m \in Changing, Commits(m),
           MinePlain, MineData, MineFetch, MineSent
    PROVE  MinePlain' /\ MineData' /\ MineFetch' /\ MineSent'
<1> USE DEF ShapesOK
<1> DEFINE kind == mutation[m].kind
           shot == Snapshot("participations")
<1>1. /\ mutation[m].phase = "sent" /\ TablesChange(cache')
      /\ UNCHANGED <<me, page, acked, late, acts, fails>>
    BY DEF Commits
<1>2. /\ table' \in Tables /\ table'.others = table.others
      /\ table'.alive = table.alive \ Kills(kind)
      /\ \A f \in Facets : table'.rows[f] = IF f \in ChangeOf(kind).writes
                                           THEN table.rows[f] + 1 ELSE table.rows[f]
      /\ kind \in Participations => table'.part = ToStatus(kind)
      /\ \A n \in Changing \ {m} : mutation'[n] = mutation[n]
      /\ mutation'[m].kind = kind /\ mutation'[m].phase = "done"
      /\ mutation'[m].seen = mutation[m].seen
      /\ \A f \in Facets : mutation'[m].wrote[f] = IF f \in ChangeOf(kind).writes
                                                  THEN table'.rows[f] ELSE 0
    BY CommitsIs
<1>3. /\ Mine'.data = Mine.data /\ Mine'.stale = Mine.stale /\ Mine'.error = Mine.error
      /\ Mine'.fetch = Mine.fetch \/ (Mine.fetch = Asked /\ Mine'.fetch = shot)
    BY <1>1, TablesChangeEffect, MineIs DEF Mine
<1>4. kind \in KindsOf(me)
    BY <1>1 DEF MutationOK, ChangeUnderWay
<1>5. /\ kind = "participate" \/ kind = "cancelMine"
      /\ Kills(kind) = {} /\ (kind = "cancelMine" => "places" \in ChangeOf(kind).writes)
    BY <1>4, VolunteerChanges
<1>6. shot \in Answers /\ shot.others = table.others
      /\ shot.rows["places"] = table.rows["places"]
    BY MineIs
<1>7. shot # NotFound /\ shot # Idle /\ shot # Asked
    BY <1>6, MarksApart
<1>8. ~Cancelled(m)
    BY <1>1 DEF Cancelled
<1> HIDE DEF shot, kind
<1>9. CancelsStay
    BY <1>2, <1>8, AlikeSelf DEF CancelsStay
<1>10. MinePlain'
    <2>1. \A n \in Changing : mutation'[n].kind = mutation[n].kind
        BY <1>2 DEF kind
    <2>2. table'.alive = Records
        BY <1>2, <1>5 DEF MinePlain
    <2>3. ~Mine'.error /\ Mine'.fetch # NotFound
        BY <1>3, <1>7 DEF MinePlain
    <2>4. \A n \in Changing : mutation'[n].kind = "cancelMine" => Mine'.data # Undefined
        BY <1>3, <2>1 DEF MinePlain
    <2> QED
        BY <2>2, <2>3, <2>4 DEF MinePlain
<1>11. MineSent'
    <2> SUFFICES ASSUME NEW n \in Changing, mutation'[n].kind = "cancelMine",
                        mutation'[n].seen # Asked
                 PROVE  /\ \A i \in Changing \ {n} : mutation'[i].kind = "none"
                        /\ mutation'[n].seen <= table'.others
                        /\ mutation'[n].phase # "sent"
        BY DEF MineSent, SentFrom
    <2>1. \A i \in Changing : /\ mutation'[i].kind = mutation[i].kind
                              /\ mutation'[i].seen = mutation[i].seen
        BY <1>2 DEF kind
    <2>2. /\ \A i \in Changing \ {n} : mutation[i].kind = "none"
          /\ mutation[n].seen <= table.others
        BY <2>1 DEF MineSent, SentFrom
    <2>3. n = m
        BY <1>5, <2>2 DEF kind
    <2> QED
        BY <1>2, <2>1, <2>2, <2>3
<1>12. CASE kind = "participate"
    <2>1. IsActive(table'.part)
        BY <1>2, <1>12 DEF Participations, ToStatus, IsActive
    <2>2. ASSUME NEW s, Good(s) PROVE Good(s)'
        BY <1>2, <2>1, <2>2 DEF Good
    <2>3. ASSUME NEW s, s = shot PROVE Good(s)'
        <3>1. table.others \in Nat
            BY DEF TypesOK, Tables
        <3> QED
            BY <1>2, <1>6, <2>1, <2>3, <3>1 DEF Good
    <2>4. MineData'
        BY <1>1, <1>3, <1>7, <1>9, <2>2, CancelledStays DEF MineData
    <2>5. MineFetch'
        <3>1. CASE Mine'.fetch = Mine.fetch
            BY <1>1, <1>9, <2>2, <3>1, CancelledStays DEF MineFetch
        <3>2. CASE Mine'.fetch = shot
            <4>1. Good(Mine.fetch)'
                BY <2>3, <3>2
            <4> QED
                BY <4>1 DEF MineFetch
        <3> QED
            BY <1>3, <3>1, <3>2
    <2> QED
        BY <1>10, <1>11, <2>4, <2>5
<1>13. CASE kind = "cancelMine"
    <2>1. Cancelled(m)'
        BY <1>2, <1>13 DEF Cancelled
    <2>2. MineData'
        BY <2>1 DEF MineData
    <2>3. /\ table.rows["places"] \in Nat /\ table'.rows["places"] = table.rows["places"] + 1
          /\ mutation'[m].wrote["places"] = table'.rows["places"]
        BY <1>2, <1>5, <1>13, MineIs DEF TypesOK, Tables
    <2>4. MineFetch'
        <3> SUFFICES ASSUME Mine'.fetch \notin {Idle, Asked}
                     PROVE  Mine'.fetch.rows["places"] < table'.rows["places"]
            BY <2>1, <2>3 DEF MineFetch, Missing
        <3>1. CASE Mine'.fetch = shot
            BY <1>6, <2>3, <3>1
        <3>2. CASE Mine'.fetch = Mine.fetch
            <4>1. Mine.fetch \notin {Idle, Asked, NotFound}
                BY <3>2 DEF MinePlain
            <4>2. Mine.fetch.rows["places"] \in 0 .. table.rows["places"]
                BY <4>1, MineIs DEF EntryOK, FetchOK, Read, Mine
            <4> QED
                BY <2>3, <3>2, <4>2
        <3> QED
            BY <1>3, <3>1, <3>2
    <2> QED
        BY <1>10, <1>11, <2>2, <2>4
<1> QED
    BY <1>5, <1>12, <1>13

LEMMA MineAcknowledged ==
    ASSUME ShapesOK, EntryOK("participations"), me = "volunteer",
           NEW m \in Changing, Acknowledged(m),
           MinePlain, MineData, MineFetch, MineSent
    PROVE  MinePlain' /\ MineData' /\ MineFetch' /\ MineSent'
<1> USE DEF ShapesOK
<1> DEFINE kind == mutation[m].kind
           change == ChangeOf(kind)
           kept == [i \in Keys |-> IF i \in change.removes THEN EmptyEntry ELSE cache[i]]
<1>1. /\ mutation[m].phase = "done" /\ kind \in KindsOf(me)
      /\ \A f \in Facets : acked'[f] = Highest(acked[f], mutation[m].wrote[f])
      /\ kept \in [Keys -> Entries]
      /\ change.refreshes \in Seq(SUBSET Keys) /\ change.refreshes # <<>>
      /\ Refresh(m, Settled(change.removes), kept, change.refreshes, acked')
      /\ UNCHANGED <<me, table, page, fails>>
    BY AcknowledgedIs
<1>2. /\ kind \in {"participate", "cancelMine"} /\ change.removes = {}
      /\ kind = "cancelMine" => "participations" \in Head(change.refreshes)
    BY <1>1, VolunteerChanges
<1>3. kept["participations"] = Mine
    BY <1>2, MineIs DEF Mine
<1> HIDE DEF kept, change
<1>4. PICK changes : changes = Settled(change.removes)
    OBVIOUS
<1>5. /\ changes \in [Changing -> Mutations]
      /\ \A n \in Changing : /\ Alike(mutation[n], changes[n])
                             /\ changes[n].seen = mutation[n].seen
    BY <1>2, <1>4, SettledIs DEF MutationOK
<1>6. /\ Refresh(m, changes, kept, change.refreshes, acked')
      /\ page \in Pages /\ late \in SUBSET Keys
    BY <1>1, <1>4 DEF TypesOK
<1>7. /\ cache' = Invalidates(kept, Head(change.refreshes))
      /\ Head(change.refreshes) \in SUBSET Keys
      /\ \A n \in Changing \ {m} : mutation'[n] = changes[n]
      /\ mutation'[m].kind = changes[m].kind /\ mutation'[m].phase = "refreshing"
      /\ mutation'[m].seen = changes[m].seen
      /\ "participations" \in late => "participations" \in late' \/ Mine'.fetch = Asked
      /\ "participations" \notin late' /\ Mine'.fetch \notin {Idle, Asked, NotFound} =>
            \A f \in Reads("participations") : ~(Mine'.fetch.rows[f] < acked'[f])
    BY <1>1, <1>5, <1>6, MineIs, RefreshEffect DEF Mine
<1>8. /\ Kept(Mine, Mine') /\ (Mine'.error => Mine.error)
      /\ "participations" \in Head(change.refreshes) =>
            Mine'.stale \/ Mine'.data = Undefined
    BY <1>1, <1>3, <1>7, MineIs, InvalidatesEffect DEF Mine
<1>9. \A n \in Changing : /\ mutation'[n].kind = mutation[n].kind
                          /\ mutation'[n].seen = mutation[n].seen
    BY <1>5, <1>7 DEF Alike
<1>10. \A n \in Changing \ {m} : Alike(mutation[n], mutation'[n])
    BY <1>5, <1>7
<1>11. MineSent'
    <2> SUFFICES ASSUME NEW n \in Changing, mutation'[n].kind = "cancelMine",
                        mutation'[n].seen # Asked
                 PROVE  /\ \A i \in Changing \ {n} : mutation'[i].kind = "none"
                        /\ mutation'[n].seen <= table'.others
                        /\ mutation'[n].phase = "sent" /\ mutation'[n].seen = table'.others
                              => IsActive(table'.part)
        BY DEF MineSent, SentFrom
    <2>1. /\ \A i \in Changing \ {n} : mutation[i].kind = "none"
          /\ mutation[n].seen <= table.others
        BY <1>9 DEF MineSent, SentFrom
    <2>2. n = m
        BY <1>2, <2>1 DEF kind
    <2> QED
        BY <1>1, <1>7, <1>9, <2>1, <2>2
<1>12. \A n \in Changing : mutation'[n].kind = "cancelMine" => Mine.data # Undefined
    BY <1>9 DEF MinePlain
<1> HIDE DEF kind
<1>13. CASE kind = "participate"
    <2>1. CancelsStay
        BY <1>10, <1>13 DEF CancelsStay, Cancelled, kind
    <2> QED
        BY <1>1, <1>7, <1>8, <1>11, <1>12, <2>1, MineKept
<1>14. CASE kind = "cancelMine"
    <2>1. /\ Mine'.data = Mine.data
          /\ Mine'.fetch = Asked \/ Mine'.fetch = Mine.fetch
        BY <1>8 DEF Kept
    <2>2. MinePlain'
        BY <1>1, <1>8, <1>12, <2>1, MarksApart DEF MinePlain
    <2>3. MineData'
        BY <1>2, <1>8, <1>14 DEF MineData
    <2>4. MineFetch'
        <3> SUFFICES ASSUME Mine'.fetch \notin {Idle, Asked}, "participations" \notin late'
                     PROVE  \/ Good(Mine.fetch)'
                            \/ \E n \in Changing : Missing(n, Mine.fetch)'
            BY DEF MineFetch
        <3>1. Mine'.fetch = Mine.fetch /\ Mine.fetch # NotFound /\ "participations" \notin late
            BY <1>7, <2>1 DEF MinePlain
        <3>2. Mine.fetch \in Answers
            BY <2>1, <3>1, MineIs DEF Entries
        <3>3. ~(Mine.fetch.rows["places"] < mutation[m].wrote["places"])
            <4>1. ~(Mine.fetch.rows["places"] < acked'["places"])
                BY <1>7, <3>1, MineIs
            <4>2. /\ acked["places"] \in Nat /\ mutation[m].wrote["places"] \in Nat
                  /\ acked'["places"] = Highest(acked["places"], mutation[m].wrote["places"])
                BY <1>1, MineIs DEF TypesOK, MutationOK, Mutations
            <4>3. /\ acked'["places"] \in Nat
                  /\ mutation[m].wrote["places"] <= acked'["places"]
                BY <4>2 DEF Highest
            <4>4. Mine.fetch.rows["places"] \in Nat
                BY <3>1, MineIs DEF EntryOK, FetchOK, Read, Mine, TypesOK, Tables
            <4> QED
                BY <4>1, <4>2, <4>3, <4>4
        <3>4. ~Missing(m, Mine.fetch)
            BY <3>3 DEF Missing
        <3>5. \/ Good(Mine.fetch)
              \/ \E n \in Changing \ {m} : Missing(n, Mine.fetch)
            BY <3>1, <3>4 DEF MineFetch
        <3>6. ASSUME NEW n \in Changing \ {m}, Missing(n, Mine.fetch)
              PROVE  Missing(n, Mine.fetch)'
            BY <1>10, <3>1, <3>6 DEF Missing, Cancelled, Alike
        <3>7. Good(Mine.fetch) => Good(Mine.fetch)'
            BY <1>1, <3>1 DEF Good
        <3> QED
            BY <3>5, <3>6, <3>7
    <2> QED
        BY <1>11, <2>2, <2>3, <2>4
<1> QED
    BY <1>2, <1>13, <1>14

LEMMA MineDelivered ==
    ASSUME ShapesOK, me = "volunteer", Delivered("participations"),
           MinePlain, MineData, MineFetch, MineSent
    PROVE  MinePlain' /\ MineData' /\ MineFetch' /\ MineSent'
<1> USE DEF ShapesOK
<1> DEFINE k == "participations"
<1>1. /\ mutation' = Settled({k}) /\ cache[k].fetch # Idle /\ Answer(k) # NotFound
      /\ UNCHANGED <<me, table, page, acked, late, acts, fails>>
    BY DEF Delivered
<1>2. /\ Mine'.data = Answer(k) /\ Mine'.fetch = Idle /\ ~Mine'.error /\ Answer(k) \in Answers
    BY DeliveredIs, MineIs DEF Mine
<1>3. \A n \in Changing : Calm(n)
    BY <1>1, SettledIs, MineIs DEF MutationOK, Calm
<1>4. MinePlain'
    BY <1>1, <1>2, MarksApart DEF MinePlain
<1>5. MineSent'
    BY <1>1, <1>3, SentStays
<1>6. MineFetch'
    BY <1>2 DEF MineFetch
<1>7. MineData'
    <2>1. Good(Answer(k)) \/ k \in late \/ \E n \in Changing : Cancelled(n)
        <3>1. CASE cache[k].fetch = Asked
            <4>1. Answer(k) = Snapshot(k)
                BY <1>1, <3>1, AnswerIs, MineIs
            <4> QED
                BY <4>1, MineIs DEF Good, TypesOK, Tables
        <3>2. CASE cache[k].fetch # Asked
            <4>1. Answer(k) = Mine.fetch
                BY <1>1, <3>2, AnswerIs, MineIs DEF Mine
            <4> QED
                BY <1>1, <3>2, <4>1 DEF MineFetch, Mine, Missing
        <3> QED
            BY <3>1, <3>2
    <2>2. Good(Answer(k)) => Good(Mine.data)'
        BY <1>1, <1>2 DEF Good
    <2>3. (\E n \in Changing : Cancelled(n)) => \E n \in Changing : Cancelled(n)'
        BY <1>3, CalmStays, CancelledStays
    <2> QED
        BY <1>1, <2>1, <2>2, <2>3 DEF MineData
<1> QED
    BY <1>4, <1>5, <1>6, <1>7

\* The answer to another query, or its end.
LEMMA MineSettled ==
    ASSUME ShapesOK, me = "volunteer", NEW j \in Keys, mutation' = Settled({j}),
           UNCHANGED <<table, late>>, Mine' = Mine,
           MinePlain, MineData, MineFetch, MineSent
    PROVE  MinePlain' /\ MineData' /\ MineFetch' /\ MineSent'
<1>1. \A n \in Changing : Calm(n)
    BY SettledIs DEF ShapesOK, MutationOK, Calm
<1>2. MineSent'
    BY <1>1, SentStays
<1> QED
    BY <1>1, <1>2, CalmStays, MineFrame

LEMMA MineSystem ==
    ASSUME ShapesOK, EntryOK("participations"), me = "volunteer", System,
           MinePlain, MineData, MineFetch, MineSent
    PROVE  MinePlain' /\ MineData' /\ MineFetch' /\ MineSent'
<1> USE DEF ShapesOK
<1>0. mutation \in [Changing -> Mutations] /\ page \in Pages /\ late \in SUBSET Keys
    BY DEF MutationOK, TypesOK
<1>1. ASSUME NEW m \in Changing, Refused(m)
      PROVE  MinePlain' /\ MineData' /\ MineFetch' /\ MineSent'
    <2>1. /\ mutation[m].phase = "sent" /\ mutation' = [mutation EXCEPT ![m] = NoMutation]
          /\ UNCHANGED <<me, table, page, cache, acked, late, acts, fails>>
        BY <1>1 DEF Refused
    <2>2. /\ mutation'[m] = NoMutation /\ \A n \in Changing \ {m} : mutation'[n] = mutation[n]
        BY <1>0, <2>1, EndsIs
    <2>3. \A n \in Changing : Calm(n)
        BY <2>1, <2>2, NoMutationIs, AlikeSelf DEF Calm, Cancelled
    <2>4. MineSent' /\ Mine' = Mine
        BY <2>1, <2>3, SentStays DEF Mine
    <2> QED
        BY <2>1, <2>3, <2>4, CalmStays, MineFrame
<1>2. ASSUME NEW m \in Changing, RefreshesNext(m)
      PROVE  MinePlain' /\ MineData' /\ MineFetch' /\ MineSent'
    <2> DEFINE todo == mutation[m].todo
    <2>1. /\ mutation[m].phase = "refreshing" /\ todo # <<>>
          /\ Refresh(m, mutation, cache, todo, acked)
          /\ UNCHANGED <<me, table, page, acked, acts, fails>>
        BY <1>2 DEF RefreshesNext
    <2>2. todo \in Seq(SUBSET Keys) /\ cache \in [Keys -> Entries]
        BY <1>0 DEF Mutations, TypesOK
    <2> HIDE DEF todo
    <2>3. /\ cache' = Invalidates(cache, Head(todo)) /\ Head(todo) \in SUBSET Keys
          /\ \A n \in Changing \ {m} : mutation'[n] = mutation[n]
          /\ mutation'[m].kind = mutation[m].kind /\ mutation'[m].phase = "refreshing"
          /\ mutation'[m].seen = mutation[m].seen
          /\ "participations" \in late => "participations" \in late' \/ Mine'.fetch = Asked
        BY <1>0, <2>1, <2>2, RefreshEffect DEF Mine
    <2>4. Kept(Mine, Mine') /\ (Mine'.error => Mine.error)
        BY <2>2, <2>3, MineIs, InvalidatesEffect DEF Mine
    <2>5. \A n \in Changing : Calm(n)
        BY <2>1, <2>3, AlikeSelf DEF Calm, Cancelled
    <2>6. MineSent'
        BY <2>1, <2>5, SentStays
    <2> QED
        BY <2>1, <2>3, <2>4, <2>5, <2>6, CalmStays, MineKept
<1>3. ASSUME NEW m \in Changing, Finishes(m)
      PROVE  MinePlain' /\ MineData' /\ MineFetch' /\ MineSent'
    <2> DEFINE ended == [mutation EXCEPT ![m] = NoMutation]
               leads == ChangeOf(mutation[m].kind).goesTo
    <2>1. /\ mutation[m].phase = "refreshing"
          /\ UNCHANGED <<me, table, acked, acts, fails>>
          /\ \/ mutation' = ended /\ UNCHANGED <<page, cache, late>>
             \/ /\ \E p \in leads \ {page} : \E aged \in SUBSET Observes(p) : Mounts(p, aged)
                /\ mutation' = Leaves(ended)
        BY <1>3 DEF Finishes
    <2>2. /\ ended \in [Changing -> Mutations] /\ ended[m] = NoMutation
          /\ \A n \in Changing \ {m} : ended[n] = mutation[n]
        BY <1>0, EndsIs
    <2>3. leads \in SUBSET Pages
        <3>1. mutation[m].kind \in KindsOf(me)
            BY <2>1 DEF MutationOK, ChangeUnderWay
        <3> QED
            BY <3>1, ChangeParts
    <2> HIDE DEF ended, leads
    <2>4. \A n \in Changing : Alike(ended[n], mutation'[n]) /\ mutation'[n].seen = ended[n].seen
        BY <2>1, <2>2, LeavesIs, AlikeSelf
    <2>5. \A n \in Changing : Calm(n)
        <3>1. Calm(m)
            BY <2>1, <2>2, <2>4, NoMutationIs DEF Calm, Alike, Cancelled
        <3>2. \A n \in Changing \ {m} : Calm(n)
            BY <2>2, <2>4 DEF Calm
        <3> QED
            BY <3>1, <3>2
    <2>6. MineSent'
        BY <2>1, <2>5, SentStays
    <2>7. CASE UNCHANGED <<page, cache, late>>
        <3>1. Mine' = Mine
            BY <2>7 DEF Mine
        <3> QED
            BY <2>1, <2>5, <2>6, <2>7, <3>1, CalmStays, MineFrame
    <2>8. CASE \E p \in leads \ {page} : \E aged \in SUBSET Observes(p) : Mounts(p, aged)
        <3>1. PICK p \in Pages : \E aged \in SUBSET Observes(p) : Mounts(p, aged)
            BY <2>3, <2>8
        <3> QED
            BY <2>1, <2>5, <2>6, <3>1, CalmStays, MineMounts
    <2> QED
        BY <2>1, <2>7, <2>8
<1>4. ASSUME NEW j \in Keys, Delivered(j)
      PROVE  MinePlain' /\ MineData' /\ MineFetch' /\ MineSent'
    <2>1. CASE j = "participations"
        BY <1>4, <2>1, MineDelivered
    <2>2. CASE j # "participations"
        <3>1. mutation' = Settled({j}) /\ UNCHANGED <<table, late>>
            BY <1>4 DEF Delivered
        <3>2. Mine' = Mine
            BY <1>4, <2>2, DeliveredIs, MineIs DEF Mine
        <3> QED
            BY <3>1, <3>2, MineSettled
    <2> QED
        BY <2>1, <2>2
<1>5. ASSUME NEW j \in Keys, IsNotFound(j)
      PROVE  MinePlain' /\ MineData' /\ MineFetch' /\ MineSent'
    <2>1. /\ mutation' = Settled({j}) /\ Fails(j) /\ UNCHANGED <<table, late>>
          /\ cache[j].fetch # Idle /\ Answer(j) = NotFound
        BY <1>5 DEF IsNotFound, Fails
    <2>2. j # "participations"
        <3> SUFFICES ASSUME j = "participations" PROVE FALSE
            OBVIOUS
        <3>1. Mine.fetch # NotFound /\ Mine.fetch = cache[j].fetch
            BY DEF MinePlain, Mine
        <3>2. Snapshot(j) # NotFound
            BY MineIs, MarksApart
        <3> QED
            BY <2>1, <3>1, <3>2, AnswerIs
    <2>3. Mine' = Mine
        BY <2>1, <2>2, FailsIs, MineIs DEF Mine
    <2> QED
        BY <2>1, <2>3, MineSettled
<1> QED
    BY <1>1, <1>2, <1>3, <1>4, <1>5, MineCommits, MineAcknowledged DEF System

LEMMA MineOtherParty ==
    ASSUME ShapesOK, me = "volunteer", OtherParty,
           MinePlain, MineData, MineFetch, MineSent
    PROVE  MinePlain' /\ MineData' /\ MineFetch' /\ MineSent'
<1> USE DEF ShapesOK
<1> DEFINE shot == Snapshot("participations")
<1>1. TablesChange(cache') /\ UNCHANGED <<me, page, mutation, acked, late, acts, fails>>
    BY DEF OtherParty
<1>2. /\ table' \in Tables /\ table'.others = table.others + 1
      /\ table'.alive = table.alive /\ table'.rows = table.rows
    BY OtherPartyIs
<1>3. /\ Mine'.data = Mine.data /\ Mine'.stale = Mine.stale /\ Mine'.error = Mine.error
      /\ Mine'.fetch = Mine.fetch \/ (Mine.fetch = Asked /\ Mine'.fetch = shot)
    BY <1>1, TablesChangeEffect, MineIs DEF Mine
<1>4. shot \in Answers /\ shot.others = table.others
    BY MineIs
<1>5. shot # NotFound /\ shot # Idle /\ shot # Asked
    BY <1>4, MarksApart
<1>6. table.others \in Nat
    BY DEF TypesOK, Tables
<1> HIDE DEF shot
<1>7. ASSUME NEW s, s \in Answers, Good(s) PROVE Good(s)'
    <2>1. s.others \in Nat /\ s.others <= table.others
        BY <1>7 DEF Answers, Good
    <2> QED
        BY <1>2, <1>6, <2>1 DEF Good
<1>8. ASSUME NEW s, s = shot PROVE Good(s)'
    BY <1>2, <1>4, <1>6, <1>8 DEF Good
<1>9. MinePlain'
    BY <1>1, <1>2, <1>3, <1>5 DEF MinePlain
<1>10. CancelsStay
    BY <1>1, AlikeSelf DEF CancelsStay
<1>11. MineData'
    <2> SUFFICES ASSUME Mine.data # Undefined PROVE MineData'
        BY <1>3 DEF MineData
    <2>1. Mine.data \in Answers
        BY MineIs DEF Entries
    <2>2. Good(Mine.data) => Good(Mine.data)'
        BY <1>3, <1>7, <2>1
    <2> QED
        BY <1>1, <1>3, <1>5, <1>10, <2>2, CancelledStays DEF MineData
<1>12. MineFetch'
    <2>1. CASE Mine'.fetch = Mine.fetch
        <3> SUFFICES ASSUME Mine.fetch \notin {Idle, Asked} PROVE MineFetch'
            BY <2>1 DEF MineFetch
        <3>1. Mine.fetch \in Answers
            BY MineIs DEF Entries, MinePlain
        <3>2. Good(Mine.fetch) => Good(Mine.fetch)'
            BY <1>7, <2>1, <3>1
        <3> QED
            BY <1>1, <1>2, <1>10, <2>1, <3>2, CancelledStays DEF MineFetch
    <2>2. CASE Mine'.fetch = shot
        <3>1. Good(Mine.fetch)'
            BY <1>8, <2>2
        <3> QED
            BY <3>1 DEF MineFetch
    <2> QED
        BY <1>3, <2>1, <2>2
<1>13. MineSent'
    <2> SUFFICES ASSUME NEW m \in Changing, mutation[m].kind = "cancelMine",
                        mutation[m].seen # Asked
                 PROVE  /\ \A n \in Changing \ {m} : mutation[n].kind = "none"
                        /\ mutation[m].seen <= table'.others
                        /\ mutation[m].seen # table'.others
        BY <1>1 DEF MineSent, SentFrom
    <2>1. mutation[m].seen \in Nat /\ mutation[m].seen <= table.others
        BY DEF MutationOK, Mutations, SeenValues, MineSent, SentFrom
    <2>2. \A n \in Changing \ {m} : mutation[n].kind = "none"
        BY DEF MineSent, SentFrom
    <2> QED
        BY <1>2, <1>6, <2>1, <2>2
<1> QED
    BY <1>9, <1>11, <1>12, <1>13

LEMMA MineStep == ASSUME ScreensInv, Next PROVE MineOK'
<1> USE DEF ScreensInv
<1>1. me' = me
    BY DEF Next, User, System, Faults, GoesTo, Sends, RendersAgain, Commits, Refused,
           Acknowledged, RefreshesNext, Finishes, Delivered, IsNotFound, Fails, LosesCall,
           LosesQuery, OtherParty
<1>2. fails \in Nat /\ (fails' = fails \/ fails' = fails + 1)
    BY DEF ShapesOK, TypesOK, Next, User, System, Faults, GoesTo, Sends, RendersAgain, Commits,
           Refused, Acknowledged, RefreshesNext, Finishes, Delivered, IsNotFound, LosesCall,
           LosesQuery, OtherParty
<1>3. Faults => fails' = fails + 1
    BY DEF Faults, LosesCall, LosesQuery
<1> SUFFICES ASSUME me' = "volunteer", fails' = 0
             PROVE  MinePlain' /\ MineData' /\ MineFetch' /\ MineSent'
    BY DEF MineOK
<1>4. me = "volunteer" /\ fails = 0 /\ ~Faults
    BY <1>1, <1>2, <1>3
<1>5. MinePlain /\ MineData /\ MineFetch /\ MineSent
    BY <1>4 DEF MineOK
<1>6. EntryOK("participations")
    BY DEF EntriesOK, Keys
<1> QED
    BY <1>4, <1>5, <1>6, MineUser, MineSystem, MineOtherParty DEF Next

-----------------------------------------------------------------------------
(* The theorems *)

LEMMA ScreensInit == Init => ScreensInv
<1> SUFFICES ASSUME Init PROVE ScreensInv
    OBVIOUS
<1>1. /\ me \in Users /\ page \in Pages
      /\ mutation = [m \in Changing |-> NoMutation] /\ acked = NoCount
      /\ late = {} /\ fails = 0
    BY DEF Init, Users
<1>2. PICK p \in {"NONE", "PENDING"} :
        table = [rows |-> NoCount, alive |-> Records, part |-> p, others |-> 0]
    BY DEF Init
<1>3. /\ table \in Tables /\ table.alive = Records /\ table.rows = NoCount /\ table.others = 0
      /\ NoCount \in [Facets -> Nat] /\ \A f \in Facets : NoCount[f] = 0
    BY <1>2 DEF Tables, Statuses, NoCount
<1>4. PICK visited \in {{}, Keys} :
          cache = [k \in Keys |-> IF k \in Observes(page) THEN Ask(EmptyEntry)
                                 ELSE IF k \in visited
                                      THEN [EmptyEntry EXCEPT !.data = Snapshot(k)]
                                 ELSE EmptyEntry]
    BY DEF Init
<1>5. \A k \in Keys : cache[k] \in {EmptyEntry, Ask(EmptyEntry),
                                    [EmptyEntry EXCEPT !.data = Snapshot(k)]}
    BY <1>4
<1>6. ASSUME NEW k \in Keys
      PROVE  /\ cache[k] \in Entries
             /\ ~cache[k].stale /\ ~cache[k].error /\ cache[k].fetch \in {Idle, Asked}
             /\ cache[k].data = Undefined
                \/ (cache[k].data = Snapshot(k) /\ Snapshot(k) \in Answers)
    <2>1. PICK e : e = cache[k]
        OBVIOUS
    <2>2. e \in {EmptyEntry, Ask(EmptyEntry), [EmptyEntry EXCEPT !.data = Snapshot(k)]}
        BY <1>5, <2>1
    <2>3. CASE e \in {EmptyEntry, Ask(EmptyEntry)}
        BY <2>1, <2>3, EntryTyped, Asks
    <2>4. CASE e = [EmptyEntry EXCEPT !.data = Snapshot(k)]
        <3>1. Snapshot(k) \in Answers
            BY <1>1, <1>3, SnapshotIs
        <3>2. ASSUME NEW d \in Answers, e = [EmptyEntry EXCEPT !.data = d]
              PROVE  e \in Entries /\ e.data = d /\ e.fetch = Idle /\ ~e.stale /\ ~e.error
            BY <3>2 DEF EmptyEntry, Entries
        <3> QED
            BY <2>1, <2>4, <3>1, <3>2
    <2> QED
        BY <2>2, <2>3, <2>4
<1>7. cache \in [Keys -> Entries]
    BY <1>4, <1>6
<1>8. TypesOK
    BY <1>1, <1>3, <1>7 DEF TypesOK
<1>9. MutationOK /\ WaitsOK
    BY <1>1, <1>3, NoMutationIs, NothingUnderWay DEF MutationOK, WaitsOK
<1>10. CountsOK
    BY <1>1, <1>3 DEF CountsOK
<1>11. ASSUME NEW k \in Keys PROVE EntryOK(k)
    <2>1. Reads(k) \in SUBSET Facets
        BY <1>1, FacetsRead
    <2>2. cache[k].data = Undefined \/ Fresh(k, cache[k].data)
        <3> SUFFICES ASSUME cache[k].data = Snapshot(k), Snapshot(k) \in Answers
                     PROVE  Fresh(k, cache[k].data)
            BY <1>6
        <3>1. \A f \in Reads(k) : Snapshot(k).rows[f] = 0 /\ acked[f] = 0
            BY <1>1, <1>3, <2>1, SnapshotIs, MarksApart
        <3> QED
            BY <3>1 DEF Fresh
    <2> QED
        BY <1>6, <2>2 DEF EntryOK, FetchOK, DataOK, MarkOK
<1>12. MineOK
    <2> SUFFICES ASSUME me = "volunteer" PROVE MinePlain /\ MineData /\ MineFetch /\ MineSent
        BY DEF MineOK
    <2>1. /\ ~Mine.error /\ Mine.fetch \in {Idle, Asked}
          /\ Mine.data = Undefined \/ Mine.data = Snapshot("participations")
        BY <1>6 DEF Mine, Keys
    <2>2. \A m \in Changing : mutation[m].kind = "none"
        BY <1>1, NoMutationIs
    <2>3. ASSUME NEW s, s = Snapshot("participations") PROVE Good(s)
        BY <1>3, <1>8, <2>3, MineIs DEF Good
    <2> QED
        BY <1>3, <2>1, <2>2, <2>3, MarksApart
        DEF MinePlain, MineData, MineFetch, MineSent, SentFrom
<1> QED
    BY <1>8, <1>9, <1>10, <1>11, <1>12 DEF ScreensInv, ShapesOK, EntriesOK

LEMMA ScreensNext == ScreensInv /\ [Next]_vars => ScreensInv'
<1> SUFFICES ASSUME ScreensInv, [Next]_vars PROVE ScreensInv'
    OBVIOUS
<1>1. CASE Next
    <2>1. ShapesOK'
        BY <1>1, UserShapes, SystemShapes, RestShapes DEF ScreensInv, Next
    <2>2. EntriesOK'
        BY <1>1, EntryStep DEF ScreensInv, EntriesOK
    <2>3. MineOK'
        BY <1>1, MineStep
    <2> QED
        BY <2>1, <2>2, <2>3 DEF ScreensInv
<1>2. CASE UNCHANGED vars
    <2>1. UNCHANGED <<me, table, page, cache, mutation, acked, late, acts, fails>>
        BY <1>2 DEF vars
    <2>2. ShapesOK'
        BY <2>1 DEF ScreensInv, ShapesOK, TypesOK, MutationOK, CountsOK, WaitsOK
    <2>3. ASSUME NEW k \in Keys PROVE EntryOK(k)'
        <3>1. Owed(k) => Owed(k)'
            BY <2>1 DEF Owed
        <3> QED
            BY <2>1, <3>1, Untouched DEF ScreensInv, ShapesOK, EntriesOK
    <2>4. MineOK'
        <3>1. \A n \in Changing : Calm(n)
            BY <2>1, AlikeSelf DEF Calm
        <3>2. Mine' = Mine
            BY <2>1 DEF Mine
        <3>3. MinePlain /\ MineData /\ MineFetch => MinePlain' /\ MineData' /\ MineFetch'
            BY <2>1, <3>1, <3>2, CalmStays, MineFrame
        <3>4. MineSent => MineSent'
            BY <2>1, <3>1, SentStays
        <3> QED
            BY <2>1, <3>3, <3>4 DEF ScreensInv, MineOK
    <2> QED
        BY <2>2, <2>3, <2>4 DEF ScreensInv, EntriesOK
<1> QED
    BY <1>1, <1>2

\* The inductive invariant: every entry of the cache counts the changes the tab was told of,
\* or is marked, asked for, late, still to be refreshed by a change under way, or one of the
\* keys the changes leave out.
THEOREM ScreensInvariance == Spec => []ScreensInv
<1>1. Init => ScreensInv
    BY ScreensInit
<1>2. ScreensInv /\ [Next]_vars => ScreensInv'
    BY ScreensNext
<1> QED
    BY <1>1, <1>2, PTL DEF Spec

\* The variables keep their types, the tab is told of nothing the tables do not count, and a
\* change only waits for requests that are under way: the awaited invalidateQueries of
\* use_*.service.ts.
THEOREM ScreensTypeCorrect == Spec => []ScreensTypeOK
<1>1. ScreensInv => ScreensTypeOK
    BY DEF ScreensInv, ShapesOK, ScreensTypeOK, TypesOK, Users, Tables, CountsOK, WaitsOK
<1> QED
    BY <1>1, ScreensInvariance, PTL

\* What a page shows of a settled query counts every change the tab was told of, for any
\* number of changes, overlapping or not, of faults and of visits, but for an answer taken
\* before the change was acknowledged, a mission or slot deleted with what it belongs to, and
\* the missions of an organizer who has taken a place: the lists of keys in use_*.service.ts.
THEOREM OwnWritesAreRead == Spec => []ReadYourWrites
<1>1. ScreensInv => ReadYourWrites
    <2> SUFFICES ASSUME ScreensInv, NEW k \in Observes(page),
                        cache[k].fetch = Idle, ~cache[k].error, Data(k) # Undefined,
                        k \notin late, ~Owed(k), ~Forgotten(k),
                        ~(CanEdit /\ k = "participations"),
                        NEW f \in Renders(page, k)
                 PROVE  Data(k).rows[f] >= acked[f]
        BY DEF ReadYourWrites
    <2>1. k \in Keys
        BY KeysObserved DEF ScreensInv, ShapesOK, TypesOK
    <2>2. FetchOK(k) /\ DataOK(k) /\ MarkOK(k)
        BY <2>1 DEF ScreensInv, EntriesOK, EntryOK
    <2>3. f \in Reads(k)
        BY DEF Renders
    <2>4. ~cache[k].stale
        BY <2>2 DEF MarkOK, Data
    <2> QED
        BY <2>2, <2>3, <2>4 DEF DataOK, LeftOut, Fresh, Data
<1> QED
    BY <1>1, ScreensInvariance, PTL

\* With no call lost, a volunteer's own cancellation, confirmed on a settled list and with no
\* other change of the participation under way, is refused only because the organizer acted
\* meanwhile, however long the history: MyMissionsPage against participations.transition.ts.
THEOREM CancelOnlyOvertaken == Spec => OwnCancelOvertaken
<1>1. ScreensInv /\ [Next]_vars =>
        [ \A m \in Changing :
            (Refused(m) /\ mutation[m].kind = "cancelMine" /\ me = "volunteer" /\ fails = 0)
                => table.others # mutation[m].seen ]_vars
    <2> SUFFICES ASSUME ScreensInv, NEW m \in Changing, Refused(m),
                        mutation[m].kind = "cancelMine", me = "volunteer", fails = 0,
                        table.others = mutation[m].seen
                 PROVE  FALSE
        OBVIOUS
    <2> USE DEF ScreensInv, ShapesOK
    <2>1. mutation[m].phase = "sent" /\ ~Allowed("cancelMine")
        BY DEF Refused
    <2>2. table.others # Asked
        BY MarksApart DEF TypesOK, Tables
    <2>3. table.alive = Records /\ IsActive(table.part)
        BY <2>1, <2>2 DEF MineOK, MinePlain, MineSent, SentFrom
    <2>4. Allowed("cancelMine")
        BY <2>3 DEF Allowed, About, FromStatuses, Participations, IsActive, Records
    <2> QED
        BY <2>1, <2>4
<1> QED
    BY <1>1, ScreensInvariance, PTL DEF Spec, OwnCancelOvertaken

=============================================================================
