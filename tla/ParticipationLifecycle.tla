----------------------- MODULE ParticipationLifecycle -----------------------
(***************************************************************************)
(* What ParticipationService promises to callers who come one at a time:   *)
(* each call tests the current state and changes it in a single step, and  *)
(* a slot left by an accept or a cancel knows whether it is full.          *)
(***************************************************************************)
EXTENDS Naturals, FiniteSets

CONSTANTS Users, Slots, MaxPlaces

VARIABLES
    status,  \* [Slots -> [Users -> status of the participation, or NONE]]
    slot     \* [Slots -> status and max_participant of the slot]

vars == <<status, slot>>

Earlier == {"NONE", "PENDING", "ACCEPTED", "REJECTED", "CANCELLED"}

Sizes == 1 .. MaxPlaces

Init ==
    /\ status \in [Slots -> [Users -> Earlier]]
    /\ slot \in [Slots -> [status : {"OPEN", "FULL", "CLOSED", "CANCELLED"},
                           max_participant : Sizes]]

Full(s, st) ==
    Cardinality({u \in Users : st[u] = "ACCEPTED"}) >= slot[s].max_participant

\* The slot row once its status agrees with the participations st.
Synced(s, st) ==
    IF slot[s].status \in {"CLOSED", "CANCELLED"} THEN slot
    ELSE [slot EXCEPT ![s].status = IF Full(s, st) THEN "FULL" ELSE "OPEN"]

\* A volunteer asks for a place, the first time or again.
Join(s, u) ==
    /\ status[s][u] \in {"NONE", "CANCELLED"}
    /\ slot[s].status = "OPEN"
    /\ ~Full(s, status[s])
    /\ status' = [status EXCEPT ![s][u] = "PENDING"]
    /\ UNCHANGED slot

\* The organizer accepts a request; nothing limits how many.
Accept(s, u) ==
    /\ status[s][u] = "PENDING"
    /\ status' = [status EXCEPT ![s][u] = "ACCEPTED"]
    /\ slot' = Synced(s, status'[s])

\* The organizer rejects a request, for good.
Reject(s, u) ==
    /\ status[s][u] = "PENDING"
    /\ status' = [status EXCEPT ![s][u] = "REJECTED"]
    /\ UNCHANGED slot

\* A request or an accepted place is given up or taken back.
Cancel(s, u) ==
    /\ status[s][u] \in {"PENDING", "ACCEPTED"}
    /\ status' = [status EXCEPT ![s][u] = "CANCELLED"]
    /\ slot' = Synced(s, status'[s])

\* The organizer edits the slot, whatever its participations.
Edit(s, row) ==
    /\ slot[s].status # "GONE"
    /\ slot' = [slot EXCEPT ![s] = row]
    /\ UNCHANGED status

\* The slot is deleted with its participations.
Remove(s) ==
    /\ slot[s].status # "GONE"
    /\ slot' = [slot EXCEPT ![s].status = "GONE"]
    /\ status' = [status EXCEPT ![s] = [u \in Users |-> "NONE"]]

Next ==
    \E s \in Slots :
        \/ \E u \in Users : Join(s, u) \/ Accept(s, u) \/ Reject(s, u) \/ Cancel(s, u)
        \/ \E st \in {"OPEN", "FULL", "CLOSED", "CANCELLED"}, n \in Sizes :
                Edit(s, [status |-> st, max_participant |-> n])
        \/ Remove(s)

Spec == Init /\ [][Next]_vars
=============================================================================
