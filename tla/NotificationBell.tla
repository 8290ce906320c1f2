-------------------------- MODULE NotificationBell --------------------------
(***************************************************************************)
(* The bell in the header of one tab: the badge and the list, which are    *)
(* two entries of the query cache, and the event stream that keeps them up *)
(* to date between two loads.  The stream is one run of fetchEventSource,  *)
(* started again by every new access token; the notifications themselves   *)
(* are kept by the notification service, behind the gateway's relay.       *)
(*                                                                         *)
(* The query cache (TanStack Query) and fetch-event-source are modelled    *)
(* from how the hooks use them.  Left out: the order of the list, its      *)
(* pages, what a notification says.                                        *)
(***************************************************************************)
EXTENDS Integers, Sequences, FiniteSets, FiniteSetsExt

CONSTANTS
    Ids,         \* the notifications there may be
    MaxConns,    \* connections of the stream open at once (bounds the model)
    MaxFaults,   \* streams cut, tokens expired, requests failed, tabs hidden (bounds the model)
    Undefined,   \* a cache entry never filled
    Idle,        \* no request under way for a cache entry
    Asked        \* a request under way, not answered yet

ASSUME BellConstants ==
    /\ MaxConns \in Nat \ {0}
    /\ MaxFaults \in Nat
    /\ IsFiniteSet(Ids)

VARIABLES
    stored,      \* the notification service's rows: absent, unread or read
    token,       \* the tab's access token: valid, expired, or none once signed out
    refreshing,  \* whether refreshAccessToken is under way
    faults,      \* what has gone wrong so far
    hidden,      \* whether the tab is hidden
    conn,        \* each connection of the stream
    wire,        \* what each connection carries, not read yet
    es,          \* fetchEventSource: its latest controller, its retry timer, its listener;
                 \* and the connections that runs disposed of have left open
    badge,       \* the unread count: the cached number, the request under way
    list,        \* the list: the cached rows, the request under way, whether it is stale
    open,        \* whether the menu is open
    mark,        \* the mutation under way: marking one as read, or all
    blurred,     \* whether a notification has slipped past the answer of the count
    told         \* what the tab knows of each notification read: nothing, claimed, sure

server == <<stored, faults>>
stream == <<conn, wire, es>>
cache == <<badge, list, open, mark, blurred, told>>
vars == <<stored, token, refreshing, faults, hidden, conn, wire, es, badge, list, open,
          mark, blurred, told>>

Conns == 1 .. MaxConns

Unread == {n \in Ids : stored[n] = "unread"}

\* What a list holds of a notification: the row, and whether it shows as read.
Rows == Ids \X BOOLEAN

\* A row of the list, a number or a mutation is never mistaken for one of the marks.
ASSUME BellMarks ==
    /\ \A m \in {Undefined, Idle, Asked} : m \notin Nat /\ \A rows \in SUBSET Rows : rows # m
    /\ Idle # Asked
    /\ Idle \notin [of : Ids \cup {"all"}, at : {"asked", "applied"}]

Fault == faults < MaxFaults /\ faults' = faults + 1

Free == {c \in Conns : conn[c] = "none"}

-----------------------------------------------------------------------------
(* The cache: what the hooks ask of it *)

\* A refetch cancels the request under way and asks again, but never the first one.
Refetched(entry) ==
    IF entry.fetch # Idle /\ entry.data = Undefined THEN entry
    ELSE [entry EXCEPT !.fetch = Asked]

\* Nothing can have slipped past a request that has just been sent.
RefetchBadge ==
    /\ badge' = Refetched(badge)
    /\ blurred' = (blurred /\ badge.data = Undefined /\ badge.fetch \notin {Idle, Asked})

\* Variant: the answer of a request already under way will do.
InvalidateListKeepsRequest ==
    list' = IF open /\ list.fetch = Idle THEN [list EXCEPT !.fetch = Asked, !.stale = TRUE]
            ELSE [list EXCEPT !.stale = TRUE]

\* Marked invalid, and asked again if somebody is looking.
InvalidateList ==
    list' = IF open THEN [Refetched(list) EXCEPT !.stale = TRUE]
            ELSE [list EXCEPT !.stale = TRUE]

-----------------------------------------------------------------------------
(* fetchEventSource *)

\* The connections once the latest controller is aborted.  One whose onopen is still
\* awaited learns of it only then.
Aborted ==
    [conn EXCEPT ![es.cur] = IF @ \in {"opening", "aborted"} THEN "aborted" ELSE "none"]

\* Only the connections that are read, or will be, carry anything.
CutWires(cs) == [c \in Conns |-> IF cs[c] \in {"opening", "listening"} THEN wire[c] ELSE <<>>]

\* create(): one more request, whose controller is the latest from now on.
Create(cs, timer) ==
    LET c == Min({d \in Conns : cs[d] = "none"})
    IN  /\ conn' = [cs EXCEPT ![c] = "asked"]
        /\ wire' = CutWires(cs)
        /\ es' = [es EXCEPT !.cur = c, !.live = TRUE, !.timer = timer, !.old = @ \ {c}]

\* Variant: the streams opened are not told.
OpenersForgotten == UNCHANGED stream

\* The promises that wait for the count settle: the streams opened go on to read, and one
\* aborted meanwhile fails; unless its run's latest controller is aborted too, a retry is
\* set.
OpenersGoOn ==
    /\ conn' = [c \in Conns |-> CASE conn[c] = "opening" -> "listening"
                                  [] conn[c] = "aborted" -> "none"
                                  [] OTHER -> conn[c]]
    /\ es' = [es EXCEPT !.timer = @ \/ (es.live /\ \E c \in Conns \ es.old : conn[c] = "aborted"),
                        !.old = {c \in @ : conn[c] # "aborted"}]
    /\ UNCHANGED wire

\* onclose and onerror: anything but a refused token is tried again later, except by a run
\* disposed of.
OnError(c) ==
    /\ conn' = [conn EXCEPT ![c] = "none"]
    /\ wire' = [wire EXCEPT ![c] = <<>>]
    /\ es' = [es EXCEPT !.timer = @ \/ (es.live /\ c \notin es.old), !.old = @ \ {c}]

-----------------------------------------------------------------------------
(* The stream's callbacks *)

\* Variant: the count is not reloaded.
OnOpenOnly(c) ==
    /\ conn' = [conn EXCEPT ![c] = "listening"]
    /\ UNCHANGED <<wire, es, badge, blurred>>

\* onopen, accepted: the count is reloaded, and the stream read once it is.
OnOpen(c) ==
    /\ conn' = [conn EXCEPT ![c] = "opening"]
    /\ RefetchBadge
    /\ UNCHANGED <<wire, es>>

Opens(c) ==
    /\ conn[c] = "asked"
    /\ token = "valid"
    /\ OnOpen(c)
    /\ UNCHANGED <<server, token, refreshing, hidden, list, open, mark, told>>

\* Variant: the token is left to the next request.
OnRefusedNoRefresh == UNCHANGED refreshing

\* onopen, 401: the token is refreshed
OnRefused == refreshing' = TRUE

\* ... and the run disposed of, if it was not: only its latest controller is aborted.
Refused(c) ==
    /\ conn[c] = "asked"
    /\ token = "expired" \/ c \in es.old
    /\ OnRefused
    /\ IF es.live /\ c \notin es.old
       THEN /\ conn' = [Aborted EXCEPT ![c] = "none"]
            /\ es' = [es EXCEPT !.live = FALSE, !.timer = FALSE, !.attached = FALSE]
       ELSE /\ conn' = [conn EXCEPT ![c] = "none"]
            /\ es' = [es EXCEPT !.old = @ \ {c}]
    /\ wire' = CutWires(conn')
    /\ UNCHANGED <<server, token, hidden, cache>>

\* The stream cannot be opened (503 from the relay), or is cut.
Drops(c) ==
    /\ conn[c] \in {"asked", "listening"}
    /\ Fault
    /\ OnError(c)
    /\ UNCHANGED <<stored, token, refreshing, hidden, cache>>

\* The server closes the stream of an expired token.
Closes(c) ==
    /\ conn[c] = "listening"
    /\ token = "expired" \/ c \in es.old
    /\ OnError(c)
    /\ UNCHANGED <<server, token, refreshing, hidden, cache>>

TimerFires ==
    /\ es.timer
    /\ Free # {}
    /\ Create(conn, FALSE)
    /\ UNCHANGED <<server, token, refreshing, hidden, cache>>

\* onmessage: the badge is bumped and the list gets the notification on top, when loaded.
OnMessage(n) ==
    /\ badge' = IF badge.data = Undefined THEN badge ELSE [badge EXCEPT !.data = @ + 1]
    /\ list' = IF list.data = Undefined THEN list
               ELSE [list EXCEPT !.data = @ \cup {<<n, FALSE>>}, !.stale = FALSE]
    /\ told' = [told EXCEPT ![n] = "nothing"]
    /\ UNCHANGED <<open, mark, blurred>>

Delivers(c) ==
    /\ conn[c] = "listening"
    /\ wire[c] # <<>>
    /\ wire' = [wire EXCEPT ![c] = Tail(@)]
    /\ OnMessage(Head(wire[c]))
    /\ UNCHANGED <<server, token, refreshing, hidden, conn, es>>

\* onVisibilityChange.  The retry timer is left running.
Hides ==
    /\ ~hidden
    /\ Fault
    /\ hidden' = TRUE
    /\ IF es.attached
       THEN conn' = Aborted /\ wire' = CutWires(Aborted) /\ es' = [es EXCEPT !.live = FALSE]
       ELSE UNCHANGED stream
    /\ UNCHANGED <<stored, token, refreshing, cache>>

Shows ==
    /\ hidden
    /\ hidden' = FALSE
    /\ IF es.attached
       THEN /\ \E c \in Conns : Aborted[c] = "none"
            /\ Create(Aborted, es.timer)
       ELSE UNCHANGED stream
    /\ UNCHANGED <<server, token, refreshing, cache>>

-----------------------------------------------------------------------------
(* The token *)

Expires ==
    /\ token = "valid"
    /\ Fault
    /\ token' = "expired"
    /\ UNCHANGED <<stored, refreshing, hidden, stream, cache>>

Waiting ==
    \/ badge.fetch = Asked \/ list.fetch = Asked
    \/ mark # Idle /\ mark.at = "asked"

\* The interceptor: a request refused refreshes the token, and is sent again.
RequestRefused ==
    /\ token = "expired"
    /\ Waiting
    /\ ~refreshing
    /\ refreshing' = TRUE
    /\ UNCHANGED <<server, token, hidden, stream, cache>>

\* The effect's cleanup disposes of the run of the old token, and starts one with the new.
\* The old run's latest controller is aborted; a connection it had open before is left so.
Restart ==
    /\ \E c \in Conns : Aborted[c] = "none"
    /\ LET c == Min({d \in Conns : Aborted[d] = "none"})
       IN  /\ conn' = [Aborted EXCEPT ![c] = "asked"]
           /\ wire' = CutWires(Aborted)
           /\ es' = [cur |-> c, live |-> TRUE, timer |-> FALSE, attached |-> TRUE,
                     old |-> {d \in Conns : Aborted[d] # "none"}]

RefreshSucceeds ==
    /\ refreshing
    /\ refreshing' = FALSE
    /\ token' = "valid"
    /\ Restart
    /\ UNCHANGED <<server, hidden, cache>>

\* The session is over: the page leaves for the sign-in form, and the streams with it.
RefreshFails ==
    /\ refreshing
    /\ refreshing' = FALSE
    /\ token' = "none"
    /\ conn' = [c \in Conns |-> "none"] /\ wire' = [c \in Conns |-> <<>>]
    /\ es' = [cur |-> 1, live |-> FALSE, timer |-> FALSE, attached |-> FALSE, old |-> {}]
    /\ UNCHANGED <<server, hidden, cache>>

-----------------------------------------------------------------------------
(* The requests *)

BadgeAnswered ==
    /\ badge.fetch = Asked
    /\ token = "valid"
    /\ badge' = [badge EXCEPT !.fetch = Cardinality(Unread)]
    /\ UNCHANGED <<server, token, refreshing, hidden, stream, list, open, mark, blurred, told>>

BadgeArrives ==
    /\ badge.fetch \notin {Idle, Asked}
    /\ badge' = [badge EXCEPT !.data = badge.fetch, !.fetch = Idle]
    /\ OpenersGoOn
    /\ UNCHANGED <<server, token, refreshing, hidden, list, open, mark, blurred, told>>

BadgeFails ==
    /\ Fault
    /\ badge.fetch = Asked
    /\ badge' = [badge EXCEPT !.fetch = Idle]
    /\ blurred' = TRUE
    /\ OpenersGoOn
    /\ UNCHANGED <<stored, token, refreshing, hidden, list, open, mark, told>>

ListAnswered ==
    /\ list.fetch = Asked
    /\ token = "valid"
    /\ list' = [list EXCEPT !.fetch = {<<n, stored[n] = "read">> : n \in {k \in Ids : stored[k] # "absent"}}]
    /\ UNCHANGED <<server, token, refreshing, hidden, stream, badge, open, mark, blurred, told>>

ListArrives ==
    /\ list.fetch \notin {Idle, Asked}
    /\ list' = [data |-> list.fetch, fetch |-> Idle, stale |-> FALSE]
    /\ UNCHANGED <<server, token, refreshing, hidden, stream, badge, open, mark, blurred, told>>

ListFails ==
    /\ Fault
    /\ list.fetch = Asked
    /\ list' = [list EXCEPT !.fetch = Idle, !.stale = TRUE]
    /\ told' = [n \in Ids |-> "nothing"]
    /\ UNCHANGED <<stored, token, refreshing, hidden, stream, badge, open, mark, blurred>>

\* A minute goes by; nothing shows it before the menu is opened again.
ListAges ==
    /\ ~open
    /\ list.data # Undefined
    /\ ~list.stale
    /\ list' = [list EXCEPT !.stale = TRUE]
    /\ UNCHANGED <<server, token, refreshing, hidden, stream, badge, open, mark, blurred, told>>

-----------------------------------------------------------------------------
(* The menu *)

\* The list is asked for when it has gone stale; the badge always.
Opened ==
    /\ ~open
    /\ open' = TRUE
    /\ RefetchBadge
    /\ list' = IF list.fetch = Idle /\ (list.data = Undefined \/ list.stale)
               THEN [list EXCEPT !.fetch = Asked] ELSE list
    /\ UNCHANGED <<server, token, refreshing, hidden, stream, mark, told>>

Closed ==
    /\ open
    /\ open' = FALSE
    /\ told' = [n \in Ids |-> IF told[n] = "sure" THEN "claimed" ELSE told[n]]
    /\ UNCHANGED <<server, token, refreshing, hidden, stream, badge, list, mark, blurred>>

\* One mutation at a time: bounds the model.
MarkRead(n) ==
    /\ open
    /\ list.data # Undefined
    /\ <<n, FALSE>> \in list.data
    /\ mark = Idle
    /\ mark' = [of |-> n, at |-> "asked"]
    /\ UNCHANGED <<server, token, refreshing, hidden, stream, badge, list, open, blurred, told>>

MarkAllRead ==
    /\ open
    /\ badge.data \notin {Undefined, 0}
    /\ mark = Idle
    /\ mark' = [of |-> "all", at |-> "asked"]
    /\ UNCHANGED <<server, token, refreshing, hidden, stream, badge, list, open, blurred, told>>

\* The notification service applies it.
MarkApplied ==
    /\ mark # Idle
    /\ mark.at = "asked"
    /\ token = "valid"
    /\ mark' = [mark EXCEPT !.at = "applied"]
    /\ stored' = [n \in Ids |-> IF mark.of \in {n, "all"} /\ stored[n] = "unread" THEN "read"
                                ELSE stored[n]]
    /\ UNCHANGED <<token, refreshing, faults, hidden, stream, badge, list, open, blurred, told>>

\* onSuccess: the badge and the list are refreshed.
MarkSucceeds ==
    /\ mark # Idle
    /\ mark.at = "applied"
    /\ mark' = Idle
    /\ RefetchBadge
    /\ InvalidateList
    /\ told' = [n \in Ids |-> IF stored[n] # "read" \/ list.data = Undefined THEN told[n]
                              ELSE IF open THEN "sure" ELSE "claimed"]
    /\ UNCHANGED <<server, token, refreshing, hidden, stream, open>>

\* The answer is lost, whether it was applied or not; nothing is refreshed.
MarkFails ==
    /\ Fault
    /\ mark # Idle
    /\ mark' = Idle
    /\ UNCHANGED <<stored, token, refreshing, hidden, stream, badge, list, open, blurred, told>>

-----------------------------------------------------------------------------
(* The notification service, on its own *)

\* A new one, pushed to every stream opened.
Arrives(n) ==
    /\ stored[n] = "absent"
    /\ stored' = [stored EXCEPT ![n] = "unread"]
    /\ wire' = [c \in Conns |-> IF conn[c] \in {"opening", "listening"}
                                THEN Append(wire[c], n) ELSE wire[c]]
    /\ blurred' = (blurred \/ badge.fetch \notin {Idle, Asked})
    /\ UNCHANGED <<token, refreshing, faults, hidden, conn, es, badge, list, open, mark, told>>

\* Read from another tab, or another device: nothing is pushed.
ReadElsewhere(n) ==
    /\ stored[n] = "unread"
    /\ stored' = [stored EXCEPT ![n] = "read"]
    /\ UNCHANGED <<token, refreshing, faults, hidden, stream, cache>>

-----------------------------------------------------------------------------
(* Specification *)

\* The page has just loaded: the count is asked for, and the stream.
Init ==
    /\ stored \in [Ids -> {"absent", "unread"}]
    /\ token = "valid" /\ refreshing = FALSE /\ faults = 0 /\ hidden = FALSE
    /\ conn = [c \in Conns |-> IF c = 1 THEN "asked" ELSE "none"]
    /\ wire = [c \in Conns |-> <<>>]
    /\ es = [cur |-> 1, live |-> TRUE, timer |-> FALSE, attached |-> TRUE, old |-> {}]
    /\ badge = [data |-> Undefined, fetch |-> Asked]
    /\ list = [data |-> Undefined, fetch |-> Idle, stale |-> FALSE]
    /\ open = FALSE /\ blurred = FALSE
    /\ mark = Idle
    /\ told = [n \in Ids |-> "nothing"]

Connection(c) == Opens(c) \/ Refused(c) \/ Closes(c) \/ Delivers(c)

Answers == BadgeAnswered \/ BadgeArrives \/ ListAnswered \/ ListArrives

Next ==
    /\ token # "none"
    /\ \/ \E c \in Conns : Connection(c) \/ Drops(c)
       \/ \E n \in Ids : Arrives(n) \/ ReadElsewhere(n) \/ MarkRead(n)
       \/ TimerFires \/ Hides \/ Shows
       \/ Expires \/ RequestRefused \/ RefreshSucceeds \/ RefreshFails
       \/ Answers \/ BadgeFails \/ ListFails \/ ListAges
       \/ Opened \/ Closed \/ MarkAllRead
       \/ MarkApplied \/ MarkSucceeds \/ MarkFails

Spec == Init /\ [][Next]_vars

\* Timers fire and requests are answered, one way or the other; the count's, in the end,
\* between two openings of the menu, each of which asks again.
FairSpec ==
    /\ Spec
    /\ \A c \in Conns : WF_vars(token # "none" /\ Connection(c))
    /\ WF_vars(token # "none" /\ TimerFires)
    /\ WF_vars(token # "none" /\ (BadgeAnswered \/ RequestRefused))
    /\ SF_vars(token # "none" /\ BadgeArrives)
    /\ WF_vars(token # "none" /\ (RefreshSucceeds \/ RefreshFails))

-----------------------------------------------------------------------------
(* Properties *)

\* The types; and what the parts take for granted of each other: a stream waits for the
\* count only while the count is under way, a disposed stream sets no timer, and neither
\* entry ever holds what the service does not.
BellTypeOK ==
    /\ stored \in [Ids -> {"absent", "unread", "read"}]
    /\ token \in {"valid", "expired", "none"} /\ refreshing \in BOOLEAN
    /\ faults \in 0 .. MaxFaults /\ hidden \in BOOLEAN /\ open \in BOOLEAN
    /\ conn \in [Conns -> {"none", "asked", "opening", "listening", "aborted"}]
    /\ \A c \in Conns : \A i \in DOMAIN wire[c] : stored[wire[c][i]] # "absent"
    /\ es.cur \in Conns /\ (es.timer => es.attached)
    /\ (\E c \in Conns : conn[c] \in {"opening", "aborted"}) => badge.fetch # Idle
    /\ badge.data \in Nat \cup {Undefined}
    /\ badge.fetch \in (0 .. Cardinality(Ids)) \cup {Idle, Asked}
    /\ list.data # Undefined => \A r \in list.data : r \in Rows /\ stored[r[1]] # "absent"
    /\ mark \in {Idle} \cup [of : Ids \cup {"all"}, at : {"asked", "applied"}]
    /\ blurred \in BOOLEAN /\ told \in [Ids -> {"nothing", "claimed", "sure"}]

\* "Each (re)connection reloads the unread count: it catches up on anything sent while the
\* stream was closed": while the latest stream is read, with nothing under way, the badge
\* counts every unread notification.  A failed count aside, and one sent between the
\* answer of a count and its arrival.
ListeningMissesNothing ==
    conn[es.cur] = "listening" /\ badge.fetch = Idle /\ ~blurred
        => Cardinality(Unread)
             <= badge.data + Cardinality({i \in DOMAIN wire[es.cur] :
                                            stored[wire[es.cur][i]] = "unread"})

\* A menu that stays open shows as read what this tab has marked as read, and whatever
\* else was read by then, once the list is back; whatever request was under way, but for
\* the very first, which is not sent again.
OpenListShowsMarks ==
    list.fetch = Idle => \A n \in Ids : told[n] = "sure" => <<n, FALSE>> \notin list.data

\* While the tab is shown and its user signed in, the stream is never down for good:
\* closed, refused or cut, hidden and shown again, it is opened again.
StreamComesBack == []<>(hidden \/ token = "none" \/ conn[es.cur] = "listening")

\* "Both mutations refresh the list and the badge": the list never shows again as unread
\* what was read before the mutation returned, unless it is pushed again (or the list was
\* still on its first load).
MutationsRefreshBoth ==
    open /\ list.fetch = Idle /\ list.data # Undefined
        => \A n \in Ids : told[n] # "nothing" => <<n, FALSE>> \notin list.data

=============================================================================
