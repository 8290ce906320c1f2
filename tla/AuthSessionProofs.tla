--------------------------- MODULE AuthSessionProofs ---------------------------
(***************************************************************************)
(* Theorems about AuthSession: its state is always well formed, the token  *)
(* and the cookie belong to one user once the handler of the answer that   *)
(* brought the cookie has run, and a parked request always has a refresh   *)
(* to await, for any users and any number of requests and calls under way. *)
(***************************************************************************)
EXTENDS AuthSession, TLAPS

-----------------------------------------------------------------------------
(* Calls under way when a newer token is stored, or the last one expires *)

Expired(x) == IF x.bearer \in {"live", "old"} THEN [x EXCEPT !.bearer = "expired"] ELSE x

\* A call keeps its shape whatever becomes of its bearer.
LEMMA FlightAges ==
    ASSUME NEW f \in Flights
    PROVE  /\ [f EXCEPT !.bearer = Older(@)] \in Flights
           /\ Expired(f) \in Flights
    BY DEF Flights, Bearers, Older, Expired

\* So does a request.
LEMMA RequestAges ==
    ASSUME NEW x \in RequestStates
    PROVE  /\ [x EXCEPT !.bearer = Older(@)] \in RequestStates
           /\ Expired(x) \in RequestStates
    BY DEF RequestStates, Bearers, Older, Expired


LEMMA Shapes ==
    /\ NotSent \in Flights
    /\ NewRequest \in RequestStates
    /\ NoToken \in Tokens
    /\ \A u \in Users : [user |-> u, state |-> "live"] \in Tokens
    BY DEF Flights, NotSent, RequestStates, NewRequest, Bearers, Tokens

LEMMA Calls == AuthCalls = {"provider", "app", "shared", "signin", "signout"}
    BY DEF AuthCalls, Refreshers

LEMMA TokenStates == ASSUME NEW t \in Tokens PROVE t.state \in Bearers
    BY DEF Tokens, NoToken, Bearers

-----------------------------------------------------------------------------
(* Types *)

\* What sends a call, and what handles an answer, leave the calls well formed.
LEMMA SendTyped ==
    ASSUME AuthTypeOK, NEW call \in AuthCalls
    PROVE  Send(call) \in [AuthCalls -> Flights]
<1>1. Now(call) \in Flights
    BY TokenStates DEF AuthTypeOK, Now, Flights
<1>2. QED
    BY <1>1 DEF AuthTypeOK, Send

LEMMA DoneTyped ==
    ASSUME AuthTypeOK, NEW call \in AuthCalls
    PROVE  /\ Done(call) \in [AuthCalls -> Flights]
           /\ [flight EXCEPT ![call] = NotSent] \in [AuthCalls -> Flights]
    BY FlightAges, Shapes DEF AuthTypeOK, Done

LEMMA RequestsTyped ==
    ASSUME AuthTypeOK
    PROVE  /\ OlderRequests \in [Requests -> RequestStates]
           /\ Replay \in [Requests -> RequestStates]
           /\ [r \in Requests |-> IF req[r].at = "waiting" THEN NewRequest ELSE OlderRequests[r]]
                \in [Requests -> RequestStates]
<1>1. OlderRequests \in [Requests -> RequestStates]
    BY RequestAges DEF AuthTypeOK, OlderRequests
<1>2. \A r \in Requests :
        [req[r] EXCEPT !.at = "sent", !.bearer = "live"] \in RequestStates
    BY DEF AuthTypeOK, RequestStates, Bearers
<1>3. QED
    BY <1>1, <1>2, Shapes DEF AuthTypeOK, Replay

\* What an answer waiting for its handler brings: a user but for a sign-out.
AnswersMakeSense ==
    \A call \in AuthCalls :
        HasAnswer(call) => (flight[call].cookie # Nobody <=> call # "signout")

LEMMA AnswersTyped ==
    ASSUME AuthTypeOK, NEW call \in AuthCalls, NEW u \in Users \cup {Nobody}, Answers(call, u)
    PROVE  AuthTypeOK'
<1>1. [at |-> "answered", cookie |-> u, bearer |-> "none"] \in Flights
    BY DEF Flights, Bearers
<1>2. QED
    BY <1>1 DEF AuthTypeOK, Answers

\* The store after a handler that writes it, and after one that clears it.
LEMMA StoresTyped ==
    ASSUME AuthTypeOK, NEW call \in AuthCalls, Stores(call), flight[call].cookie # Nobody
    PROVE  token' \in Tokens /\ newest' \in AuthCalls \cup {"handled", "missed"}
<1>1. flight[call].cookie \in Users
    BY DEF AuthTypeOK, Flights
<1>2. QED
    BY <1>1, Shapes DEF AuthTypeOK, Stores

LEMMA ClearsTyped ==
    ASSUME AuthTypeOK, NEW call \in AuthCalls, Clears(call)
    PROVE  token' \in Tokens /\ newest' \in AuthCalls \cup {"handled", "missed"}
    BY Shapes DEF AuthTypeOK, Clears

LEMMA TypeStep ==
    ASSUME AuthTypeOK, AnswersMakeSense, [Next]_vars
    PROVE  AuthTypeOK'
<1> USE DEF AuthTypeOK
<1>1. CASE Mounts
    BY <1>1, Calls, SendTyped DEF Mounts
<1>2. CASE AppRefreshes
    BY <1>2, Calls, SendTyped DEF AppRefreshes
<1>3. CASE AppDataStales
    BY <1>3 DEF AppDataStales
<1>4. CASE Reloads
    BY <1>4, Shapes DEF Reloads
<1>5. ASSUME NEW call \in {"provider", "app"}, LoaderAccepted(call) PROVE AuthTypeOK'
    <2>1. call \in AuthCalls /\ flight[call].cookie # Nobody
        BY <1>5, Calls DEF LoaderAccepted, AnswersMakeSense
    <2>2. QED
        BY <1>5, <2>1, StoresTyped, DoneTyped, RequestsTyped DEF LoaderAccepted
<1>6. CASE ProviderRefused
    BY <1>6, Calls, ClearsTyped, DoneTyped, RequestsTyped DEF ProviderRefused
<1>7. CASE AppRefused \/ SigninRefused \/ SignoutRefused
    BY <1>7, Calls, DoneTyped DEF AppRefused, SigninRefused, SignoutRefused, GivesUp
<1>8. CASE SharedAccepted
    <2>1. "shared" \in AuthCalls /\ flight["shared"].cookie # Nobody
        BY <1>8, Calls DEF SharedAccepted, AnswersMakeSense
    <2>2. QED
        BY <1>8, <2>1, StoresTyped, DoneTyped, RequestsTyped DEF SharedAccepted
<1>9. CASE SharedRefused
    BY <1>9, Calls, ClearsTyped, DoneTyped, RequestsTyped DEF SharedRefused
<1>10. CASE SignsIn \/ SignsOut
    BY <1>10, Calls, SendTyped DEF SignsIn, SignsOut
<1>11. CASE SigninAccepted
    <2>1. "signin" \in AuthCalls /\ flight["signin"].cookie # Nobody
        BY <1>11, Calls DEF SigninAccepted, AnswersMakeSense
    <2>2. [at |-> "sent", cookie |-> cookie, bearer |-> "live"] \in Flights
        BY DEF Flights, Bearers
    <2>3. flight' \in [AuthCalls -> Flights]
        BY <1>11, <2>1, <2>2, DoneTyped DEF SigninAccepted
    <2>4. appMay' \in BOOLEAN
        BY <1>11 DEF SigninAccepted
    <2>5. QED
        BY <1>11, <2>1, <2>3, <2>4, StoresTyped, RequestsTyped DEF SigninAccepted
<1>12. CASE SignoutAccepted
    BY <1>12, Calls, ClearsTyped, DoneTyped, RequestsTyped DEF SignoutAccepted
<1>13. ASSUME NEW r \in Requests, Sends(r) \/ Succeeds(r) \/ Fails(r) PROVE AuthTypeOK'
    <2>1. [NewRequest EXCEPT !.at = "sent", !.bearer = token.state] \in RequestStates
        BY TokenStates DEF NewRequest, RequestStates
    <2>2. QED
        BY <1>13, <2>1, Shapes DEF Sends, Succeeds, Fails
<1>14. ASSUME NEW r \in Requests, Waits(r) PROVE AuthTypeOK'
    <2>1. [req[r] EXCEPT !.at = "waiting", !.retried = TRUE] \in RequestStates
        BY DEF RequestStates
    <2>2. req' \in [Requests -> RequestStates]
        BY <1>14, <2>1 DEF Waits
    <2>3. QED
        BY <1>14, <2>2, Calls, SendTyped DEF Waits, JoinsRefresh
<1>15. CASE StreamRefreshes
    BY <1>15, Calls, SendTyped DEF StreamRefreshes, JoinsRefresh
<1>16. CASE Expires
    <2>1. token' \in Tokens
        BY <1>16 DEF Expires, Tokens, NoToken
    <2>2. flight' = [c \in AuthCalls |-> Expired(flight[c])] /\ req' = [r \in Requests |-> Expired(req[r])]
        BY <1>16 DEF Expires, Expired
    <2>3. flight' \in [AuthCalls -> Flights] /\ req' \in [Requests -> RequestStates]
        BY <2>2, FlightAges, RequestAges
    <2>4. UNCHANGED <<page, cookie, appMay, newest>>
        BY <1>16 DEF Expires
    <2>5. QED
        BY <2>1, <2>3, <2>4
<1>17. CASE \E call \in Refreshers : RefreshAnswered(call)
    BY <1>17, AnswersTyped DEF RefreshAnswered, AuthCalls, Flights
<1>18. CASE SignoutAnswered \/ \E u \in Users : SigninAnswered(u)
    BY <1>18, AnswersTyped, Calls DEF SignoutAnswered, SigninAnswered
<1>19. CASE UNCHANGED vars
    BY <1>19 DEF vars
<1>20. QED
    BY <1>1, <1>2, <1>3, <1>4, <1>5, <1>6, <1>7, <1>8, <1>9, <1>10, <1>11, <1>12, <1>13, <1>14,
       <1>15, <1>16, <1>17, <1>18, <1>19 DEF Next

-----------------------------------------------------------------------------
(* What a step does to the answers that wait for their handlers *)

\* Of all calls but some, the same ones have an answer waiting, and the same answer.
AnswersKept(but) ==
    \A c \in AuthCalls \ but :
        /\ HasAnswer(c) <=> flight'[c].at = "answered"
        /\ HasAnswer(c) => flight'[c].cookie = flight[c].cookie

Ends(call) ==
    /\ flight'[call].at = "idle"
    /\ AnswersKept({call})
    /\ UNCHANGED cookie

LEMMA SendKeeps ==
    ASSUME AuthTypeOK, NEW call \in AuthCalls, ~InFlight(call), flight' = Send(call)
    PROVE  AnswersKept({})
<1>1. \A c \in AuthCalls \ {call} : flight'[c] = flight[c]
    BY DEF AuthTypeOK, Send
<1>2. flight'[call].at = "sent" /\ flight[call].at = "idle"
    BY DEF AuthTypeOK, Send, Now, InFlight
<1>3. QED
    BY <1>1, <1>2 DEF AnswersKept, HasAnswer

LEMMA DoneKeeps ==
    ASSUME AuthTypeOK, NEW call \in AuthCalls
    PROVE  /\ \A c \in AuthCalls \ {call} :
                Done(call)[c].at = flight[c].at /\ Done(call)[c].cookie = flight[c].cookie
           /\ Done(call)[call].at = "idle"
<1>1. ASSUME NEW c \in AuthCalls \ {call}
      PROVE Done(call)[c].at = flight[c].at /\ Done(call)[c].cookie = flight[c].cookie
    BY DEF AuthTypeOK, Flights, Done
<1>2. QED
    BY <1>1 DEF Done, NotSent

LEMMA DoneEnds ==
    ASSUME AuthTypeOK, NEW call \in AuthCalls, flight' = Done(call), UNCHANGED cookie
    PROVE  Ends(call)
    BY DoneKeeps DEF Ends, AnswersKept, HasAnswer

LEMMA GivesUpEnds ==
    ASSUME AuthTypeOK, NEW call \in AuthCalls, GivesUp(call)
    PROVE  Ends(call)
    BY DEF AuthTypeOK, GivesUp, Ends, AnswersKept, HasAnswer, NotSent

LEMMA SigninEnds == ASSUME AuthTypeOK, SigninAccepted PROVE Ends("signin")
<1>1. "signin" \in AuthCalls /\ "app" \in AuthCalls \ {"signin"}
    BY Calls
<1>2. CASE flight' = Done("signin")
    BY <1>1, <1>2, DoneEnds DEF SigninAccepted
<1>3. CASE /\ ~InFlight("app")
           /\ flight' = [Done("signin") EXCEPT
                !["app"] = [at |-> "sent", cookie |-> cookie, bearer |-> "live"]]
    <2>1. Done("signin") \in [AuthCalls -> Flights]
        BY <1>1, DoneTyped
    <2>2. \A c \in AuthCalls \ {"app"} : flight'[c] = Done("signin")[c]
        BY <1>1, <1>3, <2>1
    <2>3. flight'["app"].at = "sent" /\ flight["app"].at = "idle"
        BY <1>1, <1>3, <2>1 DEF InFlight
    <2>4. QED
        BY <1>1, <2>2, <2>3, DoneKeeps DEF Ends, AnswersKept, HasAnswer, SigninAccepted
<1>4. QED
    BY <1>2, <1>3 DEF SigninAccepted

\* Before React mounts nothing is under way.
LoadingIsQuiet ==
    page = "loading" => /\ \A call \in AuthCalls : ~InFlight(call)
                        /\ \A r \in Requests : req[r].at = "idle"

LEMMA LoadingStep ==
    ASSUME AuthTypeOK, LoadingIsQuiet, [Next]_vars
    PROVE  LoadingIsQuiet'
<1>1. CASE Reloads
    BY <1>1 DEF Reloads, LoadingIsQuiet, InFlight, NotSent, NewRequest
<1>2. CASE page' = "live" \/ page' = "leaving"
    BY <1>2 DEF LoadingIsQuiet
<1>3. CASE page # "loading" /\ UNCHANGED page
    BY <1>3 DEF LoadingIsQuiet
<1>4. CASE UNCHANGED <<page, flight, req>>
    BY <1>4 DEF LoadingIsQuiet, InFlight
<1>5. CASE Expires
    <2>1. /\ UNCHANGED page
          /\ flight' = [c \in AuthCalls |-> Expired(flight[c])]
          /\ req' = [r \in Requests |-> Expired(req[r])]
        BY <1>5 DEF Expires, Expired
    <2>2. \A c \in AuthCalls : flight'[c].at = flight[c].at
        BY <2>1 DEF AuthTypeOK, Flights, Expired
    <2>3. \A r \in Requests : req'[r].at = req[r].at
        BY <2>1 DEF AuthTypeOK, RequestStates, Expired
    <2>4. QED
        BY <2>1, <2>2, <2>3 DEF LoadingIsQuiet, InFlight
<1>6. ASSUME page = "loading"
      PROVE  /\ \A call \in AuthCalls : ~HasAnswer(call) /\ ~Accepted(call) /\ ~Refused(call)
             /\ \A r \in Requests : req[r].at # "sent"
             /\ ~Running
    BY <1>6 DEF LoadingIsQuiet, InFlight, HasAnswer, Accepted, Refused, Running
<1>7. CASE AppRefreshes \/ StreamRefreshes \/ SignsIn \/ SignsOut
    BY <1>3, <1>6, <1>7 DEF AppRefreshes, StreamRefreshes, SignsIn, SignsOut
<1>8. CASE \E r \in Requests : Sends(r) \/ Succeeds(r) \/ Fails(r) \/ Waits(r)
    BY <1>3, <1>6, <1>8 DEF Sends, Succeeds, Fails, Waits
<1>9. CASE \/ LoaderAccepted("provider") \/ LoaderAccepted("app") \/ SharedAccepted
           \/ SigninAccepted \/ ProviderRefused \/ AppRefused \/ SigninRefused
           \/ SignoutRefused
    BY <1>3, <1>6, <1>9, Calls DEF LoaderAccepted, SharedAccepted, SigninAccepted,
        ProviderRefused, AppRefused, SigninRefused, SignoutRefused, GivesUp
<1>10. CASE \/ \E call \in Refreshers : RefreshAnswered(call)
            \/ SignoutAnswered \/ \E u \in Users : SigninAnswered(u)
    BY <1>3, <1>6, <1>10 DEF RefreshAnswered, SignoutAnswered, SigninAnswered, Answers, AuthCalls
<1>11. QED
    BY <1>1, <1>2, <1>4, <1>5, <1>7, <1>8, <1>9, <1>10
        DEF Next, Mounts, AppDataStales, SharedRefused, SignoutAccepted, vars

\* The kinds of steps, as the session sees them: the browser applies an answer, a handler
\* writes or clears the store or gives up, the page goes, or none of these.
Delivers == \E call \in AuthCalls, u \in Users \cup {Nobody} :
    Answers(call, u) /\ (u # Nobody <=> call # "signout")

Writes == \E call \in AuthCalls : HasAnswer(call) /\ Stores(call) /\ Ends(call)

Empties == \E call \in AuthCalls : Clears(call) /\ Ends(call)

Abandons == \E call \in AuthCalls : GivesUp(call) /\ Ends(call)

KeepsSession ==
    /\ UNCHANGED <<cookie, newest>>
    /\ token' = token \/ (token # NoToken /\ token'.user = token.user)
    /\ AnswersKept({})

LEMMA StepKinds ==
    ASSUME AuthTypeOK, LoadingIsQuiet, [Next]_vars
    PROVE  Delivers \/ Writes \/ Empties \/ Abandons \/ Reloads \/ KeepsSession
<1>1. ASSUME NEW call \in Refreshers, RefreshAnswered(call) PROVE Delivers
    <2>1. call \in AuthCalls /\ call # "signout"
        BY <1>1 DEF AuthCalls, Refreshers
    <2>2. flight[call].cookie \in Users
        BY <1>1, <2>1 DEF AuthTypeOK, Flights, RefreshAnswered
    <2>3. QED
        BY <1>1, <2>1, <2>2 DEF RefreshAnswered, Delivers
<1>2. CASE SignoutAnswered \/ \E u \in Users : SigninAnswered(u)
    BY <1>2, Calls, NobodyAssumption DEF SignoutAnswered, SigninAnswered, Delivers
<1>3. CASE LoaderAccepted("provider") \/ LoaderAccepted("app") \/ SharedAccepted
    BY <1>3, Calls, DoneEnds DEF LoaderAccepted, SharedAccepted, Writes
<1>4. CASE SigninAccepted
    <2>1. Ends("signin")
        BY <1>4, SigninEnds
    <2>2. QED
        BY <1>4, <2>1, Calls DEF SigninAccepted, Writes
<1>5. CASE ProviderRefused \/ SharedRefused \/ SignoutAccepted
    BY <1>5, Calls, DoneEnds DEF ProviderRefused, SharedRefused, SignoutAccepted, Empties
<1>6. CASE AppRefused \/ SigninRefused \/ SignoutRefused
    BY <1>6, Calls, GivesUpEnds DEF AppRefused, SigninRefused, SignoutRefused, Abandons
<1>7. ASSUME UNCHANGED <<cookie, newest, token, flight>> PROVE KeepsSession
    BY <1>7 DEF KeepsSession, AnswersKept, HasAnswer
<1>8. CASE \/ AppDataStales \/ UNCHANGED vars
           \/ \E r \in Requests : Sends(r) \/ Succeeds(r) \/ Fails(r)
    BY <1>7, <1>8 DEF AppDataStales, Sends, Succeeds, Fails, vars
<1>9. ASSUME NEW call \in AuthCalls, flight' = Send(call), ~InFlight(call),
             UNCHANGED <<cookie, newest, token>>
      PROVE KeepsSession
    BY <1>9, SendKeeps DEF KeepsSession
<1>10. CASE AppRefreshes \/ SignsIn \/ SignsOut
    BY <1>9, <1>10, Calls DEF AppRefreshes, SignsIn, SignsOut
<1>11. CASE StreamRefreshes \/ \E r \in Requests : Waits(r)
    BY <1>7, <1>9, <1>11, Calls DEF StreamRefreshes, Waits, JoinsRefresh
<1>12. CASE Expires
    <2>1. /\ UNCHANGED <<cookie, newest>>
          /\ flight' = [c \in AuthCalls |-> Expired(flight[c])]
          /\ token # NoToken /\ token' = [token EXCEPT !.state = "expired"]
        BY <1>12 DEF Expires, Expired, NoToken
    <2>2. token'.user = token.user
        BY <2>1 DEF AuthTypeOK, Tokens, NoToken
    <2>3. \A c \in AuthCalls :
            flight'[c].at = flight[c].at /\ flight'[c].cookie = flight[c].cookie
        BY <2>1 DEF AuthTypeOK, Flights, Expired
    <2>4. QED
        BY <2>1, <2>2, <2>3 DEF KeepsSession, AnswersKept, HasAnswer
<1>13. CASE Mounts
    BY <1>9, <1>13, Calls DEF Mounts, LoadingIsQuiet
<1>14. QED
    BY <1>1, <1>2, <1>3, <1>4, <1>5, <1>6, <1>8, <1>10, <1>11, <1>12, <1>13 DEF Next

-----------------------------------------------------------------------------
(* One session *)

\* The newest answer, until it is handled, brings the user the cookie belongs to.
NewestIsCookie ==
    newest \in AuthCalls => HasAnswer(newest) /\ flight[newest].cookie = cookie

SessionInv ==
    /\ AuthTypeOK
    /\ LoadingIsQuiet
    /\ AnswersMakeSense
    /\ NewestIsCookie
    /\ TokenMatchesCookie

LEMMA Endings == "handled" \notin AuthCalls /\ "missed" \notin AuthCalls
    BY Calls

LEMMA SessionStep == ASSUME SessionInv, [Next]_vars PROVE SessionInv'
<1> USE DEF SessionInv
<1>1. AuthTypeOK' /\ LoadingIsQuiet'
    BY TypeStep, LoadingStep
<1>2. ASSUME Delivers
      PROVE  AnswersMakeSense' /\ NewestIsCookie' /\ TokenMatchesCookie'
    <2>1. PICK call \in AuthCalls, u \in Users \cup {Nobody} :
            Answers(call, u) /\ (u # Nobody <=> call # "signout")
        BY <1>2 DEF Delivers
    <2>2. flight'[call].at = "answered" /\ flight'[call].cookie = u
        BY <2>1 DEF AuthTypeOK, Answers
    <2>3. \A c \in AuthCalls \ {call} : flight'[c] = flight[c]
        BY <2>1 DEF AuthTypeOK, Answers
    <2>4. newest' = call /\ cookie' = u
        BY <2>1 DEF Answers
    <2>5. QED
        BY <2>1, <2>2, <2>3, <2>4, Endings
            DEF AnswersMakeSense, NewestIsCookie, TokenMatchesCookie, HasAnswer
<1>3. ASSUME NEW call \in AuthCalls, Ends(call)
      PROVE  /\ AnswersMakeSense'
             /\ newest' \notin AuthCalls \/ (newest' = newest /\ newest # call) => NewestIsCookie'
    BY <1>3 DEF Ends, AnswersKept, AnswersMakeSense, NewestIsCookie, HasAnswer
<1>4. ASSUME Writes
      PROVE  AnswersMakeSense' /\ NewestIsCookie' /\ TokenMatchesCookie'
    <2>1. PICK call \in AuthCalls : HasAnswer(call) /\ Stores(call) /\ Ends(call)
        BY <1>4 DEF Writes
    <2>2. cookie' = cookie
        BY <2>1 DEF Ends
    <2>3. CASE newest = call
        BY <1>3, <2>1, <2>2, <2>3, Endings DEF Stores, NewestIsCookie, TokenMatchesCookie
    <2>4. CASE newest # call
        BY <1>3, <2>1, <2>4, Endings DEF Stores, TokenMatchesCookie
    <2>5. QED
        BY <2>3, <2>4
<1>5. ASSUME Empties
      PROVE  AnswersMakeSense' /\ NewestIsCookie' /\ TokenMatchesCookie'
    BY <1>3, <1>5, Endings DEF Empties, Clears, TokenMatchesCookie
<1>6. ASSUME Abandons
      PROVE  AnswersMakeSense' /\ NewestIsCookie' /\ TokenMatchesCookie'
    BY <1>3, <1>6, Endings DEF Abandons, GivesUp, TokenMatchesCookie
<1>7. CASE Reloads
    BY <1>1, <1>7, Endings
        DEF Reloads, AnswersMakeSense, NewestIsCookie, TokenMatchesCookie, HasAnswer, NotSent
<1>8. CASE KeepsSession
    BY <1>1, <1>8
        DEF KeepsSession, AnswersKept, AnswersMakeSense, NewestIsCookie, TokenMatchesCookie, HasAnswer
<1>9. QED
    BY <1>1, <1>2, <1>4, <1>5, <1>6, <1>7, <1>8, StepKinds

LEMMA SessionHolds == Spec => []SessionInv
<1>1. Init => SessionInv
    BY Shapes, Endings DEF Init, SessionInv, AuthTypeOK, LoadingIsQuiet, InFlight,
        AnswersMakeSense, NewestIsCookie, TokenMatchesCookie, HasAnswer, NotSent, NewRequest
<1>2. SessionInv /\ [Next]_vars => SessionInv'
    BY SessionStep
<1>3. QED
    BY <1>1, <1>2, PTL DEF Spec

\* The store, the cookie, the calls and the requests keep their shapes (AuthSession.tla:
\* what the front's store and the interceptor's parked requests hold).
THEOREM AuthTypeCorrect == Spec => []AuthTypeOK
<1>1. SessionInv => AuthTypeOK
    BY DEF SessionInv
<1>2. QED
    BY <1>1, SessionHolds, PTL

\* However the cookies the browser applies and the handlers that write the store interleave,
\* the page acts as the user its cookie would restore once the handler of the newest answer
\* has run and until an older one runs after it (auth.provider.tsx, App.tsx, axios-client.ts,
\* use_auth.service.tsx).
THEOREM TokenMatchesCookieHolds == Spec => []TokenMatchesCookie
<1>1. SessionInv => TokenMatchesCookie
    BY DEF SessionInv
<1>2. QED
    BY <1>1, SessionHolds, PTL

-----------------------------------------------------------------------------
(* Parked requests *)

\* A request that awaits the shared refresh has one under way to await.
ParkedIsAwaited == \A r \in Requests : req[r].at = "waiting" => InFlight("shared")

\* The places of the requests after an answer, and after the last token expired.
LEMMA RequestsStayWhere ==
    ASSUME AuthTypeOK, NEW r \in Requests
    PROVE  /\ OlderRequests[r].at = req[r].at
           /\ Replay[r].at # "waiting"
           /\ Expired(req[r]).at = req[r].at
    BY DEF AuthTypeOK, RequestStates, OlderRequests, Replay, Expired

\* A step that does not end the shared refresh keeps it under way.
SharedKept == InFlight("shared") => flight'["shared"].at # "idle"

LEMMA SendStarts ==
    ASSUME AuthTypeOK, NEW call \in AuthCalls, flight' = Send(call)
    PROVE  flight'[call].at = "sent" /\ SharedKept
<1>1. flight'[call] = Now(call) /\ \A c \in AuthCalls \ {call} : flight'[c] = flight[c]
    BY DEF AuthTypeOK, Send
<1>2. QED
    BY <1>1, Calls DEF Now, SharedKept, InFlight

LEMMA OthersKeepShared ==
    ASSUME AuthTypeOK, [Next]_vars, ~Reloads, ~SharedAccepted, ~SharedRefused
    PROVE  SharedKept
<1> USE DEF SharedKept, InFlight
<1>1. ASSUME NEW call \in AuthCalls \ {"shared"}, flight' = Done(call) PROVE SharedKept
    BY <1>1, DoneKeeps, Calls
<1>2. ASSUME NEW call \in AuthCalls, GivesUp(call), call # "shared" PROVE SharedKept
    BY <1>2, Calls DEF AuthTypeOK, GivesUp
<1>3. ASSUME NEW call \in AuthCalls, NEW u, Answers(call, u) PROVE SharedKept
    BY <1>3, Calls DEF AuthTypeOK, Answers
<1>4. CASE Mounts \/ AppRefreshes \/ SignsIn \/ SignsOut
    BY <1>4, SendStarts, Calls DEF Mounts, AppRefreshes, SignsIn, SignsOut
<1>5. CASE StreamRefreshes \/ \E r \in Requests : Waits(r)
    BY <1>5, SendStarts, Calls DEF StreamRefreshes, Waits, JoinsRefresh
<1>6. CASE \/ LoaderAccepted("provider") \/ LoaderAccepted("app") \/ ProviderRefused
           \/ SignoutAccepted
    BY <1>1, <1>6, Calls DEF LoaderAccepted, ProviderRefused, SignoutAccepted
<1>7. CASE AppRefused \/ SigninRefused \/ SignoutRefused
    BY <1>2, <1>7, Calls DEF AppRefused, SigninRefused, SignoutRefused
<1>8. CASE \/ \E call \in Refreshers : RefreshAnswered(call)
           \/ SignoutAnswered \/ \E u \in Users : SigninAnswered(u)
    BY <1>3, <1>8, Calls DEF RefreshAnswered, SignoutAnswered, SigninAnswered, AuthCalls
<1>9. CASE SigninAccepted
    <2>1. "signin" \in AuthCalls /\ "shared" \in AuthCalls \ {"signin"}
        BY Calls
    <2>2. Done("signin") \in [AuthCalls -> Flights]
        BY <2>1, DoneTyped
    <2>3. flight'["shared"] = Done("signin")["shared"]
        BY <1>9, <2>1, <2>2 DEF SigninAccepted
    <2>4. QED
        BY <2>1, <2>3, DoneKeeps
<1>10. CASE Expires
    <2>1. flight'["shared"] = Expired(flight["shared"])
        BY <1>10, Calls DEF Expires, Expired
    <2>2. QED
        BY <2>1, Calls DEF AuthTypeOK, Flights, Expired
<1>11. CASE \/ AppDataStales \/ UNCHANGED vars
            \/ \E r \in Requests : Sends(r) \/ Succeeds(r) \/ Fails(r)
    BY <1>11 DEF AppDataStales, Sends, Succeeds, Fails, vars
<1>12. QED
    BY <1>4, <1>5, <1>6, <1>7, <1>8, <1>9, <1>10, <1>11 DEF Next

LEMMA ParkedStep == ASSUME AuthTypeOK, ParkedIsAwaited, [Next]_vars PROVE ParkedIsAwaited'
<1> USE DEF ParkedIsAwaited, InFlight
<1>1. CASE Reloads
    BY <1>1 DEF Reloads, NewRequest
<1>2. CASE SharedAccepted
    BY <1>2, RequestsStayWhere DEF SharedAccepted
<1>3. CASE SharedRefused
    BY <1>3, RequestsStayWhere DEF SharedRefused, NewRequest
<1>4. CASE StreamRefreshes \/ \E r \in Requests : Waits(r)
    BY <1>4, SendStarts, Calls DEF StreamRefreshes, Waits, JoinsRefresh
<1> DEFINE Stay == \A r \in Requests : req'[r].at = "waiting" => req[r].at = "waiting"
<1>5. ASSUME SharedKept, Stay PROVE ParkedIsAwaited'
    BY <1>5 DEF SharedKept
<1>6. ASSUME req' = OlderRequests \/ UNCHANGED req PROVE Stay
    BY <1>6, RequestsStayWhere
<1>7. ASSUME NEW r \in Requests, Sends(r) \/ Succeeds(r) \/ Fails(r) PROVE Stay
    <2>1. \A x \in Requests \ {r} : req'[x] = req[x]
        BY <1>7 DEF AuthTypeOK, Sends, Succeeds, Fails
    <2>2. NewRequest.at # "waiting" /\ [NewRequest EXCEPT !.at = "sent", !.bearer = token.state].at # "waiting"
        BY DEF NewRequest
    <2>3. req'[r].at # "waiting"
        BY <1>7, <2>2 DEF AuthTypeOK, Sends, Succeeds, Fails
    <2>4. QED
        BY <2>1, <2>3
<1>8. ASSUME Expires PROVE Stay
    <2>1. req' = [r \in Requests |-> Expired(req[r])]
        BY <1>8 DEF Expires, Expired
    <2>2. QED
        BY <2>1, RequestsStayWhere
<1>9. ASSUME ~Reloads, ~SharedAccepted, ~SharedRefused, ~StreamRefreshes,
             ~\E r \in Requests : Waits(r)
      PROVE  Stay
    <2>1. CASE Expires \/ \E r \in Requests : Sends(r) \/ Succeeds(r) \/ Fails(r)
        BY <1>7, <1>8, <2>1
    <2>2. CASE ~Expires /\ ~\E r \in Requests : Sends(r) \/ Succeeds(r) \/ Fails(r)
        <3>1. req' = OlderRequests \/ UNCHANGED req
            BY <1>9, <2>2 DEF Next, Mounts, AppRefreshes, AppDataStales, LoaderAccepted,
                ProviderRefused, AppRefused, SignsIn, SigninRefused, SignsOut, SignoutAccepted,
                SignoutRefused, SigninAccepted, RefreshAnswered, SignoutAnswered, SigninAnswered,
                Answers, GivesUp, vars
        <3>2. QED
            BY <1>6, <3>1
    <2>3. QED
        BY <2>1, <2>2
<1>10. QED
    BY <1>1, <1>2, <1>3, <1>4, <1>5, <1>9, OthersKeepShared

\* Whoever refreshes, signs in or out meanwhile, no request is left parked on a refresh that
\* nobody answers: the safety half of EveryRequestSettles (axios-client.ts, refreshPromise).
THEOREM ParkedIsAlwaysAwaited == Spec => []ParkedIsAwaited
<1>1. Init => ParkedIsAwaited
    BY DEF Init, ParkedIsAwaited, NewRequest
<1>2. AuthTypeOK /\ ParkedIsAwaited /\ [Next]_vars => ParkedIsAwaited'
    BY ParkedStep
<1>3. QED
    BY <1>1, <1>2, AuthTypeCorrect, PTL DEF Spec

=============================================================================
