------------------------------ MODULE AuthSession ------------------------------
(***************************************************************************)
(* The session of one browser tab: the access token the front keeps in     *)
(* memory, the refresh cookie, and everyone who changes either of them:    *)
(* AuthProvider and App when the page loads, refreshAccessToken on behalf  *)
(* of the requests that got a 401, the sign-in and sign-out pages.         *)
(*                                                                         *)
(* A call is sent with the cookie and the bearer of that moment.  Its      *)
(* answer takes two steps: the browser applies the Set-Cookie of the       *)
(* headers, and later JavaScript runs the handler, without interruption,   *)
(* which writes the store.  Between the two anything may happen: other     *)
(* calls leave, other answers arrive and are handled first, the body is    *)
(* lost, the page is left.  The gateway keeps no session of its own:       *)
(* AuthGuard verifies the bearer, on public routes too, and ms-auth, which *)
(* is external, accepts or refuses the cookie.                             *)
(***************************************************************************)
EXTENDS Naturals, FiniteSets

CONSTANTS
    Users,
    Nobody,        \* no cookie, no token
    Requests,      \* the page's other calls, each made again and again
    UpstreamFails, \* whether ms-auth and the network may fail
    MaxCalls       \* bound: the auth calls under way when the page or the user adds one

ASSUME NobodyAssumption == Nobody \notin Users
ASSUME UpstreamAssumption == UpstreamFails \in BOOLEAN
ASSUME MaxCallsAssumption == MaxCalls \in Nat

VARIABLES
    page,    \* "loading" until React mounts, "live", "leaving" once href is assigned
    cookie,  \* whose refresh token the browser holds
    token,   \* the store's access token
    appMay,  \* App's refresh query is stale: it is fetched when there is no token
    flight,  \* the auth calls awaiting an answer
    req,     \* the other requests
    newest   \* history: what became of the answer that changed the cookie last

vars == <<page, cookie, token, appMay, flight, req, newest>>

-----------------------------------------------------------------------------
(* Tokens and calls *)

\* The access token in the header of a call: "old" once the store holds a newer one, when
\* it may or may not have expired (tokens expire in the order they were issued).
Bearers == {"none", "live", "old", "expired"}

NoToken == [user |-> Nobody, state |-> "none"]

Tokens == {NoToken} \cup [user : Users, state : {"live", "expired"}]

Refreshers == {"provider", "app", "shared"}

AuthCalls == Refreshers \cup {"signin", "signout"}

NotSent == [at |-> "idle", cookie |-> Nobody, bearer |-> "none"]

\* "answered": the browser has the headers, the handler has yet to run.  Then cookie is the
\* user whose refresh token came back.
Flights == [at : {"idle", "sent", "answered"}, cookie : Users \cup {Nobody}, bearer : Bearers]

NewRequest == [at |-> "idle", bearer |-> "none", retried |-> FALSE]

RequestStates ==
    [at : {"idle", "sent", "waiting"}, bearer : Bearers, retried : BOOLEAN]

AuthTypeOK ==
    /\ page \in {"loading", "live", "leaving"}
    /\ cookie \in Users \cup {Nobody}
    /\ token \in Tokens
    /\ appMay \in BOOLEAN
    /\ flight \in [AuthCalls -> Flights]
    /\ req \in [Requests -> RequestStates]
    /\ newest \in AuthCalls \cup {"handled", "missed"}

Running == page \in {"live", "leaving"}

\* The request interceptor puts the store's token on every call, auth routes included.
\* Every call takes the cookie along; only a refresh depends on whose it is.
Now(call) ==
    [at |-> "sent", cookie |-> IF call \in Refreshers THEN cookie ELSE Nobody,
     bearer |-> token.state]

Send(call) == [flight EXCEPT ![call] = Now(call)]

InFlight(call) == flight[call].at # "idle"

HasRoom == Cardinality({call \in AuthCalls : InFlight(call)}) < MaxCalls

HasAnswer(call) == flight[call].at = "answered"

\* AuthGuard lets the call through to its handler, and no one after it refuses.
Accepted(call) ==
    /\ flight[call].at = "sent"
    /\ flight[call].bearer # "expired"

\* AuthGuard answers 401 to a token that has expired, on public routes too; refresh answers
\* 401 without a cookie; ms-auth refuses the session or the password; or something fails, as
\* late as in the body of an answer whose headers have been applied.
Refused(call) ==
    \/ InFlight(call) /\ UpstreamFails
    \/ /\ flight[call].at = "sent"
       /\ \/ flight[call].bearer \in {"old", "expired"}
          \/ call \in Refreshers /\ flight[call].cookie = Nobody
          \/ call = "signin"

Older(bearer) == IF bearer = "live" THEN "old" ELSE bearer

\* Calls under way keep the token they left with.
OlderRequests == [r \in Requests |-> [req[r] EXCEPT !.bearer = Older(@)]]

\* The call is over and a newer token stored, or none left.
Done(call) ==
    [c \in AuthCalls |->
        IF c = call THEN NotSent ELSE [flight[c] EXCEPT !.bearer = Older(@)]]

-----------------------------------------------------------------------------
(* Loading the page *)

\* The first effects: App's reads localStorage, where nothing is ever stored, and marks the
\* store initialized; AuthProvider's sends its own refresh.
Mounts ==
    /\ page = "loading"
    /\ page' = "live"
    /\ flight' = Send("provider")
    /\ UNCHANGED <<cookie, token, appMay, req, newest>>

\* useRefreshToken is enabled while there is no token.
AppRefreshes ==
    /\ Running
    /\ token = NoToken
    /\ appMay
    /\ ~InFlight("app")
    /\ HasRoom
    /\ appMay' = FALSE
    /\ flight' = Send("app")
    /\ UNCHANGED <<page, cookie, token, req, newest>>

\* Its data grows stale while the query is disabled.
AppDataStales ==
    /\ token # NoToken
    /\ ~appMay
    /\ appMay' = TRUE
    /\ UNCHANGED <<page, cookie, token, flight, req, newest>>

\* The page is left, by href or by the user: memory goes, the cookie stays.
Reloads ==
    /\ Running
    /\ page' = "loading"
    /\ token' = NoToken
    /\ appMay' = TRUE
    /\ flight' = [c \in AuthCalls |-> NotSent]
    /\ req' = [r \in Requests |-> NewRequest]
    /\ newest' = "handled"
    /\ UNCHANGED cookie

-----------------------------------------------------------------------------
(* Answers to the auth calls: what the browser does with them *)

\* Set-Cookie, or clearCookie
Answers(call, u) ==
    /\ Accepted(call)
    /\ cookie' = u
    /\ flight' = [flight EXCEPT ![call] = [at |-> "answered", cookie |-> u, bearer |-> "none"]]
    /\ newest' = call
    /\ UNCHANGED <<page, token, appMay, req>>

\* A refresh restores whoever the cookie it was sent with belongs to.
RefreshAnswered(call) ==
    /\ flight[call].cookie # Nobody
    /\ Answers(call, flight[call].cookie)

SigninAnswered(u) == Answers("signin", u)

SignoutAnswered == Answers("signout", Nobody)

-----------------------------------------------------------------------------
(* Answers to the auth calls: their handlers *)

\* setAccessToken with the token of the answer
Stores(call) ==
    /\ token' = [user |-> flight[call].cookie, state |-> "live"]
    /\ newest' = IF newest = call THEN "handled"
                 ELSE IF newest = "handled" THEN "missed" ELSE newest

\* clearAuth
Clears(call) ==
    /\ token' = NoToken
    /\ newest' = IF newest \in {call, "missed"} THEN "handled" ELSE newest

\* The call failed and its handler leaves the store alone.
GivesUp(call) ==
    /\ flight' = [flight EXCEPT ![call] = NotSent]
    /\ newest' = IF newest = call THEN "missed" ELSE newest
    /\ UNCHANGED <<page, cookie, token, req>>

\* restoreSession of AuthProvider, or App's query
LoaderAccepted(call) ==
    /\ HasAnswer(call)
    /\ Stores(call)
    /\ flight' = Done(call)
    /\ req' = OlderRequests
    /\ UNCHANGED <<page, cookie, appMay>>

\* The catch of restoreSession clears the store.
ProviderRefused ==
    /\ Refused("provider")
    /\ Clears("provider")
    /\ flight' = Done("provider")
    /\ req' = OlderRequests
    /\ UNCHANGED <<page, cookie, appMay>>

AppRefused ==
    /\ Refused("app")
    /\ GivesUp("app")
    /\ UNCHANGED appMay

\* Variant: `Bearer ${undefined}`, the token read off the wrong field.
ReplayUndefined == [r \in Requests |->
    IF req[r].at = "waiting" THEN [req[r] EXCEPT !.at = "sent", !.bearer = "undefined"]
    ELSE OlderRequests[r]]

\* The requests that await the refresh are sent again, with its token.
Replay == [r \in Requests |->
    IF req[r].at = "waiting" THEN [req[r] EXCEPT !.at = "sent", !.bearer = "live"]
    ELSE OlderRequests[r]]

\* refreshAccessToken resolves
SharedAccepted ==
    /\ HasAnswer("shared")
    /\ Stores("shared")
    /\ flight' = Done("shared")
    /\ req' = Replay
    /\ UNCHANGED <<page, cookie, appMay>>

\* refreshAccessToken rejects: clearAuth, back to the sign-in page, and every request that
\* awaited it fails.
SharedRefused ==
    /\ Refused("shared")
    /\ Clears("shared")
    /\ page' = "leaving"
    /\ flight' = Done("shared")
    /\ req' = [r \in Requests |->
                IF req[r].at = "waiting" THEN NewRequest ELSE OlderRequests[r]]
    /\ UNCHANGED <<cookie, appMay>>

SignsIn ==
    /\ page = "live"
    /\ ~InFlight("signin")
    /\ HasRoom
    /\ flight' = Send("signin")
    /\ UNCHANGED <<page, cookie, token, appMay, req, newest>>

\* setAccessToken and invalidateQueries, before App renders again: its refresh query, marked
\* stale, is fetched once more if it was enabled, with the new token.  A fetch under way is
\* taken for that one.
SigninAccepted ==
    LET Refetches == token = NoToken /\ ~InFlight("app")
        AfterSignin == [at |-> "sent", cookie |-> cookie, bearer |-> "live"]
    IN  /\ HasAnswer("signin")
        /\ Stores("signin")
        /\ flight' = IF Refetches THEN [Done("signin") EXCEPT !["app"] = AfterSignin]
                     ELSE Done("signin")
        /\ appMay' = ~Refetches
        /\ req' = OlderRequests
        /\ UNCHANGED <<page, cookie>>

SigninRefused ==
    /\ Refused("signin")
    /\ GivesUp("signin")
    /\ UNCHANGED appMay

SignsOut ==
    /\ page = "live"
    /\ ~InFlight("signout")
    /\ HasRoom
    /\ flight' = Send("signout")
    /\ UNCHANGED <<page, cookie, token, appMay, req, newest>>

\* Variant: the store keeps its token.
SignoutForgetsStore ==
    /\ HasAnswer("signout")
    /\ UNCHANGED token
    /\ newest' = IF newest \in {"signout", "missed"} THEN "handled" ELSE newest
    /\ page' = "leaving"
    /\ flight' = Done("signout")
    /\ appMay' = TRUE
    /\ req' = OlderRequests
    /\ UNCHANGED cookie

\* clearAuth, queryClient.clear(), after which App's query is a new one, and back to the
\* home page
SignoutAccepted ==
    /\ HasAnswer("signout")
    /\ Clears("signout")
    /\ page' = "leaving"
    /\ flight' = Done("signout")
    /\ appMay' = TRUE
    /\ req' = OlderRequests
    /\ UNCHANGED cookie

SignoutRefused ==
    /\ Refused("signout")
    /\ GivesUp("signout")
    /\ UNCHANGED appMay

-----------------------------------------------------------------------------
(* The other requests, to routes that are not public *)

Sends(r) ==
    /\ Running
    /\ req[r].at = "idle"
    /\ req' = [req EXCEPT ![r] = [NewRequest EXCEPT !.at = "sent", !.bearer = token.state]]
    /\ UNCHANGED <<page, cookie, token, appMay, flight, newest>>

Succeeds(r) ==
    /\ req[r].at = "sent"
    /\ req[r].bearer \in {"live", "old"}
    /\ req' = [req EXCEPT ![r] = NewRequest]
    /\ UNCHANGED <<page, cookie, token, appMay, flight, newest>>

\* Any other status, or a 401 the interceptor leaves alone.
Fails(r) ==
    /\ req[r].at = "sent"
    /\ req' = [req EXCEPT ![r] = NewRequest]
    /\ UNCHANGED <<page, cookie, token, appMay, flight, newest>>

\* refreshAccessToken: those who call it while a refresh is under way share it.
JoinsRefresh == flight' = IF InFlight("shared") THEN flight ELSE Send("shared")

\* Variant: a replay is not marked.
WaitsAgain(r) ==
    /\ req[r].at = "sent"
    /\ UpstreamFails \/ req[r].bearer \in {"none", "old", "expired"}
    /\ token # NoToken
    /\ req' = [req EXCEPT ![r].at = "waiting"]
    /\ JoinsRefresh
    /\ UNCHANGED <<page, cookie, token, appMay, newest>>

\* A 401, from the guard or, however good the token, from a service behind it, to a request
\* not yet replayed.
Waits(r) ==
    /\ req[r].at = "sent"
    /\ UpstreamFails \/ req[r].bearer \in {"none", "old", "expired"}
    /\ token # NoToken
    /\ ~req[r].retried
    /\ req' = [req EXCEPT ![r].at = "waiting", ![r].retried = TRUE]
    /\ JoinsRefresh
    /\ UNCHANGED <<page, cookie, token, appMay, newest>>

\* The notification stream on a 401; the chat before it connects.
StreamRefreshes ==
    /\ Running
    /\ ~InFlight("shared")
    /\ HasRoom
    /\ JoinsRefresh
    /\ UNCHANGED <<page, cookie, token, appMay, req, newest>>

\* The store's token expires, and those issued before it have too.
Expires ==
    LET Expired(x) == IF x.bearer \in {"live", "old"} THEN [x EXCEPT !.bearer = "expired"] ELSE x
    IN  /\ token.state = "live"
        /\ token' = [token EXCEPT !.state = "expired"]
        /\ flight' = [c \in AuthCalls |-> Expired(flight[c])]
        /\ req' = [r \in Requests |-> Expired(req[r])]
        /\ UNCHANGED <<page, cookie, appMay, newest>>

-----------------------------------------------------------------------------
(* Specification *)

Init ==
    /\ page = "loading"
    /\ cookie \in Users \cup {Nobody}
    /\ token = NoToken
    /\ appMay = TRUE
    /\ flight = [c \in AuthCalls |-> NotSent]
    /\ req = [r \in Requests |-> NewRequest]
    /\ newest = "handled"

Next ==
    \/ Mounts \/ AppRefreshes \/ AppDataStales \/ Reloads
    \/ LoaderAccepted("provider") \/ ProviderRefused
    \/ LoaderAccepted("app") \/ AppRefused
    \/ SharedAccepted \/ SharedRefused
    \/ SignsIn \/ SigninRefused \/ SignsOut \/ SignoutAccepted \/ SignoutRefused
    \/ SigninAccepted
    \/ \E call \in Refreshers : RefreshAnswered(call)
    \/ SignoutAnswered \/ \E u \in Users : SigninAnswered(u)
    \/ \E r \in Requests : Sends(r) \/ Succeeds(r) \/ Fails(r) \/ Waits(r)
    \/ StreamRefreshes \/ Expires

Spec == Init /\ [][Next]_vars

\* Every call is answered or fails in the end.
Fairness ==
    /\ WF_vars(RefreshAnswered("shared") \/ SharedAccepted \/ SharedRefused)
    /\ \A r \in Requests : WF_vars(Succeeds(r) \/ Fails(r) \/ Waits(r))

FairSpec == Spec /\ Fairness

-----------------------------------------------------------------------------
(* Properties *)

\* However sign-in, sign-out and the three refreshes overlap, and whenever the browser applies
\* a cookie its page has not heard of yet, the user the page acts as is the one its cookie
\* would restore, but for three cases: the last answer to change the cookie still awaits its
\* handler; it never got there, its body lost on the way to a handler that leaves the store
\* alone; or the handler of an older answer ran after it.  The page's leaving and a failed
\* restore or shared refresh end all three.
TokenMatchesCookie == newest = "handled" => (token = NoToken \/ token.user = cookie)

\* A request that awaits a refresh is never left behind: it is replayed or fails, and a
\* request that is refused again and again is replayed once, so each one settles.
EveryRequestSettles ==
    \A r \in Requests : req[r].at # "idle" ~> req[r].at = "idle"

\* "401 if it is invalid or expired, the front then refreshes its token and replays the
\* request" (auth.guard.ts): with every service up and a session in the cookie, a request
\* that awaits the refresh is replayed.
RefusedIsReplayed ==
    [][\A r \in Requests :
        (req[r].at = "waiting" /\ cookie # Nobody /\ page' # "loading")
            => req'[r].at # "idle"]_vars
=============================================================================
