---------------------------- MODULE SessionTokens ----------------------------
(***************************************************************************)
(* The session of one employee on the mini-program: several page requests  *)
(* share an access token, one of them renews it when it lapses, and the    *)
(* server rotates the refresh token while a logout may be revoking it.     *)
(***************************************************************************)
EXTENDS Naturals, FiniteSets

CONSTANTS
  Requests,    \* requests that pages make
  MaxTokens,   \* refresh tokens issued (bound)
  MaxLapses,   \* access tokens that lapse (bound)
  MaxLosses,   \* calls or replies lost (bound)
  MaxLogouts,  \* logouts (bound)
  None

ASSUME TokensAreCounted == MaxTokens \in Nat \ {0} /\ None \notin 0..MaxTokens
ASSUME BoundsAreNat == MaxLapses \in Nat /\ MaxLosses \in Nat /\ MaxLogouts \in Nat

VARIABLES
  rows,      \* auth_refresh_tokens: status by number of issue
  employed,  \* users.status = 'active'
  access,    \* the stored access token: None, "live" or "lapsed"
  refresh,   \* the stored refresh token
  flights,   \* refreshPromise and loginPromise, by the request that started them
  requests,  \* where each page request is
  exit,      \* the logout in progress
  lapses, losses, logouts

vars == << rows, employed, access, refresh, flights, requests, exit, lapses, losses, logouts >>

Tokens == 1..MaxTokens
TokenStatus == { "unissued", "active", "rotated", "revoked", "expired" }

NoFlight == [ kind |-> "none", at |-> "none", token |-> None ]
Flight == [ kind : { "none", "refresh", "login" },
            at : { "none", "out", "locked", "granted", "refused", "denied", "lost" },
            token : Tokens \cup {None} ]

At(at, on, retried) == [ at |-> at, on |-> on, retried |-> retried ]

TypeOK ==
  /\ rows \in [ Tokens -> TokenStatus ]
  /\ employed \in BOOLEAN
  /\ access \in { None, "live", "lapsed" }
  /\ refresh \in Tokens \cup {None}
  /\ flights \in [ Requests -> Flight ]
  /\ \A q \in Requests : flights[q].kind = "refresh" => flights[q].token # None
  /\ requests \in [ Requests ->
                      [ at : { "idle", "live", "lapsed", "waiting", "done", "failed" },
                        on : Requests \cup {None}, retried : BOOLEAN ] ]
  /\ exit \in [ at : { "idle", "out", "revoking", "back" }, seen : SUBSET Tokens ]
  /\ lapses \in 0..MaxLapses /\ losses \in 0..MaxLosses /\ logouts \in 0..MaxLogouts

Init ==
  /\ \E signedIn \in BOOLEAN :
       /\ rows = [ t \in Tokens |-> IF signedIn /\ t = 1 THEN "active" ELSE "unissued" ]
       /\ access = IF signedIn THEN "live" ELSE None
       /\ refresh = IF signedIn THEN 1 ELSE None
  /\ employed = TRUE
  /\ flights = [ r \in Requests |-> NoFlight ]
  /\ requests = [ r \in Requests |-> At("idle", None, FALSE) ]
  /\ exit = [ at |-> "idle", seen |-> {} ]
  /\ lapses = 0 /\ losses = 0 /\ logouts = 0

-----------------------------------------------------------------------------
(* The mini-program *)

InFlight(kind) == { q \in Requests : flights[q].kind = kind }

\* Mutant: every request starts its own renewal.
OwnFlight(r, kind) == r

\* refreshPromise, loginPromise: the one under way is shared.
Carrier(r, kind) == IF InFlight(kind) = {} THEN r ELSE CHOOSE q \in InFlight(kind) : TRUE

\* Mutant: the session is renewed whether or not there is a refresh token.
AlwaysRenewal == "refresh"

\* recoverSession: a renewal while there is a refresh token, else a login.
Recovery == IF refresh # None THEN "refresh" ELSE "login"

\* A call of the kind, with the stored refresh token if it renews.
Call(kind) == [ kind |-> kind, at |-> "out",
                token |-> IF kind = "refresh" THEN refresh ELSE None ]

Recover(r, retried) ==
  LET kind == Recovery
      q == Carrier(r, kind)
  IN  /\ requests' = [ requests EXCEPT ![r] = At("waiting", q, retried) ]
      /\ flights' = IF flights[q].kind = kind THEN flights
                    ELSE [ flights EXCEPT ![q] = Call(kind) ]

\* request: with the stored access token, or after a recovery.
Begin(r) ==
  /\ requests[r].at = "idle"
  /\ \/ /\ access # None
        /\ requests' = [ requests EXCEPT ![r] = At(access, None, FALSE) ]
        /\ UNCHANGED flights
     \/ access = None /\ Recover(r, FALSE)
  /\ UNCHANGED << rows, employed, access, refresh, exit, lapses, losses, logouts >>

\* The server answers a request that carried a live token.
Answered(r) ==
  /\ requests[r].at = "live"
  /\ requests' = [ requests EXCEPT ![r].at = "done" ]
  /\ UNCHANGED << rows, employed, access, refresh, flights, exit, lapses, losses, logouts >>

\* Mutant: the repeated request goes through request again, without authRetried.
RetriesAlways(r) == TRUE

\* options.authRetried: what repeats a request sends it without a handler of its own.
MayRetry(r) == ~requests[r].retried

\* 401: the stored access token is dropped, whichever it is by now, and the request is
\* repeated once after a recovery.
Unauthorized(r) ==
  /\ requests[r].at = "lapsed"
  /\ \/ /\ ~MayRetry(r)
        /\ requests' = [ requests EXCEPT ![r].at = "failed" ]
        /\ UNCHANGED << access, flights >>
     \/ MayRetry(r) /\ access' = None /\ Recover(r, TRUE)
  /\ UNCHANGED << rows, employed, refresh, exit, lapses, losses, logouts >>

Waiting(q) == { r \in Requests : requests[r].at = "waiting" /\ requests[r].on = q }

\* saveSession, and the requests that waited go out with the new access token.
Renewed(q) ==
  /\ flights[q].at = "granted"
  /\ access' = "live"
  /\ refresh' = flights[q].token
  /\ flights' = [ flights EXCEPT ![q] = NoFlight ]
  /\ requests' = [ r \in Requests |->
                     IF r \in Waiting(q) THEN At("live", None, requests[r].retried)
                     ELSE requests[r] ]
  /\ UNCHANGED << rows, employed, exit, lapses, losses, logouts >>

\* A renewal that fails clears the session; whoever waited for it or for a login gets the
\* error, which is not a 401.
NotRenewed(q) ==
  /\ flights[q].at \in { "refused", "lost" }
  /\ access' = IF flights[q].kind = "refresh" THEN None ELSE access
  /\ refresh' = IF flights[q].kind = "refresh" THEN None ELSE refresh
  /\ flights' = [ flights EXCEPT ![q] = NoFlight ]
  /\ requests' = [ r \in Requests |->
                     IF r \in Waiting(q) THEN At("failed", None, requests[r].retried)
                     ELSE requests[r] ]
  /\ UNCHANGED << rows, employed, exit, lapses, losses, logouts >>

\* A login is denied with 401: a request that waited for its first token recovers again.
LoginDenied(q) ==
  /\ flights[q].at = "denied"
  /\ access' = IF \E r \in Waiting(q) : MayRetry(r) THEN None ELSE access
  /\ LET again == { r \in Waiting(q) : MayRetry(r) }
         under == InFlight(Recovery) \ {q}
         next  == IF under # {} THEN CHOOSE p \in under : TRUE ELSE q
     IN  /\ requests' = [ r \in Requests |->
                            IF r \in again THEN At("waiting", next, TRUE)
                            ELSE IF r \in Waiting(q) THEN At("failed", None, TRUE)
                            ELSE requests[r] ]
         /\ flights' = [ flights EXCEPT ![q] = IF again # {} /\ under = {} THEN Call(Recovery)
                                               ELSE NoFlight ]
  /\ UNCHANGED << rows, employed, refresh, exit, lapses, losses, logouts >>

\* logout: what becomes of the call is ignored.
Logout ==
  /\ exit.at = "idle" /\ logouts < MaxLogouts
  /\ exit' = [ at |-> IF access = "live" THEN "out" ELSE "back", seen |-> {} ]
  /\ logouts' = logouts + 1
  /\ UNCHANGED << rows, employed, access, refresh, flights, requests, lapses, losses >>

ClearSession ==
  /\ exit.at = "back"
  /\ access' = None /\ refresh' = None
  /\ exit' = [ at |-> "idle", seen |-> {} ]
  /\ UNCHANGED << rows, employed, flights, requests, lapses, losses, logouts >>

-----------------------------------------------------------------------------
(* AuthenticationService *)

Left == { t \in Tokens : rows[t] = "unissued" }

Fresh == CHOOSE t \in Left : TRUE

\* issue, behind the login code of WeCom: the code may be rejected (401), the employee be
\* unknown or dismissed (403), the identity provider be down (503, as if lost).
Issue(q) ==
  /\ flights[q].kind = "login" /\ flights[q].at = "out"
  /\ \/ /\ employed /\ Left # {}
        /\ rows' = [ rows EXCEPT ![Fresh] = "active" ]
        /\ flights' = [ flights EXCEPT ![q].at = "granted", ![q].token = Fresh ]
     \/ /\ \E answer \in { "denied", "lost" } \cup (IF employed THEN {} ELSE { "refused" }) :
             flights' = [ flights EXCEPT ![q].at = answer ]
        /\ UNCHANGED rows
  /\ UNCHANGED << employed, access, refresh, requests, exit, lapses, losses, logouts >>

Locked == { flights[q].token : q \in { p \in Requests : flights[p].at = "locked" } }

\* rotate, up to its lock: the row is active and so is the user.
LockForRotation(q) ==
  /\ flights[q].kind = "refresh" /\ flights[q].at = "out"
  /\ flights[q].token \notin Locked
  /\ rows[flights[q].token] = "active" /\ employed /\ Left # {}
  /\ flights' = [ flights EXCEPT ![q].at = "locked" ]
  /\ UNCHANGED << rows, employed, access, refresh, requests, exit, lapses, losses, logouts >>

RefuseRotation(q) ==
  /\ flights[q].kind = "refresh" /\ flights[q].at = "out"
  /\ flights[q].token \notin Locked
  /\ rows[flights[q].token] # "active" \/ ~employed \/ Left = {}
  /\ flights' = [ flights EXCEPT ![q].at = "refused" ]
  /\ rows' = IF rows[flights[q].token] = "active" /\ ~employed
               THEN [ rows EXCEPT ![flights[q].token] = "revoked" ] ELSE rows
  /\ UNCHANGED << employed, access, refresh, requests, exit, lapses, losses, logouts >>

\* The replacement is inserted and the row marked, in one commit.
CommitRotation(q) ==
  /\ flights[q].at = "locked"
  /\ \/ /\ Left # {}
        /\ rows' = [ rows EXCEPT ![flights[q].token] = "rotated", ![Fresh] = "active" ]
        /\ flights' = [ flights EXCEPT ![q].at = "granted", ![q].token = Fresh ]
     \/ /\ Left = {}
        /\ flights' = [ flights EXCEPT ![q].at = "lost" ]
        /\ UNCHANGED rows
  /\ UNCHANGED << employed, access, refresh, requests, exit, lapses, losses, logouts >>

\* revoke_employee: the rows that are active when the statement starts,
RevokeEmployee ==
  /\ exit.at = "out"
  /\ exit' = [ at |-> "revoking", seen |-> { t \in Tokens : rows[t] = "active" } ]
  /\ UNCHANGED << rows, employed, access, refresh, flights, requests, lapses, losses, logouts >>

\* and still are when their locks are free.
CommitRevocation ==
  /\ exit.at = "revoking"
  /\ exit.seen \cap Locked = {}
  /\ rows' = [ t \in Tokens |->
                 IF t \in exit.seen /\ rows[t] = "active" THEN "revoked" ELSE rows[t] ]
  /\ exit' = [ exit EXCEPT !.at = "back" ]
  /\ UNCHANGED << employed, access, refresh, flights, requests, lapses, losses, logouts >>

-----------------------------------------------------------------------------
(* Time, the network and the administration *)

AccessLapses(r) ==
  /\ lapses < MaxLapses
  /\ lapses' = lapses + 1
  /\ \/ access = "live" /\ access' = "lapsed" /\ UNCHANGED requests
     \/ /\ requests[r].at = "live"
        /\ requests' = [ requests EXCEPT ![r].at = "lapsed" ]
        /\ access' = IF access = "live" THEN "lapsed" ELSE access
  /\ UNCHANGED << rows, employed, refresh, flights, exit, losses, logouts >>

\* expires_at passes; rotate writes the status when it finds out.
RefreshExpires(t) ==
  /\ rows[t] = "active" /\ t \notin Locked
  /\ rows' = [ rows EXCEPT ![t] = "expired" ]
  /\ UNCHANGED << employed, access, refresh, flights, requests, exit, lapses, losses, logouts >>

\* A call, a server or a reply is lost, or the call of a logout.
Lose(q) ==
  /\ losses < MaxLosses
  /\ losses' = losses + 1
  /\ \/ /\ flights[q].at \in { "out", "locked", "granted" }
        /\ flights' = [ flights EXCEPT ![q].at = "lost" ]
        /\ UNCHANGED exit
     \/ /\ exit.at = "out"
        /\ exit' = [ exit EXCEPT !.at = "back" ]
        /\ UNCHANGED flights
  /\ UNCHANGED << rows, employed, access, refresh, requests, lapses, logouts >>

\* users.status changes outside this program.
Dismiss ==
  /\ employed /\ employed' = FALSE
  /\ UNCHANGED << rows, access, refresh, flights, requests, exit, lapses, losses, logouts >>

-----------------------------------------------------------------------------
Page(r) == Begin(r) \/ Answered(r) \/ Unauthorized(r)

Promise(q) == Renewed(q) \/ NotRenewed(q) \/ LoginDenied(q)

Server(q) == Issue(q) \/ LockForRotation(q) \/ RefuseRotation(q) \/ CommitRotation(q)

Leaving == ClearSession \/ RevokeEmployee \/ CommitRevocation

Next ==
  \/ \E r \in Requests : Page(r) \/ Promise(r) \/ Server(r) \/ AccessLapses(r) \/ Lose(r)
  \/ \E t \in Tokens : RefreshExpires(t)
  \/ Leaving
  \/ Logout
  \/ Dismiss

\* The event loop of the page, the server and its database go on.
Fairness ==
  /\ \A r \in Requests :
       WF_vars(Answered(r) \/ Unauthorized(r)) /\ WF_vars(Promise(r)) /\ WF_vars(Server(r))
  /\ WF_vars(Leaving)

Spec == Init /\ [][Next]_vars /\ Fairness

-----------------------------------------------------------------------------
(* Properties *)

\* However requests, renewals, lost replies and logouts interleave, the mini-program never
\* comes with a refresh token it has already exchanged: a refusal means that the session
\* ended on the server, not that two of its own requests got in each other's way.
NeverComesWithASpentToken ==
  \A q \in Requests :
    flights[q].kind = "refresh" /\ flights[q].at = "refused" =>
      rows[flights[q].token] # "rotated"

\* No request waits for ever for a session, or repeats its recovery without end.
EveryRequestEnds ==
  \A r \in Requests : requests[r].at # "idle" ~> requests[r].at \in { "done", "failed" }

=============================================================================
