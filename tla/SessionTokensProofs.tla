------------------------- MODULE SessionTokensProofs -------------------------
(***************************************************************************)
(* Why the mini-program never comes with a refresh token it has exchanged, *)
(* for any number of requests, tokens, lapses, losses and logouts.         *)
(***************************************************************************)
EXTENDS SessionTokens, TLAPS

-----------------------------------------------------------------------------
(* Helpers *)

LEMMA FreshIsLeft == Left # {} => Fresh \in Tokens /\ rows[Fresh] = "unissued"
BY DEF Left, Fresh

\* The carrier of a kind is under way with it, or is the request itself.
LEMMA CarrierIsARequest ==
  ASSUME NEW r \in Requests, NEW kind
  PROVE  /\ Carrier(r, kind) \in Requests
         /\ InFlight(kind) # {} => flights[Carrier(r, kind)].kind = kind
         /\ InFlight(kind) = {} => Carrier(r, kind) = r
BY DEF Carrier, InFlight

LEMMA CallTyped ==
  ASSUME TypeOK
  PROVE  /\ Call(Recovery) \in Flight
         /\ Call(Recovery).kind = Recovery /\ Call(Recovery).at = "out"
         /\ Recovery = "refresh" => refresh # None /\ Call(Recovery).token = refresh
         /\ Recovery = "login" => refresh = None /\ Call(Recovery).token = None
         /\ Recovery \in { "refresh", "login" }
BY DEF TypeOK, Call, Recovery, Flight

\* A flight that starts: nobody else renews, and what is left alone stays.
Starts(q) ==
  /\ q \in Requests
  /\ flights' = [ flights EXCEPT ![q] = Call(Recovery) ]
  /\ Recovery = "refresh" => \A p \in Requests : flights[p].kind # "refresh"

LEMMA RecoverStarts ==
  ASSUME TypeOK, NEW r \in Requests, NEW retried \in BOOLEAN, Recover(r, retried)
  PROVE  /\ flights' = flights \/ \E q \in Requests : Starts(q)
         /\ requests' \in [ Requests ->
                      [ at : { "idle", "live", "lapsed", "waiting", "done", "failed" },
                        on : Requests \cup {None}, retried : BOOLEAN ] ]
<1> DEFINE q == Carrier(r, Recovery)
<1>1. /\ q \in Requests
      /\ flights' = IF flights[q].kind = Recovery THEN flights
                    ELSE [ flights EXCEPT ![q] = Call(Recovery) ]
      /\ requests' = [ requests EXCEPT ![r] = At("waiting", q, retried) ]
  BY CarrierIsARequest DEF Recover
<1>2. flights[q].kind # Recovery => \A p \in Requests : flights[p].kind # Recovery
  BY CarrierIsARequest DEF InFlight
<1> QED
  BY <1>1, <1>2 DEF Starts, TypeOK, At

LEMMA StartsTyped ==
  ASSUME TypeOK, NEW q, Starts(q)
  PROVE  /\ flights' \in [ Requests -> Flight ]
         /\ \A p \in Requests : flights'[p].kind = "refresh" => flights'[p].token # None
<1>1. flights \in [ Requests -> Flight ]
  BY DEF TypeOK
<1>2. \A p \in Requests : flights'[p] = IF p = q THEN Call(Recovery) ELSE flights[p]
  BY <1>1 DEF Starts
<1> QED
  BY <1>1, <1>2, CallTyped DEF Starts, TypeOK

-----------------------------------------------------------------------------
(* Types *)

LEMMA StepTyped == TypeOK /\ [Next]_vars => TypeOK'
<1> SUFFICES ASSUME TypeOK, [Next]_vars PROVE TypeOK'
  OBVIOUS
<1>0. /\ rows \in [ Tokens -> TokenStatus ]
      /\ flights \in [ Requests -> Flight ]
      /\ refresh \in Tokens \cup {None}
      /\ \A q \in Requests : flights[q] \in Flight
      /\ None \notin Tokens
  BY TokensAreCounted DEF TypeOK, Tokens
<1> USE <1>0, TokensAreCounted, BoundsAreNat
<1>1. ASSUME NEW r \in Requests, Begin(r)
      PROVE  TypeOK'
  <2>1. CASE access # None
    <3>1. access \in { "live", "lapsed" }
      BY <2>1 DEF TypeOK
    <3>2. requests' = [ requests EXCEPT ![r] = At(access, None, FALSE) ] /\ UNCHANGED flights
      BY <1>1, <2>1 DEF Begin
    <3> QED
      BY <1>1, <3>1, <3>2 DEF Begin, TypeOK, At
  <2>2. CASE access = None
    BY <1>1, <2>2, RecoverStarts, StartsTyped DEF Begin, TypeOK
  <2> QED
    BY <2>1, <2>2
<1>2. ASSUME NEW r \in Requests, Answered(r)
      PROVE  TypeOK'
  BY <1>2 DEF Answered, TypeOK
<1>3. ASSUME NEW r \in Requests, Unauthorized(r)
      PROVE  TypeOK'
  <2>1. CASE ~MayRetry(r)
    <3>1. /\ requests' = [ requests EXCEPT ![r].at = "failed" ]
          /\ UNCHANGED << access, flights >>
      BY <1>3, <2>1 DEF Unauthorized
    <3>2. UNCHANGED << rows, employed, refresh, exit, lapses, losses, logouts >>
      BY <1>3 DEF Unauthorized
    <3> QED
      BY <3>1, <3>2 DEF TypeOK
  <2>2. CASE MayRetry(r)
    BY <1>3, <2>2, RecoverStarts, StartsTyped DEF Unauthorized, TypeOK
  <2> QED
    BY <2>1, <2>2
<1>4. ASSUME NEW q \in Requests, Renewed(q)
      PROVE  TypeOK'
  BY <1>4 DEF Renewed, TypeOK, Flight, NoFlight, At
<1>5. ASSUME NEW q \in Requests, NotRenewed(q)
      PROVE  TypeOK'
  BY <1>5 DEF NotRenewed, TypeOK, Flight, NoFlight, At
<1>6. ASSUME NEW q \in Requests, LoginDenied(q)
      PROVE  TypeOK'
  <2> DEFINE under == InFlight(Recovery) \ {q}
             next  == IF under # {} THEN CHOOSE p \in under : TRUE ELSE q
  <2>1. next \in Requests
    BY DEF InFlight
  <2>2. requests' \in [ Requests ->
                      [ at : { "idle", "live", "lapsed", "waiting", "done", "failed" },
                        on : Requests \cup {None}, retried : BOOLEAN ] ]
    BY <1>6, <2>1 DEF LoginDenied, TypeOK, At
  <2>3. /\ flights' \in [ Requests -> Flight ]
        /\ \A p \in Requests : flights'[p].kind = "refresh" => flights'[p].token # None
    BY <1>6, CallTyped DEF LoginDenied, TypeOK, Flight, NoFlight
  <2> QED
    BY <1>6, <2>2, <2>3 DEF LoginDenied, TypeOK
<1>7. ASSUME NEW q \in Requests, Issue(q)
      PROVE  TypeOK'
  <2>1. CASE /\ Left # {}
             /\ rows' = [ rows EXCEPT ![Fresh] = "active" ]
             /\ flights' = [ flights EXCEPT ![q].at = "granted", ![q].token = Fresh ]
    <3>1. \A p \in Requests :
            flights'[p] = IF p = q THEN [ kind |-> "login", at |-> "granted", token |-> Fresh ]
                          ELSE flights[p]
      BY <1>7, <2>1 DEF Issue, Flight
    <3> QED
      BY <1>7, <2>1, <3>1, FreshIsLeft DEF Issue, TypeOK, TokenStatus, Flight
  <2>2. CASE UNCHANGED rows
    <3>1. PICK answer \in { "denied", "lost", "refused" } :
            flights' = [ flights EXCEPT ![q].at = answer ]
      BY <1>7, <2>2, FreshIsLeft DEF Issue
    <3> QED
      BY <1>7, <2>2, <3>1 DEF Issue, TypeOK, Flight
  <2> QED
    BY <1>7, <2>1, <2>2 DEF Issue
<1>8. ASSUME NEW q \in Requests, LockForRotation(q) \/ RefuseRotation(q)
      PROVE  TypeOK'
  <2>1. PICK at \in { "locked", "refused" } : flights' = [ flights EXCEPT ![q].at = at ]
    BY <1>8 DEF LockForRotation, RefuseRotation
  <2>2. rows' \in [ Tokens -> TokenStatus ]
    BY <1>8 DEF LockForRotation, RefuseRotation, TokenStatus
  <2> QED
    BY <1>8, <2>1, <2>2 DEF LockForRotation, RefuseRotation, TypeOK, Flight
<1>9. ASSUME NEW q \in Requests, CommitRotation(q)
      PROVE  TypeOK'
  <2>1. CASE Left # {}
    <3>1. rows' = [ rows EXCEPT ![flights[q].token] = "rotated", ![Fresh] = "active" ]
      BY <1>9, <2>1 DEF CommitRotation
    <3>2. rows' \in [ Tokens -> TokenStatus ]
      BY <3>1 DEF TokenStatus
    <3>3. flights' = [ flights EXCEPT ![q].at = "granted", ![q].token = Fresh ]
      BY <1>9, <2>1 DEF CommitRotation
    <3> QED
      BY <1>9, <2>1, <3>2, <3>3, FreshIsLeft DEF CommitRotation, TypeOK, Flight
  <2>2. CASE Left = {}
    BY <1>9, <2>2 DEF CommitRotation, TypeOK, Flight
  <2> QED
    BY <2>1, <2>2
<1>10. ASSUME NEW r \in Requests, AccessLapses(r)
       PROVE  TypeOK'
  BY <1>10 DEF AccessLapses, TypeOK
<1>11. ASSUME NEW q \in Requests, Lose(q)
       PROVE  TypeOK'
  BY <1>11 DEF Lose, TypeOK, Flight
<1>12. ASSUME NEW t \in Tokens, RefreshExpires(t)
       PROVE  TypeOK'
  BY <1>12 DEF RefreshExpires, TypeOK, TokenStatus
<1>13. CASE Leaving
  BY <1>13 DEF Leaving, ClearSession, RevokeEmployee, CommitRevocation, TypeOK, TokenStatus
<1>14. CASE Logout
  BY <1>14 DEF Logout, TypeOK
<1>15. CASE Dismiss
  BY <1>15 DEF Dismiss, TypeOK
<1>16. CASE UNCHANGED vars
  BY <1>16 DEF vars, TypeOK
<1> QED
  BY <1>1, <1>2, <1>3, <1>4, <1>5, <1>6, <1>7, <1>8, <1>9, <1>10, <1>11, <1>12, <1>13,
     <1>14, <1>15, <1>16 DEF Next, Page, Promise, Server

LEMMA InitTyped == Init => TypeOK
BY TokensAreCounted, BoundsAreNat DEF Init, TypeOK, Tokens, TokenStatus, Flight, NoFlight, At

\* The rows of refresh tokens, the stored session, the calls in flight and the logout keep
\* their types: in particular a renewal always carries a token.
THEOREM TypeCorrect == Spec => []TypeOK
  BY InitTyped, StepTyped, PTL DEF Spec

-----------------------------------------------------------------------------
(* The inductive invariant *)

Renewing(q) == flights[q].kind = "refresh"

Pending == { "out", "locked", "refused" }

\* refreshPromise is one.
OneRenewal == \A p, q \in Requests : Renewing(p) /\ Renewing(q) => p = q

FlightKinds ==
  \A q \in Requests :
    /\ flights[q].at = "locked" => Renewing(q)
    /\ flights[q].at = "denied" => ~Renewing(q)
    /\ flights[q].at = "granted" => flights[q].token # None

\* Every token that is stored or carried was issued, so a new one is another.
TokensIssued ==
  /\ refresh # None => rows[refresh] # "unissued"
  /\ \A q \in Requests : flights[q].token # None => rows[flights[q].token] # "unissued"

\* A token on its way to the session is nowhere else yet, and so nobody has exchanged it.
GrantsAreNew ==
  \A q \in Requests :
    flights[q].at = "granted" =>
      /\ rows[flights[q].token] # "rotated"
      /\ flights[q].token # refresh
      /\ \A p \in Requests : flights[p].token = flights[q].token => p = q

RenewalsAreUnspent ==
  \A q \in Requests :
    Renewing(q) /\ flights[q].at \in Pending => rows[flights[q].token] # "rotated"

\* A stored token that was exchanged is about to be replaced or cleared.
SpentIsReplaced ==
  refresh # None /\ rows[refresh] = "rotated" =>
    \E q \in Requests : Renewing(q) /\ flights[q].at \in { "granted", "lost" }

SessionInv ==
  /\ OneRenewal
  /\ FlightKinds
  /\ TokensIssued
  /\ GrantsAreNew
  /\ RenewalsAreUnspent
  /\ SpentIsReplaced

IInv == TypeOK /\ SessionInv

LEMMA StartsKeeps ==
  ASSUME IInv, NEW q, Starts(q), UNCHANGED << rows, refresh >>
  PROVE  SessionInv'
<1> USE DEF IInv, SessionInv, Renewing
<1>1. \A p \in Requests : flights'[p] = IF p = q THEN Call(Recovery) ELSE flights[p]
  BY DEF Starts, TypeOK
<1>2. /\ Call(Recovery).kind = Recovery
      /\ Call(Recovery).at = "out"
      /\ Call(Recovery).token \in { refresh, None }
      /\ Recovery = "refresh" => refresh # None /\ Call(Recovery).token = refresh
      /\ Recovery = "login" => refresh = None /\ Call(Recovery).token = None
      /\ Recovery \in { "refresh", "login" }
  BY CallTyped
<1>3. Recovery = "refresh" => \A p \in Requests : flights[p].kind # "refresh"
  BY DEF Starts
<1>4. OneRenewal'
  BY <1>1, <1>2, <1>3 DEF OneRenewal
<1>5. FlightKinds' /\ TokensIssued'
  BY <1>1, <1>2 DEF FlightKinds, TokensIssued
<1>6. GrantsAreNew'
  BY <1>1, <1>2 DEF GrantsAreNew, FlightKinds
<1>7. RenewalsAreUnspent' /\ SpentIsReplaced'
  BY <1>1, <1>2, <1>3 DEF RenewalsAreUnspent, SpentIsReplaced
<1> QED
  BY <1>4, <1>5, <1>6, <1>7

\* A flight ends; the session takes its token, is cleared, or stays as it is.
LEMMA EndsKeeps ==
  ASSUME IInv, NEW q \in Requests, flights' = [ flights EXCEPT ![q] = NoFlight ], UNCHANGED rows,
         \/ flights[q].at = "granted" /\ refresh' = flights[q].token
         \/ refresh' = None
         \/ ~Renewing(q) /\ refresh' = refresh
  PROVE  SessionInv'
<1> USE DEF IInv, SessionInv, Renewing
<1>1. \A p \in Requests : flights'[p] = IF p = q THEN NoFlight ELSE flights[p]
  BY DEF TypeOK
<1>2. NoFlight.kind = "none" /\ NoFlight.at = "none" /\ NoFlight.token = None
  BY DEF NoFlight
<1>3. OneRenewal' /\ FlightKinds'
  BY <1>1, <1>2 DEF OneRenewal, FlightKinds
<1>4. TokensIssued' /\ RenewalsAreUnspent'
  BY <1>1, <1>2 DEF TokensIssued, RenewalsAreUnspent, Pending
<1>5. GrantsAreNew'
  BY <1>1, <1>2 DEF GrantsAreNew, FlightKinds
<1>6. SpentIsReplaced'
  BY <1>1, <1>2 DEF SpentIsReplaced, GrantsAreNew
<1> QED
  BY <1>3, <1>4, <1>5, <1>6

\* A flight gets an answer that carries no token.
LEMMA AnswerKeeps ==
  ASSUME IInv, NEW q \in Requests, UNCHANGED << rows, refresh >>,
         NEW at \in { "locked", "refused", "denied", "lost" },
         flights' = [ flights EXCEPT ![q].at = at ],
         at = "locked" => Renewing(q),
         at = "denied" => ~Renewing(q),
         at = "lost" \/ flights[q].at = "out"
  PROVE  SessionInv'
<1> USE DEF IInv, SessionInv, Renewing
<1>1. \A p \in Requests :
        /\ flights'[p].kind = flights[p].kind
        /\ flights'[p].token = flights[p].token
        /\ flights'[p].at = IF p = q THEN at ELSE flights[p].at
  BY DEF TypeOK, Flight
<1>2. OneRenewal' /\ FlightKinds'
  BY <1>1 DEF OneRenewal, FlightKinds
<1>3. TokensIssued' /\ RenewalsAreUnspent' /\ GrantsAreNew'
  BY <1>1 DEF TokensIssued, RenewalsAreUnspent, GrantsAreNew, Pending
<1>4. SpentIsReplaced'
  BY <1>1 DEF SpentIsReplaced
<1> QED
  BY <1>2, <1>3, <1>4

\* A login or a rotation is answered with a token of its own; the rotation exchanges what it
\* came with.
LEMMA GrantKeeps ==
  ASSUME IInv, NEW q \in Requests, UNCHANGED refresh,
         Fresh \in Tokens, rows[Fresh] = "unissued",
         \A p \in Requests :
           /\ flights'[p].kind = flights[p].kind
           /\ flights'[p].token = IF p = q THEN Fresh ELSE flights[p].token
           /\ flights'[p].at = IF p = q THEN "granted" ELSE flights[p].at,
         \A t \in Tokens :
           rows'[t] = IF t = Fresh THEN "active"
                      ELSE IF Renewing(q) /\ t = flights[q].token THEN "rotated" ELSE rows[t]
  PROVE  SessionInv'
<1> USE DEF IInv, SessionInv, Renewing
<1>1. None \notin Tokens
  BY TokensAreCounted DEF Tokens
<1>4. /\ refresh \in Tokens \cup {None} /\ refresh # Fresh
      /\ \A p \in Requests : flights[p].token \in Tokens \cup {None} /\ flights[p].token # Fresh
  BY <1>1 DEF TypeOK, Flight, TokensIssued
<1>5. OneRenewal' /\ FlightKinds'
  BY <1>1 DEF OneRenewal, FlightKinds
<1>6. TokensIssued'
  BY <1>1, <1>4 DEF TokensIssued
<1>7. GrantsAreNew'
  <2> SUFFICES ASSUME NEW p \in Requests, flights'[p].at = "granted"
               PROVE  /\ rows'[flights'[p].token] # "rotated"
                      /\ flights'[p].token # refresh'
                      /\ \A r \in Requests : flights'[r].token = flights'[p].token => r = p
    BY DEF GrantsAreNew
  <2>1. CASE p = q
    BY <1>1, <1>4, <2>1
  <2>2. CASE p # q
    <3>1. /\ flights[p].at = "granted"
          /\ flights'[p].token = flights[p].token
          /\ flights[p].token \in Tokens
          /\ flights[p].token # flights[q].token
      BY <1>4, <2>2 DEF GrantsAreNew, FlightKinds
    <3>2. rows'[flights[p].token] = rows[flights[p].token]
      BY <1>4, <3>1
    <3> QED
      BY <1>4, <2>2, <3>1, <3>2 DEF GrantsAreNew
  <2> QED
    BY <2>1, <2>2
<1>8. RenewalsAreUnspent'
  <2> SUFFICES ASSUME NEW p \in Requests, flights'[p].kind = "refresh", flights'[p].at \in Pending
               PROVE  rows'[flights'[p].token] # "rotated"
    BY DEF RenewalsAreUnspent
  <2>1. p # q /\ ~Renewing(q)
    BY DEF Pending, OneRenewal
  <2>2. flights[p].token \in Tokens
    BY <1>4 DEF TypeOK
  <2> QED
    BY <1>4, <2>1, <2>2 DEF RenewalsAreUnspent
<1>9. SpentIsReplaced'
  BY <1>4 DEF SpentIsReplaced
<1> QED
  BY <1>5, <1>6, <1>7, <1>8, <1>9

\* Rows of which none is issued or exchanged by the step, and the session cleared or not.
LEMMA RowsKeep ==
  ASSUME IInv, UNCHANGED flights, refresh' = refresh \/ refresh' = None,
         \A t \in Tokens :
           \/ rows'[t] = rows[t]
           \/ rows[t] = "active" /\ rows'[t] \in { "revoked", "expired" }
  PROVE  SessionInv'
<1> USE DEF IInv, SessionInv, Renewing
<1>1. /\ refresh \in Tokens \cup {None}
      /\ \A p \in Requests : flights[p].token \in Tokens \cup {None}
      /\ \A p \in Requests : Renewing(p) => flights[p].token \in Tokens
  BY DEF TypeOK, Flight
<1>2. OneRenewal' /\ FlightKinds'
  BY DEF OneRenewal, FlightKinds
<1>3. TokensIssued' /\ RenewalsAreUnspent'
  BY <1>1 DEF TokensIssued, RenewalsAreUnspent
<1>4. GrantsAreNew'
  <2>1. \A q \in Requests : flights[q].at = "granted" => flights[q].token \in Tokens
    BY <1>1 DEF FlightKinds
  <2>2. \A q \in Requests : flights[q].token # refresh /\ flights[q].token # None => flights[q].token # refresh'
    OBVIOUS
  <2> QED
    BY <2>1, <2>2 DEF GrantsAreNew, FlightKinds
<1>5. SpentIsReplaced'
  BY <1>1 DEF SpentIsReplaced
<1> QED
  BY <1>2, <1>3, <1>4, <1>5

LEMMA StepIInv == IInv /\ [Next]_vars => IInv'
<1> SUFFICES ASSUME IInv, [Next]_vars PROVE SessionInv'
  BY StepTyped DEF IInv
<1>0. UNCHANGED << rows, refresh, flights >> => SessionInv'
  BY RowsKeep
<1> USE DEF IInv
<1>1. ASSUME NEW r \in Requests, Begin(r)
      PROVE  SessionInv'
  BY <1>0, <1>1, RecoverStarts, StartsKeeps DEF Begin
<1>2. ASSUME NEW r \in Requests, Answered(r) \/ AccessLapses(r)
      PROVE  SessionInv'
  BY <1>0, <1>2 DEF Answered, AccessLapses
<1>3. ASSUME NEW r \in Requests, Unauthorized(r)
      PROVE  SessionInv'
  BY <1>0, <1>3, RecoverStarts, StartsKeeps DEF Unauthorized
<1>4. ASSUME NEW q \in Requests, Renewed(q)
      PROVE  SessionInv'
  BY <1>4, EndsKeeps DEF Renewed
<1>5. ASSUME NEW q \in Requests, NotRenewed(q)
      PROVE  SessionInv'
  BY <1>5, EndsKeeps DEF NotRenewed, Renewing
<1>6. ASSUME NEW q \in Requests, LoginDenied(q)
      PROVE  SessionInv'
  <2>1. ~Renewing(q)
    BY <1>6 DEF LoginDenied, SessionInv, FlightKinds
  <2>2. \/ flights' = [ flights EXCEPT ![q] = NoFlight ]
        \/ /\ flights' = [ flights EXCEPT ![q] = Call(Recovery) ]
           /\ InFlight(Recovery) \ {q} = {}
    BY <1>6 DEF LoginDenied
  <2>3. InFlight(Recovery) \ {q} = {} /\ Recovery = "refresh" =>
          \A p \in Requests : flights[p].kind # "refresh"
    BY <2>1 DEF InFlight, Renewing
  <2> QED
    BY <1>6, <2>1, <2>2, <2>3, StartsKeeps, EndsKeeps DEF LoginDenied, Starts
<1>7. ASSUME NEW q \in Requests, Issue(q)
      PROVE  SessionInv'
  <2>1. ~Renewing(q) /\ flights[q].at = "out" /\ refresh' = refresh
    BY <1>7 DEF Issue, Renewing
  <2>2. CASE rows' = rows
    <3>1. PICK answer \in { "denied", "lost", "refused" } :
            flights' = [ flights EXCEPT ![q].at = answer ]
      BY <1>7, <2>2, FreshIsLeft DEF Issue, TypeOK
    <3> QED
      BY <2>1, <2>2, <3>1, AnswerKeeps
  <2>3. CASE rows' # rows
    <3>1. /\ Left # {}
          /\ rows' = [ rows EXCEPT ![Fresh] = "active" ]
          /\ flights' = [ flights EXCEPT ![q].at = "granted", ![q].token = Fresh ]
      BY <1>7, <2>3 DEF Issue
    <3>2. \A p \in Requests :
            /\ flights'[p].kind = flights[p].kind
            /\ flights'[p].token = IF p = q THEN Fresh ELSE flights[p].token
            /\ flights'[p].at = IF p = q THEN "granted" ELSE flights[p].at
      BY <3>1 DEF TypeOK, Flight
    <3>3. \A t \in Tokens : rows'[t] = IF t = Fresh THEN "active" ELSE rows[t]
      BY <3>1 DEF TypeOK
    <3> QED
      BY <2>1, <3>1, <3>2, <3>3, FreshIsLeft, GrantKeeps
  <2> QED
    BY <2>2, <2>3
<1>8. ASSUME NEW q \in Requests, LockForRotation(q)
      PROVE  SessionInv'
  BY <1>8, AnswerKeeps DEF LockForRotation, Renewing
<1>9. ASSUME NEW q \in Requests, RefuseRotation(q)
      PROVE  SessionInv'
  <2>1. rows \in [ Tokens -> TokenStatus ] /\ flights[q].kind = "refresh" /\ flights[q].at = "out"
    BY <1>9 DEF RefuseRotation, TypeOK
  <2>2. /\ flights' = [ flights EXCEPT ![q].at = "refused" ]
        /\ refresh' = refresh
        /\ rows' = rows \/ (/\ rows[flights[q].token] = "active"
                            /\ rows' = [ rows EXCEPT ![flights[q].token] = "revoked" ])
    BY <1>9 DEF RefuseRotation
  <2>3. \A p \in Requests :
          /\ flights'[p].kind = flights[p].kind
          /\ flights'[p].token = flights[p].token
          /\ flights'[p].at = IF p = q THEN "refused" ELSE flights[p].at
    BY <2>2 DEF TypeOK, Flight
  <2>4. \A t \in Tokens : rows'[t] = rows[t] \/ (rows[t] = "active" /\ rows'[t] = "revoked")
    BY <2>1, <2>2
  <2>5. /\ refresh \in Tokens \cup {None}
        /\ \A p \in Requests : flights[p].token \in Tokens \cup {None}
        /\ \A p \in Requests : Renewing(p) => flights[p].token \in Tokens
    BY DEF TypeOK, Flight, Renewing
  <2>6. OneRenewal' /\ FlightKinds'
    BY <2>1, <2>3 DEF SessionInv, OneRenewal, FlightKinds, Renewing
  <2>7. TokensIssued' /\ RenewalsAreUnspent'
    BY <2>1, <2>2, <2>3, <2>4, <2>5 DEF SessionInv, TokensIssued, RenewalsAreUnspent, Renewing, Pending
  <2>8. GrantsAreNew'
    BY <2>1, <2>2, <2>3, <2>4, <2>5 DEF SessionInv, GrantsAreNew, FlightKinds
  <2>9. SpentIsReplaced'
    BY <2>1, <2>2, <2>3, <2>4, <2>5 DEF SessionInv, SpentIsReplaced, Renewing
  <2> QED
    BY <2>6, <2>7, <2>8, <2>9 DEF SessionInv
<1>10. ASSUME NEW q \in Requests, CommitRotation(q)
       PROVE  SessionInv'
  <2>1. Renewing(q) /\ refresh' = refresh
    BY <1>10 DEF CommitRotation, SessionInv, FlightKinds
  <2>2. CASE Left = {}
    <3>1. flights' = [ flights EXCEPT ![q].at = "lost" ] /\ rows' = rows
      BY <1>10, <2>2 DEF CommitRotation
    <3> QED
      BY <2>1, <3>1, AnswerKeeps
  <2>3. CASE Left # {}
    <3>1. /\ rows' = [ rows EXCEPT ![flights[q].token] = "rotated", ![Fresh] = "active" ]
          /\ flights' = [ flights EXCEPT ![q].at = "granted", ![q].token = Fresh ]
      BY <1>10, <2>3 DEF CommitRotation
    <3>2. \A p \in Requests :
            /\ flights'[p].kind = flights[p].kind
            /\ flights'[p].token = IF p = q THEN Fresh ELSE flights[p].token
            /\ flights'[p].at = IF p = q THEN "granted" ELSE flights[p].at
      BY <3>1 DEF TypeOK, Flight
    <3>3. \A t \in Tokens :
            rows'[t] = IF t = Fresh THEN "active"
                       ELSE IF t = flights[q].token THEN "rotated" ELSE rows[t]
      BY <2>3, <3>1, FreshIsLeft DEF TypeOK
    <3> QED
      BY <2>1, <2>3, <3>2, <3>3, FreshIsLeft, GrantKeeps
  <2> QED
    BY <2>2, <2>3
<1>11. ASSUME NEW q \in Requests, Lose(q)
       PROVE  SessionInv'
  BY <1>0, <1>11, AnswerKeeps DEF Lose
<1>12. ASSUME NEW t \in Tokens, RefreshExpires(t)
       PROVE  SessionInv'
  BY <1>12, RowsKeep DEF RefreshExpires, TypeOK
<1>13. CASE Leaving
  BY <1>13, RowsKeep DEF Leaving, ClearSession, RevokeEmployee, CommitRevocation
<1>14. CASE Logout \/ Dismiss
  BY <1>0, <1>14 DEF Logout, Dismiss
<1>15. CASE UNCHANGED vars
  BY <1>0, <1>15 DEF vars
<1> QED
  BY <1>1, <1>2, <1>3, <1>4, <1>5, <1>6, <1>7, <1>8, <1>9, <1>10, <1>11, <1>12, <1>13,
     <1>14, <1>15 DEF Next, Page, Promise, Server

LEMMA InitIInv == Init => IInv
<1> SUFFICES ASSUME Init PROVE SessionInv
  BY InitTyped DEF IInv
<1>1. /\ \A q \in Requests : flights[q] = NoFlight
      /\ refresh # None => refresh = 1 /\ rows[1] = "active"
  BY TokensAreCounted DEF Init, Tokens
<1> QED
  BY <1>1 DEF SessionInv, OneRenewal, FlightKinds, TokensIssued, GrantsAreNew,
     RenewalsAreUnspent, SpentIsReplaced, Renewing, Pending, NoFlight

\* recoverSession, rotate and logout together: since the pages share one renewal and the
\* replacement is stored before the next one starts, no renewal is refused because the
\* mini-program itself has exchanged the token.
THEOREM SpentTokensAreNeverUsed == Spec => []NeverComesWithASpentToken
<1>1. IInv => NeverComesWithASpentToken
  BY DEF IInv, SessionInv, RenewalsAreUnspent, Renewing, Pending, NeverComesWithASpentToken
<1> QED
  BY <1>1, InitIInv, StepIInv, PTL DEF Spec

=============================================================================
