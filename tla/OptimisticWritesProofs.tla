------------------------ MODULE OptimisticWritesProofs ------------------------
(***************************************************************************)
(* The safety of OptimisticWrites for any number of intentions, pages and  *)
(* copies of a request.                                                    *)
(*                                                                         *)
(* The argument: a page fixes the version it sends, and every commit that  *)
(* advances the row leaves all logged versions behind it (LogInv), so the  *)
(* comparison under the lock can succeed at most once per version.  What   *)
(* does not advance the row is kept single by the pending change request,  *)
(* which no verdict has named before (PendingInv).                         *)
(***************************************************************************)
EXTENDS OptimisticWrites, TLAPS

\* Every log row says what its page asked for, at a version the row has since left if
\* the intention advances it; a verdict names an earlier change request.
LogInv ==
  \A n \in DOMAIN logs :
    /\ page[logs[n].intent].state # "unused"
    /\ page[logs[n].intent].version = logs[n].version
    /\ page[logs[n].intent].target = logs[n].target
    /\ Advances(logs[n].intent) => logs[n].version < row.version
    /\ logs[n].intent \in Verdicts =>
         /\ logs[n].target \in 1..(n - 1)
         /\ logs[logs[n].target].intent \in Proposals
    /\ logs[n].intent \in Approvals => logs[logs[n].target].version = logs[n].version

\* The pending change request was filed at its base and no verdict names it.
PendingInv ==
  row.pending # 0 =>
    /\ logs[row.pending].intent \in Proposals
    /\ logs[row.pending].version = row.base
    /\ \A n \in DOMAIN logs : logs[n].intent \in Verdicts => logs[n].target # row.pending

\* A request belongs to a page in use, and the last copy, once it missed its key, was
\* sent before the intention was committed.
RequestInv ==
  /\ \A m \in requests :
       /\ page[m.intent].state # "unused"
       /\ m.copy <= page[m.intent].sends
       /\ m.missed /\ m.copy = page[m.intent].sends => ~page[m.intent].late
  /\ \A i \in Intents : page[i].late => Applied(i)

IInv ==
  /\ TypeOK
  /\ LogInv
  /\ PendingInv
  /\ RequestInv
  /\ AppliedOnce
  /\ OneAdvancePerVersion
  /\ DecidedOnce
  /\ DoneIsApplied
  /\ LateResendSucceeds

-----------------------------------------------------------------------------

LEMMA InitIInv == Init => IInv
  BY DEF Init, IInv, TypeOK, LogInv, PendingInv, RequestInv, AppliedOnce,
         OneAdvancePerVersion, DecidedOnce, DoneIsApplied, LateResendSucceeds,
         Row, LogRow, Page, Request

\* An intention and itself have the same key; so have two intentions either way round.
LEMMA SameActionReflexive ==
  ASSUME NEW i \in Intents
  PROVE  SameAction(i, i)
<1>1. CASE i \in Writes
  <2>1. PICK a \in Actions : i \in {a} \X Payloads
    BY <1>1 DEF Writes
  <2>2. {a} \X Payloads \in OneAction
    BY DEF OneAction
  <2> QED
    BY <2>1, <2>2 DEF SameAction
<1>2. CASE i \in Proposals \cup Approvals \cup Rejections
  BY <1>2 DEF SameAction, OneAction
<1> QED
  BY <1>1, <1>2 DEF Intents

LEMMA SameActionSymmetric ==
  ASSUME NEW i, NEW j, SameAction(i, j)
  PROVE  SameAction(j, i)
  BY DEF SameAction

\* The types of single pages, requests and log rows, from TypeOK.
LEMMA PageTyped ==
  ASSUME TypeOK, NEW i \in Intents
  PROVE  /\ page[i] \in Page
         /\ page[i].version \in Nat
         /\ page[i].target \in Nat
         /\ page[i].sends \in Nat
         /\ page[i].late \in BOOLEAN
<1>1. page[i] \in Page
  BY DEF TypeOK
<1> QED
  BY <1>1 DEF Page

LEMMA LogTyped ==
  ASSUME TypeOK
  PROVE  /\ Len(logs) \in Nat
         /\ DOMAIN logs = 1..Len(logs)
         /\ \A n \in DOMAIN logs :
              /\ logs[n].intent \in Intents
              /\ logs[n].version \in Nat
              /\ logs[n].target \in Nat
<1>1. logs \in Seq(LogRow)
  BY DEF TypeOK
<1>2. ASSUME NEW n \in DOMAIN logs
      PROVE  logs[n] \in LogRow
  BY <1>1, <1>2
<1>3. Len(logs) \in Nat /\ DOMAIN logs = 1..Len(logs)
  BY <1>1
<1> QED
  BY <1>2, <1>3 DEF LogRow

LEMMA PageSent ==
  ASSUME NEW p \in Page, NEW n \in Nat, NEW b \in BOOLEAN
  PROVE  [ p EXCEPT !.sends = n, !.late = b ] \in Page
  BY DEF Page

LEMMA PageUpdate ==
  ASSUME TypeOK, NEW i \in Intents, NEW p \in Page, page' = [ page EXCEPT ![i] = p ]
  PROVE  /\ page' \in [ Intents -> Page ]
         /\ page'[i] = p
         /\ \A j \in Intents : j # i => page'[j] = page[j]
  BY DEF TypeOK

\* An answer touches one page's state only, and only an open one.
LEMMA AnswerFrame ==
  ASSUME TypeOK, NEW m \in requests, NEW result \in { "done", "refused" }, Answer(m, result)
  PROVE  /\ page' \in [ Intents -> Page ]
         /\ requests' \subseteq requests
         /\ \A i \in Intents :
              /\ page'[i].version = page[i].version
              /\ page'[i].target = page[i].target
              /\ page'[i].sends = page[i].sends
              /\ page'[i].late = page[i].late
              /\ \/ page'[i].state = page[i].state
                 \/ /\ i = m.intent
                    /\ m.copy = page[i].sends
                    /\ page'[i].state = result
<1>0. m.intent \in Intents
  BY DEF TypeOK, Request
<1>1. CASE UNCHANGED page
  BY <1>1 DEF TypeOK, Answer
<1>2. CASE /\ page[m.intent].state = "open"
           /\ page[m.intent].sends = m.copy
           /\ page' = [ page EXCEPT ![m.intent].state = result ]
  <2> DEFINE p == [ page[m.intent] EXCEPT !.state = result ]
  <2>1. page' = [ page EXCEPT ![m.intent] = p ]
    BY <1>2, <1>0 DEF TypeOK
  <2>2. /\ p \in Page
        /\ p.state = result
        /\ p.version = page[m.intent].version
        /\ p.target = page[m.intent].target
        /\ p.sends = page[m.intent].sends
        /\ p.late = page[m.intent].late
    BY <1>0, PageTyped DEF Page
  <2> HIDE DEF p
  <2> QED
    BY <1>0, <1>2, <2>1, <2>2, PageUpdate DEF Answer
<1> QED
  BY <1>1, <1>2 DEF Answer

LEMMA BeginIInv ==
  ASSUME IInv, NEW i \in Intents, Begin(i)
  PROVE  IInv'
<1> USE DEF IInv, Begin
<1>1. page' \in [ Intents -> Page ]
  <2> DEFINE p == [ page[i] EXCEPT !.state = "open", !.version = row.version,
                                   !.target = IF i \in Verdicts THEN row.pending ELSE 0 ]
  <2>1. page' = [ page EXCEPT ![i] = p ]
    BY DEF TypeOK
  <2>2. row.version \in Nat /\ row.pending \in Nat
    BY DEF TypeOK, Row
  <2>3. p \in Page
    BY <2>2, PageTyped DEF Page
  <2> QED
    BY <2>1, <2>3, PageUpdate
<1>2. TypeOK'
  BY <1>1 DEF TypeOK
<1>3. \A n \in DOMAIN logs : logs[n].intent # i
  BY DEF LogInv
<1>4. \A j \in Intents : j # i => page'[j] = page[j]
  BY DEF TypeOK
<1>5. /\ page'[i].state = "open"
      /\ page'[i].late = page[i].late
      /\ page'[i].sends = page[i].sends
  BY DEF TypeOK, Page
<1>6. \A n \in DOMAIN logs : logs[n].intent \in Intents
  BY LogTyped
<1>7. LogInv'
  <2>1. \A n \in DOMAIN logs : page'[logs[n].intent] = page[logs[n].intent]
    BY <1>3, <1>4, <1>6
  <2>2. LogInv /\ logs' = logs /\ row' = row
    OBVIOUS
  <2> HIDE DEF Begin, IInv
  <2> QED
    BY <2>1, <2>2 DEF LogInv, Advances
<1>8. PendingInv'
  BY DEF PendingInv
<1>9. RequestInv'
  BY <1>4, <1>5 DEF RequestInv, Applied, TypeOK, Request
<1>10. (AppliedOnce /\ OneAdvancePerVersion /\ DecidedOnce)'
  BY DEF AppliedOnce, OneAdvancePerVersion, DecidedOnce, Advances
<1>11. DoneIsApplied'
  <2>1. SUFFICES ASSUME NEW k \in Intents, page'[k].state = "done"
                 PROVE  \E j \in Intents :
                          /\ SameAction(k, j)
                          /\ page'[j].version = page'[k].version
                          /\ page'[j].target = page'[k].target
                          /\ Applied(j)'
    BY DEF DoneIsApplied
  <2>2. k # i /\ page'[k] = page[k]
    BY <2>1, <1>4, <1>5
  <2>3. PICK j \in Intents :
          /\ SameAction(k, j)
          /\ page[j].version = page[k].version
          /\ page[j].target = page[k].target
          /\ Applied(j)
    BY <2>1, <2>2 DEF DoneIsApplied
  <2>4. page'[j] = page[j] /\ Applied(j)'
    BY <2>3, <1>3, <1>4 DEF Applied
  <2> QED
    BY <2>2, <2>3, <2>4
<1>12. LateResendSucceeds'
  BY <1>4, <1>5 DEF LateResendSucceeds
<1> QED
  BY <1>2, <1>7, <1>8, <1>9, <1>10, <1>11, <1>12

LEMMA SendIInv ==
  ASSUME IInv, NEW i \in Intents, Send(i)
  PROVE  IInv'
<1> USE DEF IInv, Send
<1>1. page' \in [ Intents -> Page ]
  <2> DEFINE p == [ page[i] EXCEPT !.sends = @ + 1, !.late = Applied(i) ]
  <2>1. page' = [ page EXCEPT ![i] = p ]
    BY DEF TypeOK
  <2>2. p \in Page
    <3>1. Applied(i) \in BOOLEAN
      BY DEF Applied
    <3>2. ASSUME NEW b \in BOOLEAN
          PROVE  [ page[i] EXCEPT !.sends = @ + 1, !.late = b ] \in Page
      <4>1. page[i] \in Page /\ page[i].sends + 1 \in Nat
        BY PageTyped
      <4> QED
        BY <4>1, PageSent
    <3> QED
      BY <3>1, <3>2
  <2> QED
    BY <2>1, <2>2, PageUpdate
<1>2. TypeOK'
  <2>1. [ intent |-> i, copy |-> page[i].sends + 1, missed |-> FALSE ] \in Request
    BY PageTyped DEF Request
  <2> QED
    BY <1>1, <2>1 DEF TypeOK
<1>3. \A j \in Intents : j # i => page'[j] = page[j]
  BY DEF TypeOK
<1>4. /\ page'[i].state = "open"
      /\ page'[i].version = page[i].version
      /\ page'[i].target = page[i].target
      /\ page'[i].sends = page[i].sends + 1
      /\ page'[i].late = Applied(i)
  BY DEF TypeOK, Page
<1>5. \A n \in DOMAIN logs : logs[n].intent \in Intents
  BY LogTyped
<1>6. LogInv'
  <2>0. \A j \in Intents :
          /\ page[j].state # "unused" => page'[j].state # "unused"
          /\ page'[j].version = page[j].version
          /\ page'[j].target = page[j].target
    BY <1>3, <1>4
  <2>1. \A n \in DOMAIN logs :
          /\ page'[logs[n].intent].state # "unused"
          /\ page'[logs[n].intent].version = page[logs[n].intent].version
          /\ page'[logs[n].intent].target = page[logs[n].intent].target
    BY <1>5, <2>0 DEF LogInv
  <2> QED
    BY <2>1 DEF LogInv, Advances
<1>7. PendingInv'
  BY DEF PendingInv
<1>8. RequestInv'
  <2>1. ASSUME NEW m \in requests'
        PROVE  /\ page'[m.intent].state # "unused"
               /\ m.copy <= page'[m.intent].sends
               /\ m.missed /\ m.copy = page'[m.intent].sends => ~page'[m.intent].late
    <3>1. CASE m \in requests
      BY <2>1, <3>1, <1>3, <1>4 DEF RequestInv, TypeOK, Request, Page
    <3>2. CASE m \notin requests
      BY <2>1, <3>2, <1>4 DEF TypeOK, Page
    <3> QED
      BY <3>1, <3>2
  <2>2. ASSUME NEW j \in Intents, page'[j].late
        PROVE  Applied(j)'
    <3>1. Applied(j)' = Applied(j)
      BY DEF Applied
    <3>2. CASE j = i
      BY <2>2, <3>1, <3>2, <1>4
    <3>3. CASE j # i
      BY <2>2, <3>1, <3>3, <1>3 DEF RequestInv
    <3> QED
      BY <3>2, <3>3
  <2> QED
    BY <2>1, <2>2 DEF RequestInv
<1>9. (AppliedOnce /\ OneAdvancePerVersion /\ DecidedOnce)'
  BY DEF AppliedOnce, OneAdvancePerVersion, DecidedOnce, Advances
<1>10. DoneIsApplied'
  <2>1. \A j \in Intents :
          /\ page'[j].version = page[j].version
          /\ page'[j].target = page[j].target
          /\ page'[j].state = "done" => page[j].state = "done"
          /\ Applied(j)' = Applied(j)
    BY <1>3, <1>4 DEF Applied
  <2> QED
    BY <2>1 DEF DoneIsApplied
<1>11. LateResendSucceeds'
  BY <1>3, <1>4 DEF LateResendSucceeds
<1> QED
  BY <1>2, <1>6, <1>7, <1>8, <1>9, <1>10, <1>11

LEMMA LookUpIInv ==
  ASSUME IInv, NEW m \in requests, LookUpKey(m)
  PROVE  IInv'
<1> USE DEF IInv
<1>0. m \in Request /\ m.intent \in Intents
  BY DEF TypeOK, Request
<1>1. CASE \E n \in DOMAIN logs : SameKey(n, m.intent)
  <2>0. Answer(m, "done") /\ UNCHANGED << row, logs >>
    BY <1>1 DEF LookUpKey
  <2>1. /\ page' \in [ Intents -> Page ]
        /\ requests' \subseteq requests
        /\ \A i \in Intents :
             /\ page'[i].version = page[i].version
             /\ page'[i].target = page[i].target
             /\ page'[i].sends = page[i].sends
             /\ page'[i].late = page[i].late
             /\ \/ page'[i].state = page[i].state
                \/ /\ i = m.intent
                   /\ m.copy = page[i].sends
                   /\ page'[i].state = "done"
    BY <2>0, AnswerFrame
  <2>2. TypeOK'
    BY <2>0, <2>1 DEF TypeOK
  <2>3. \A n \in DOMAIN logs : logs[n].intent \in Intents
    BY LogTyped
  <2>4. LogInv' /\ PendingInv'
    BY <2>0, <2>1, <2>3 DEF LogInv, PendingInv, Advances
  <2>5. RequestInv'
    BY <2>0, <2>1 DEF RequestInv, Applied, TypeOK, Request
  <2>6. (AppliedOnce /\ OneAdvancePerVersion /\ DecidedOnce)'
    BY <2>0 DEF AppliedOnce, OneAdvancePerVersion, DecidedOnce, Advances
  <2>7. \E j \in Intents :
          /\ SameAction(m.intent, j)
          /\ page[j].version = page[m.intent].version
          /\ page[j].target = page[m.intent].target
          /\ Applied(j)
    <3>1. PICK n \in DOMAIN logs : SameKey(n, m.intent)
      BY <1>1
    <3>2. /\ logs[n].intent \in Intents
          /\ Applied(logs[n].intent)
          /\ SameAction(m.intent, logs[n].intent)
      BY <2>3, <3>1, SameActionSymmetric DEF SameKey, Applied
    <3>3. /\ page[logs[n].intent].version = page[m.intent].version
          /\ page[logs[n].intent].target = page[m.intent].target
      BY <3>1 DEF SameKey, LogInv
    <3> QED
      BY <3>2, <3>3
  <2>8. DoneIsApplied'
    <3>1. \A j \in Intents :
            /\ page'[j].version = page[j].version
            /\ page'[j].target = page[j].target
            /\ page'[j].state = "done" => page[j].state = "done" \/ j = m.intent
            /\ Applied(j)' = Applied(j)
      BY <2>0, <2>1 DEF Applied
    <3> QED
      BY <3>1, <2>7 DEF DoneIsApplied
  <2>9. LateResendSucceeds'
    BY <2>0, <2>1 DEF LateResendSucceeds
  <2> QED
    BY <2>2, <2>4, <2>5, <2>6, <2>8, <2>9
<1>2. CASE ~\E n \in DOMAIN logs : SameKey(n, m.intent)
  <2>0. /\ requests' = (requests \ {m}) \cup { [ m EXCEPT !.missed = TRUE ] }
        /\ UNCHANGED << row, logs, page >>
    BY <1>2 DEF LookUpKey
  <2>1. TypeOK'
    BY <2>0, <1>0 DEF TypeOK, Request
  <2>2. LogInv' /\ PendingInv'
    BY <2>0 DEF LogInv, PendingInv, Advances
  <2>3. ~Applied(m.intent)
    BY <1>0, <1>2, SameActionReflexive DEF SameKey, Applied, LogInv
  <2>4. ~page[m.intent].late
    BY <2>3, <1>0 DEF RequestInv
  <2>5. RequestInv'
    <3>1. ASSUME NEW r \in requests'
          PROVE  /\ page'[r.intent].state # "unused"
                 /\ r.copy <= page'[r.intent].sends
                 /\ r.missed /\ r.copy = page'[r.intent].sends => ~page'[r.intent].late
      <4>1. CASE r \in requests
        BY <4>1, <2>0 DEF RequestInv
      <4>2. CASE r = [ m EXCEPT !.missed = TRUE ]
        BY <4>2, <2>0, <2>4, <1>0 DEF RequestInv, Request
      <4> QED
        BY <4>1, <4>2, <2>0, <3>1
    <3> QED
      BY <3>1, <2>0 DEF RequestInv, Applied
  <2>6. (AppliedOnce /\ OneAdvancePerVersion /\ DecidedOnce)'
    BY <2>0 DEF AppliedOnce, OneAdvancePerVersion, DecidedOnce, Advances
  <2>7. (DoneIsApplied /\ LateResendSucceeds)'
    BY <2>0 DEF DoneIsApplied, LateResendSucceeds, Applied
  <2> QED
    BY <2>1, <2>2, <2>5, <2>6, <2>7
<1> QED
  BY <1>1, <1>2

LEMMA ServeIInv ==
  ASSUME IInv, NEW m \in requests, Serve(m)
  PROVE  IInv'
<1> USE DEF IInv
<1> DEFINE i == m.intent
           k == Len(logs) + 1
<1>0. /\ m \in Request /\ i \in Intents /\ m.missed
      /\ page[i] \in Page
      /\ \A n \in DOMAIN logs : logs[n].intent \in Intents
      /\ Len(logs) \in Nat /\ DOMAIN logs = 1..Len(logs)
  BY LogTyped, PageTyped DEF TypeOK, Request, Serve
<1>1. CASE ~Allowed(i)
  <2>0. Answer(m, "refused") /\ UNCHANGED << row, logs >>
    BY <1>1 DEF Serve
  <2>1. /\ page' \in [ Intents -> Page ]
        /\ requests' \subseteq requests
        /\ \A j \in Intents :
             /\ page'[j].version = page[j].version
             /\ page'[j].target = page[j].target
             /\ page'[j].sends = page[j].sends
             /\ page'[j].late = page[j].late
             /\ \/ page'[j].state = page[j].state
                \/ /\ j = m.intent
                   /\ m.copy = page[j].sends
                   /\ page'[j].state = "refused"
    BY <2>0, AnswerFrame
  <2>2. TypeOK'
    BY <2>0, <2>1 DEF TypeOK
  <2>3. LogInv' /\ PendingInv'
    BY <2>0, <2>1, <1>0 DEF LogInv, PendingInv, Advances
  <2>4. RequestInv'
    BY <2>0, <2>1 DEF RequestInv, Applied, TypeOK, Request
  <2>5. (AppliedOnce /\ OneAdvancePerVersion /\ DecidedOnce)'
    BY <2>0 DEF AppliedOnce, OneAdvancePerVersion, DecidedOnce, Advances
  <2>6. (DoneIsApplied /\ LateResendSucceeds)'
    <3>1. \A j \in Intents :
            /\ page'[j].version = page[j].version
            /\ page'[j].target = page[j].target
            /\ page'[j].state = "done" => page[j].state = "done"
            /\ Applied(j)' = Applied(j)
      BY <2>0, <2>1 DEF Applied
    <3>2. DoneIsApplied'
      BY <3>1 DEF DoneIsApplied
    <3>3. LateResendSucceeds'
      BY <2>0, <2>1, <1>0 DEF LateResendSucceeds, RequestInv
    <3> QED
      BY <3>2, <3>3
  <2> QED
    BY <2>2, <2>3, <2>4, <2>5, <2>6
<1>2. CASE Allowed(i)
  <2> DEFINE new == [ intent |-> i, version |-> page[i].version, target |-> page[i].target ]
  <2>0. /\ row' = Effect(i, k)
        /\ logs' = Append(logs, new)
        /\ Answer(m, "done")
    BY <1>2 DEF Serve
  <2>1. /\ page' \in [ Intents -> Page ]
        /\ requests' \subseteq requests
        /\ \A j \in Intents :
             /\ page'[j].version = page[j].version
             /\ page'[j].target = page[j].target
             /\ page'[j].sends = page[j].sends
             /\ page'[j].late = page[j].late
             /\ \/ page'[j].state = page[j].state
                \/ /\ j = m.intent
                   /\ m.copy = page[j].sends
                   /\ page'[j].state = "done"
    BY <2>0, AnswerFrame
  <2>2. new \in LogRow
    BY <1>0 DEF LogRow, TypeOK, Row, Page
  <2>3. /\ logs' \in Seq(LogRow)
        /\ Len(logs') = k
        /\ DOMAIN logs' = 1..k
        /\ logs'[k] = new
        /\ \A n \in DOMAIN logs : n \in DOMAIN logs' /\ n # k /\ logs'[n] = logs[n]
        /\ \A n \in DOMAIN logs' : n # k => n \in DOMAIN logs
    BY <2>0, <2>2, <1>0 DEF TypeOK
  <2>4. /\ row' \in Row
        /\ row'.pending \in 0..k
        /\ row'.version = IF Advances(i) THEN row.version + 1 ELSE row.version
    BY <2>0, <1>0 DEF Effect, TypeOK, Row
  <2>5. TypeOK'
    BY <2>1, <2>3, <2>4 DEF TypeOK
  <2>6. /\ page[i].version = row.version
        /\ i \in Proposals => row.pending = 0
        /\ i \in Verdicts =>
             row.pending # 0 /\ row.pending = page[i].target /\ row.base = row.version
    BY <1>2 DEF Allowed
  <2>7. page[i].state # "unused"
    BY DEF RequestInv
  <2>8. \A n \in DOMAIN logs : logs[n].version \in Nat
    BY LogTyped
  <2>9. row.version \in Nat /\ row.pending \in 0..Len(logs)
    BY DEF TypeOK, Row
  <2>10. i \in Verdicts =>
           /\ page[i].target \in 1..Len(logs)
           /\ logs[page[i].target].intent \in Proposals
           /\ logs[page[i].target].version = row.version
           /\ \A n \in DOMAIN logs :
                logs[n].intent \in Verdicts => logs[n].target # page[i].target
    BY <2>6, <2>9, <1>0 DEF PendingInv
  <2>11. LogInv'
    <3>1. ASSUME NEW n \in DOMAIN logs
          PROVE  /\ page'[logs'[n].intent].state # "unused"
                 /\ page'[logs'[n].intent].version = logs'[n].version
                 /\ page'[logs'[n].intent].target = logs'[n].target
                 /\ Advances(logs'[n].intent) => logs'[n].version < row'.version
                 /\ logs'[n].intent \in Verdicts =>
                      /\ logs'[n].target \in 1..(n - 1)
                      /\ logs'[logs'[n].target].intent \in Proposals
                 /\ logs'[n].intent \in Approvals =>
                      logs'[logs'[n].target].version = logs'[n].version
      <4>1. logs'[n] = logs[n] /\ logs[n].intent \in Intents
        BY <2>3, <1>0
      <4>2. logs[n].intent \in Verdicts =>
              logs[n].target \in 1..(n - 1) /\ logs'[logs[n].target] = logs[logs[n].target]
        BY <2>3, <1>0 DEF LogInv
      <4>3. logs[n].intent \in Approvals => logs[n].intent \in Verdicts
        BY DEF Verdicts
      <4>4. Advances(logs[n].intent) => logs[n].version < row'.version
        BY <2>4, <2>8, <2>9 DEF LogInv
      <4> QED
        BY <4>1, <4>2, <4>3, <4>4, <2>1 DEF LogInv
    <3>2. /\ page'[i].state # "unused"
          /\ page'[i].version = row.version
          /\ page'[i].target = new.target
          /\ Advances(i) => row.version < row'.version
      BY <2>1, <2>4, <2>6, <2>7, <2>9, <1>0
    <3>3. i \in Verdicts =>
            /\ page[i].target \in 1..(k - 1)
            /\ logs'[page[i].target].intent \in Proposals
            /\ logs'[page[i].target].version = row.version
      BY <2>3, <2>10, <1>0
    <3>4. i \in Approvals => i \in Verdicts
      BY DEF Verdicts
    <3> QED
      BY <3>1, <3>2, <3>3, <3>4, <2>3, <2>6 DEF LogInv, Advances
  <2>12. PendingInv'
    <3>1. CASE i \in Proposals
      <4>1. row'.pending = k /\ row'.base = row.version
        BY <3>1, <2>0 DEF Effect
      <4>2. \A n \in DOMAIN logs : logs[n].intent \in Verdicts => logs[n].target # k
        BY <1>0 DEF LogInv
      <4>3. i \notin Verdicts
        BY <3>1, IntentsAreDisjoint
      <4> QED
        BY <3>1, <4>1, <4>2, <4>3, <2>3, <2>6 DEF PendingInv
    <3>2. CASE i \in Verdicts
      <4>1. row'.pending = 0
        BY <3>2, <2>0, IntentsAreDisjoint DEF Effect
      <4> QED
        BY <4>1 DEF PendingInv
    <3>3. CASE i \notin Proposals \cup Verdicts
      <4>1. row'.pending = row.pending /\ row'.base = row.base
        BY <3>3, <2>0 DEF Effect
      <4>2. row.pending # 0 => row.pending \in DOMAIN logs
        BY <2>9, <1>0
      <4> QED
        BY <3>3, <4>1, <4>2, <2>3 DEF PendingInv
    <3> QED
      BY <3>1, <3>2, <3>3
  <2>13. \A j \in Intents : Applied(j) => Applied(j)'
    BY <2>3 DEF Applied
  <2>14. Applied(i)'
    BY <2>3, <1>0 DEF Applied
  <2>15. RequestInv'
    BY <2>1, <2>13 DEF RequestInv, TypeOK, Request
  <2>16. i \notin Proposals => \A n \in DOMAIN logs : logs[n].intent # i
    <3>1. SUFFICES ASSUME i \notin Proposals, NEW n \in DOMAIN logs, logs[n].intent = i
                   PROVE  FALSE
      OBVIOUS
    <3>2. logs[n].version = row.version /\ logs[n].target = page[i].target
      BY <3>1, <2>6 DEF LogInv
    <3>3. CASE Advances(i)
      BY <3>1, <3>2, <3>3, <2>9 DEF LogInv
    <3>4. CASE i \in Verdicts
      BY <3>1, <3>2, <3>4, <2>10
    <3> QED
      BY <3>1, <3>3, <3>4, <1>0 DEF Intents, Advances, Verdicts
  <2>17. AppliedOnce'
    BY <2>3, <2>16 DEF AppliedOnce
  <2>18. OneAdvancePerVersion'
    <3>1. Advances(i) => \A n \in DOMAIN logs :
            Advances(logs[n].intent) => logs[n].version # row.version
      BY <2>8, <2>9 DEF LogInv
    <3> QED
      BY <3>1, <2>3, <2>6 DEF OneAdvancePerVersion, Advances
  <2>19. DecidedOnce'
    BY <2>3, <2>10 DEF DecidedOnce
  <2>20. (DoneIsApplied /\ LateResendSucceeds)'
    <3>1. \A j \in Intents :
            /\ page'[j].version = page[j].version
            /\ page'[j].target = page[j].target
            /\ page'[j].state = "done" => page[j].state = "done" \/ j = i
      BY <2>1
    <3>2. SameAction(i, i)
      BY <1>0, SameActionReflexive
    <3>3. DoneIsApplied'
      BY <1>0, <2>13, <2>14, <3>1, <3>2 DEF DoneIsApplied
    <3>4. LateResendSucceeds'
      BY <2>1 DEF LateResendSucceeds
    <3> QED
      BY <3>3, <3>4
  <2> QED
    BY <2>5, <2>11, <2>12, <2>15, <2>17, <2>18, <2>19, <2>20
<1> QED
  BY <1>1, <1>2

LEMMA Inductive == Spec => []IInv
<1>1. ASSUME IInv, [Next]_vars
      PROVE  IInv'
  <2>1. CASE UNCHANGED vars
    BY <1>1, <2>1 DEF IInv, vars, TypeOK, LogInv, PendingInv, RequestInv, Applied,
         AppliedOnce, OneAdvancePerVersion, DecidedOnce, DoneIsApplied,
         LateResendSucceeds, Advances
  <2>2. CASE ClientStep
    BY <1>1, <2>2, BeginIInv, SendIInv DEF ClientStep
  <2>3. CASE ServerStep
    BY <1>1, <2>3, LookUpIInv, ServeIInv DEF ServerStep
  <2> QED
    BY <1>1, <2>1, <2>2, <2>3 DEF Next
<1> QED
  BY InitIInv, <1>1, PTL DEF Spec

-----------------------------------------------------------------------------
(* Safety theorems *)

\* The task, the log, the pages and the requests keep their types, for any bounds.
THEOREM TypeCorrect == Spec => []TypeOK
  BY Inductive, PTL DEF IInv

\* For any number of pages and copies, an intention to write or to decide commits at
\* most once, although lookup and commit are two steps.
THEOREM CommitsAtMostOnce == Spec => []AppliedOnce
  BY Inductive, PTL DEF IInv

\* Of the users who read one version of the task, one advances it: no lost update.
THEOREM NoLostUpdate == Spec => []OneAdvancePerVersion
  BY Inductive, PTL DEF IInv

\* For any number of users, actions and payloads: what is reported as done was committed,
\* from the version its user saw and by his own action, if maybe with a payload he has
\* edited since; a repeated key never answers for another action, object or version.
THEOREM SuccessIsReal == Spec => []DoneIsApplied
  BY Inductive, PTL DEF IInv

\* What was committed before it was last sent is not reported as refused.
THEOREM ResendSucceeds == Spec => []LateResendSucceeds
  BY Inductive, PTL DEF IInv

\* A change request is decided by one verdict.
THEOREM OneVerdict == Spec => []DecidedOnce
  BY Inductive, PTL DEF IInv

\* Copies, readers of one version and verdicts on one change request: one effect each.
THEOREM EffectIsUnique == Spec => []OneEffect
  BY Inductive, PTL DEF IInv, OneEffect

\* A change request is approved on the version it was filed for.
THEOREM ApprovalOnBase == Spec => []ApprovedOnItsBase
<1>1. IInv => ApprovedOnItsBase
  BY DEF IInv, LogInv, ApprovedOnItsBase, Verdicts
<1> QED
  BY Inductive, <1>1, PTL

=============================================================================
