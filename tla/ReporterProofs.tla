--------------------------- MODULE ReporterProofs ---------------------------
(***************************************************************************)
(* Theorems about Reporter, for any set of requests and any number of GETs *)
(* and of webhooks.                                                        *)
(***************************************************************************)
EXTENDS Reporter, TLAPS

-----------------------------------------------------------------------------
\* A request of r is on its way to LC.
Sent(verb, r) == [verb |-> verb, by |-> r] \in wire

\* The POST of r is sent once, after the GETs, and is on its way or stored but
\* not both; a report that says ok has its addendum.
OnceInv(r) ==
  /\ report[r].stage \in Stages \ {"post", "done"} => ~Sent("POST", r) /\ addenda[r] = 0
  /\ Sent("POST", r) => addenda[r] = 0
  /\ addenda[r] \in {0, 1}
  /\ report[r].ok => addenda[r] = 1

\* LC has answered the PATCH of r with 200.
PastPatch(r) ==
  \/ report[r].stage \in {"get", "post"}
  \/ Sent("POST", r)
  \/ addenda[r] > 0

\* A report of the present resolution that is past its PATCH has left LC
\* showing RESOLVED, unless LC has reopened its incident since.  No report is
\* of a resolution still to come.
ClosedInv(r) ==
  /\ report[r].round <= row.round
  /\ PastPatch(r) /\ report[r].round = row.round /\ ~row.back => lc = "RESOLVED"

\* The inductive invariant.
ReportInv == \A r \in Requests : OnceInv(r) /\ ClosedInv(r)

-----------------------------------------------------------------------------
\* The types of a report that changes.
LEMMA ReportType ==
  ASSUME TypeOK, NEW r \in Requests
  PROVE  /\ \A stage \in Stages : [report[r] EXCEPT !.stage = stage] \in Report
         /\ \A ok \in BOOLEAN : [report[r] EXCEPT !.stage = "done", !.ok = ok] \in Report
         /\ [report[r] EXCEPT !.stage = "get", !.attempt = 1] \in Report
         /\ \A n \in Nat : [report[r] EXCEPT !.stage = "refresh", !.round = n] \in Report
<1>1. report[r] \in Report
  BY DEF TypeOK
<1>2. 1 \in 0 .. MAX_RETRY
  BY MaxRetryAssumption
<1>3. {"get", "refresh", "done"} \subseteq Stages
  BY DEF Stages, Waiting
<1>4. QED
  BY <1>1, <1>2, <1>3 DEF Report

\* What is sent is a message.
LEMMA WireType ==
  ASSUME TypeOK, NEW r \in Requests, NEW verb \in {"PATCH", "POST"}, Send(verb, r)
  PROVE  wire' \subseteq Message
BY DEF TypeOK, Send, Message

\* Every step keeps the types.
LEMMA NextType == TypeOK /\ [Next]_vars => TypeOK'
<1> SUFFICES ASSUME TypeOK, [Next]_vars PROVE TypeOK'
  OBVIOUS
<1> USE MaxRetryAssumption
<1>0. {"commit", "patch", "post", "done"} \subseteq Stages
  BY DEF Stages, Waiting
<1>1. ASSUME NEW r \in Requests, Resolve(r) PROVE TypeOK'
  BY <1>0, <1>1, ReportType DEF Resolve, Enter, TypeOK
<1>2. ASSUME NEW r \in Requests, Commit(r) PROVE TypeOK'
  <2>1. row' \in [resolved : BOOLEAN, round : Nat, back : BOOLEAN]
    BY <1>2 DEF Commit, TypeOK
  <2>2. report' = [report EXCEPT ![r] = [report[r] EXCEPT !.stage = "refresh", !.round = row'.round]]
    BY <1>2 DEF Commit
  <2>3. [report[r] EXCEPT !.stage = "refresh", !.round = row'.round] \in Report
    BY <2>1, ReportType
  <2>4. report' \in [Requests -> Report]
    BY <2>2, <2>3 DEF TypeOK
  <2>5. QED
    BY <1>2, <2>1, <2>4 DEF Commit, TypeOK
<1>3. ASSUME NEW r \in Requests, Refresh(r) PROVE TypeOK'
  <2>1. report' \in [Requests -> Report]
    BY <1>0, <1>3, ReportType DEF Refresh, Enter, TypeOK
  <2>2. wire' \subseteq Message
    BY <1>3, WireType DEF Refresh
  <2>3. QED
    BY <1>3, <2>1, <2>2 DEF Refresh, TypeOK
<1>4. ASSUME NEW r \in Requests, Abort(r) PROVE TypeOK'
  BY <1>4, ReportType DEF Abort, Return, TypeOK
<1>5. ASSUME NEW r \in Requests, GiveUp(r) PROVE TypeOK'
  BY <1>5, ReportType DEF GiveUp, Return, TypeOK
<1>6. ASSUME NEW r \in Requests, Find(r) PROVE TypeOK'
  <2>1. report' \in [Requests -> Report]
    BY <1>0, <1>6, ReportType DEF Find, Enter, TypeOK
  <2>2. wire' \subseteq Message
    BY <1>6, WireType DEF Find
  <2>3. QED
    BY <1>6, <2>1, <2>2 DEF Find, TypeOK
<1>7. ASSUME NEW r \in Requests, Miss(r) PROVE TypeOK'
  <2>1. CASE report[r].attempt < MAX_RETRY /\ report' = [report EXCEPT ![r].attempt = @ + 1]
    <3>1. [report[r] EXCEPT !.attempt = @ + 1] \in Report
      BY <2>1 DEF TypeOK, Report
    <3>2. QED
      BY <1>7, <2>1, <3>1 DEF Miss, TypeOK
  <2>2. CASE Return(r, FALSE)
    BY <1>7, <2>2, ReportType DEF Miss, Return, TypeOK
  <2>3. QED
    BY <1>7, <2>1, <2>2 DEF Miss
<1>8. ASSUME NEW r \in Requests, LcPatches(r) PROVE TypeOK'
  <2>1. report' \in [Requests -> Report]
    <3> DEFINE e == [report[r] EXCEPT !.stage = "get", !.attempt = 1]
    <3>1. e \in Report
      BY ReportType
    <3>2. report' = report \/ report' = [report EXCEPT ![r] = e]
      BY <1>8 DEF LcPatches
    <3> HIDE DEF e
    <3>3. QED
      BY <3>1, <3>2 DEF TypeOK
  <2>2. QED
    BY <1>8, <2>1 DEF LcPatches, Handles, TypeOK
<1>9. ASSUME NEW r \in Requests, LcAppends(r) PROVE TypeOK'
  <2>1. addenda' \in [Requests -> Nat]
    BY <1>9 DEF LcAppends, TypeOK
  <2>2. report' \in [Requests -> Report]
    <3> DEFINE e == [report[r] EXCEPT !.stage = "done", !.ok = TRUE]
    <3>1. e \in Report
      BY ReportType
    <3>2. report' = report \/ report' = [report EXCEPT ![r] = e]
      BY <1>9 DEF LcAppends, Return
    <3> HIDE DEF e
    <3>3. QED
      BY <3>1, <3>2 DEF TypeOK
  <2>3. QED
    BY <1>9, <2>1, <2>2 DEF LcAppends, Handles, TypeOK
<1>10. ASSUME NEW r \in Requests, Lost(r) PROVE TypeOK'
  BY <1>10 DEF Lost, Handles, TypeOK
<1>11. CASE LcReopens
  <2>1. hooks' \in [sent : Nat, loaded : Nat]
    BY <1>11 DEF LcReopens, TypeOK
  <2>2. row' \in [resolved : BOOLEAN, round : Nat, back : BOOLEAN]
    BY <1>11 DEF LcReopens, TypeOK
  <2>3. QED
    BY <1>11, <2>1, <2>2 DEF LcReopens, TypeOK
<1>12. CASE Receive
  <2>1. hooks' \in [sent : Nat, loaded : Nat]
    BY <1>12 DEF Receive, TypeOK
  <2>2. QED
    BY <1>12, <2>1 DEF Receive, TypeOK
<1>13. CASE Reopen
  <2>1. hooks' \in [sent : Nat, loaded : Nat]
    BY <1>13 DEF Reopen, TypeOK
  <2>2. QED
    BY <1>13, <2>1 DEF Reopen, TypeOK
<1>14. CASE LcPublishes
  BY <1>14 DEF LcPublishes, TypeOK
<1>15. CASE Crash
  <2>1. \A r \in Requests : [report[r] EXCEPT !.stage = "done"] \in Report
    BY <1>0, ReportType
  <2>2. report' \in [Requests -> Report]
    BY <1>15, <2>1 DEF Crash, TypeOK
  <2>3. hooks' \in [sent : Nat, loaded : Nat]
    BY <1>15 DEF Crash, TypeOK
  <2>4. QED
    BY <1>15, <2>2, <2>3 DEF Crash, TypeOK
<1>16. CASE UNCHANGED vars
  BY <1>16 DEF vars, TypeOK
<1>17. QED
  BY <1>1, <1>2, <1>3, <1>4, <1>5, <1>6, <1>7, <1>8, <1>9, <1>10, <1>11, <1>12, <1>13,
     <1>14, <1>15, <1>16 DEF Next, Progress

\* Before the first request everything has its type and nothing happened.
LEMMA InitInv == Init => TypeOK /\ ReportInv
<1> SUFFICES ASSUME Init PROVE TypeOK /\ ReportInv
  OBVIOUS
<1>1. NoReport \in Report
  BY MaxRetryAssumption DEF NoReport, Report, Stages
<1>2. TypeOK
  BY <1>1 DEF Init, TypeOK
<1>3. ASSUME NEW r \in Requests PROVE OnceInv(r) /\ ClosedInv(r)
  <2>1. /\ report[r].stage = "none" /\ report[r].round = 0 /\ ~report[r].ok
        /\ addenda[r] = 0 /\ row.round = 0 /\ wire = {}
    BY DEF Init, NoReport
  <2>2. QED
    BY <2>1 DEF OnceInv, ClosedInv, PastPatch, Sent
<1>4. QED
  BY <1>2, <1>3 DEF ReportInv

-----------------------------------------------------------------------------
\* A step that leaves the report, the addenda and the POST of r alone.
Unchanged(r) ==
  /\ report'[r] = report[r]
  /\ addenda'[r] = addenda[r]
  /\ Sent("POST", r)' <=> Sent("POST", r)

\* What is known of a request survives a step of another one that neither
\* begins a resolution nor takes RESOLVED from LC.
LEMMA OtherRequests ==
  ASSUME ReportInv, NEW r \in Requests, OnceInv(r)', ClosedInv(r)',
         \A q \in Requests \ {r} : Unchanged(q),
         row' = row, lc' = lc \/ lc' = "RESOLVED"
  PROVE  ReportInv'
<1> SUFFICES ASSUME NEW q \in Requests \ {r} PROVE OnceInv(q)' /\ ClosedInv(q)'
  BY DEF ReportInv
<1>1. OnceInv(q) /\ ClosedInv(q) /\ Unchanged(q)
  BY DEF ReportInv
<1>2. QED
  BY <1>1 DEF OnceInv, ClosedInv, PastPatch, Unchanged

\* Every step of a request keeps what is known of the requests.
LEMMA RequestInv ==
  ASSUME TypeOK, ReportInv, NEW r \in Requests,
         \/ Resolve(r) \/ Commit(r) \/ Refresh(r) \/ Abort(r) \/ GiveUp(r) \/ Find(r) \/ Miss(r)
         \/ LcPatches(r) \/ LcAppends(r) \/ Lost(r)
  PROVE  ReportInv'
<1> USE DEF At, Handles, Return, Enter, Send, Sent
<1>0. /\ OnceInv(r) /\ ClosedInv(r)
      /\ addenda[r] \in Nat /\ report[r] \in Report
      /\ row.round \in Nat
  BY DEF TypeOK, ReportInv
<1>s. {"none", "commit", "refresh", "patch", "get", "post", "done"} = Stages
  BY DEF Stages, Waiting
<1>1. CASE Resolve(r)
  <2>1. OnceInv(r)' /\ ClosedInv(r)'
    BY <1>0, <1>1, <1>s DEF Resolve, OnceInv, ClosedInv, PastPatch, TypeOK, Report
  <2>2. \A q \in Requests \ {r} : Unchanged(q)
    BY <1>1 DEF Resolve, Unchanged, TypeOK
  <2>3. QED
    BY <1>1, <2>1, <2>2, OtherRequests DEF Resolve
<1>2. CASE Commit(r)
  <2>1. row' = row \/ row'.round = row.round + 1
    BY <1>2 DEF Commit
  <2>2. OnceInv(r)' /\ ~PastPatch(r)' /\ report'[r].round = row'.round /\ row'.round \in Nat
    BY <1>0, <1>2, <1>s, <2>1 DEF Commit, OnceInv, PastPatch, TypeOK, Report
  <2>3. ASSUME NEW q \in Requests \ {r} PROVE OnceInv(q)' /\ ClosedInv(q)'
    <3>1. OnceInv(q) /\ ClosedInv(q) /\ report[q].round \in Nat
      BY DEF ReportInv, TypeOK, Report
    <3>2. Unchanged(q) /\ lc' = lc
      BY <1>2 DEF Commit, Unchanged, TypeOK
    <3>3. OnceInv(q)'
      BY <3>1, <3>2 DEF OnceInv, Unchanged
    <3>4. ClosedInv(q)'
      BY <1>0, <2>1, <3>1, <3>2 DEF ClosedInv, PastPatch, Unchanged
    <3>5. QED
      BY <3>3, <3>4
  <2>4. ClosedInv(r)'
    BY <2>2 DEF ClosedInv
  <2>5. QED
    BY <2>2, <2>3, <2>4 DEF ReportInv
<1>3. CASE Refresh(r)
  <2>1. OnceInv(r)' /\ ClosedInv(r)'
    BY <1>0, <1>3, <1>s DEF Refresh, OnceInv, ClosedInv, PastPatch, TypeOK, Report
  <2>2. \A q \in Requests \ {r} : Unchanged(q)
    BY <1>3 DEF Refresh, Unchanged, TypeOK
  <2>3. QED
    BY <1>3, <2>1, <2>2, OtherRequests DEF Refresh
<1>4. CASE Abort(r)
  <2>1. OnceInv(r)' /\ ClosedInv(r)'
    BY <1>0, <1>4, <1>s DEF Abort, OnceInv, ClosedInv, PastPatch, TypeOK, Report
  <2>2. \A q \in Requests \ {r} : Unchanged(q)
    BY <1>4 DEF Abort, Unchanged, TypeOK
  <2>3. QED
    BY <1>4, <2>1, <2>2, OtherRequests DEF Abort
<1>5. CASE GiveUp(r)
  <2>1. OnceInv(r)' /\ ClosedInv(r)'
    BY <1>0, <1>5, <1>s DEF GiveUp, OnceInv, ClosedInv, PastPatch, TypeOK, Report
  <2>2. \A q \in Requests \ {r} : Unchanged(q)
    BY <1>5 DEF GiveUp, Unchanged, TypeOK
  <2>3. QED
    BY <1>5, <2>1, <2>2, OtherRequests DEF GiveUp
<1>6. CASE Find(r)
  <2>1. OnceInv(r)' /\ ClosedInv(r)'
    BY <1>0, <1>6, <1>s DEF Find, OnceInv, ClosedInv, PastPatch, TypeOK, Report
  <2>2. \A q \in Requests \ {r} : Unchanged(q)
    BY <1>6 DEF Find, Unchanged, TypeOK
  <2>3. QED
    BY <1>6, <2>1, <2>2, OtherRequests DEF Find
<1>7. CASE Miss(r)
  <2>1. OnceInv(r)' /\ ClosedInv(r)'
    BY <1>0, <1>7, <1>s DEF Miss, OnceInv, ClosedInv, PastPatch, TypeOK, Report
  <2>2. \A q \in Requests \ {r} : Unchanged(q)
    BY <1>7 DEF Miss, Unchanged, TypeOK
  <2>3. QED
    BY <1>7, <2>1, <2>2, OtherRequests DEF Miss
<1>8. CASE LcPatches(r)
  <2>1. OnceInv(r)' /\ ClosedInv(r)'
    BY <1>0, <1>8, <1>s DEF LcPatches, OnceInv, ClosedInv, PastPatch, TypeOK, Report
  <2>2. \A q \in Requests \ {r} : Unchanged(q)
    BY <1>8 DEF LcPatches, Unchanged, TypeOK
  <2>3. QED
    BY <1>8, <2>1, <2>2, OtherRequests DEF LcPatches
<1>9. CASE LcAppends(r)
  <2>1. OnceInv(r)' /\ ClosedInv(r)'
    BY <1>0, <1>9, <1>s DEF LcAppends, OnceInv, ClosedInv, PastPatch, TypeOK, Report
  <2>2. \A q \in Requests \ {r} : Unchanged(q)
    BY <1>9 DEF LcAppends, Unchanged, TypeOK
  <2>3. QED
    BY <1>9, <2>1, <2>2, OtherRequests DEF LcAppends
<1>10. CASE Lost(r)
  <2>1. OnceInv(r)' /\ ClosedInv(r)'
    BY <1>0, <1>10, <1>s DEF Lost, OnceInv, ClosedInv, PastPatch, TypeOK, Report
  <2>2. \A q \in Requests \ {r} : Unchanged(q)
    BY <1>10 DEF Lost, Unchanged, TypeOK
  <2>3. QED
    BY <1>10, <2>1, <2>2, OtherRequests DEF Lost
<1>11. QED
  BY <1>1, <1>2, <1>3, <1>4, <1>5, <1>6, <1>7, <1>8, <1>9, <1>10

\* Every step keeps what is known of the requests.
LEMMA NextInv == TypeOK /\ ReportInv /\ [Next]_vars => ReportInv'
<1> SUFFICES ASSUME TypeOK, ReportInv, [Next]_vars PROVE ReportInv'
  OBVIOUS
<1>1. CASE \E r \in Requests : \/ Resolve(r) \/ Progress(r) \/ Abort(r)
                               \/ LcPatches(r) \/ LcAppends(r) \/ Lost(r)
  BY <1>1, RequestInv DEF Progress
<1>2. CASE LcReopens
  <2>1. row'.back /\ row'.round = row.round
    BY <1>2 DEF LcReopens, TypeOK
  <2>2. QED
    BY <1>2, <2>1 DEF LcReopens, ReportInv, OnceInv, ClosedInv, Sent
<1>3. CASE Receive
  BY <1>3 DEF Receive, ReportInv, OnceInv, ClosedInv, PastPatch, Sent
<1>4. CASE Reopen
  <2>1. row'.back = row.back /\ row'.round = row.round
    BY <1>4 DEF Reopen, TypeOK
  <2>2. QED
    BY <1>4, <2>1 DEF Reopen, ReportInv, OnceInv, ClosedInv, PastPatch, Sent
<1>5. CASE LcPublishes
  BY <1>5 DEF LcPublishes, ReportInv, OnceInv, ClosedInv, PastPatch, Sent
<1>6. CASE Crash
  <2>1. SUFFICES ASSUME NEW r \in Requests PROVE OnceInv(r)' /\ ClosedInv(r)'
    BY DEF ReportInv
  <2>2. OnceInv(r) /\ ClosedInv(r) /\ report[r] \in Report
    BY DEF ReportInv, TypeOK
  <2>3. report'[r] = report[r] \/ report'[r] = [report[r] EXCEPT !.stage = "done"]
    BY <1>6 DEF Crash
  <2>4. OnceInv(r)'
    BY <1>6, <2>2, <2>3 DEF Crash, OnceInv, Sent, Report
  <2>5. (PastPatch(r)' => PastPatch(r)) /\ report'[r].round = report[r].round
    BY <1>6, <2>2, <2>3 DEF Crash, PastPatch, Sent, Report
  <2>6. QED
    BY <1>6, <2>2, <2>4, <2>5 DEF Crash, ClosedInv
<1>7. CASE UNCHANGED vars
  BY <1>7 DEF vars, ReportInv, OnceInv, ClosedInv, PastPatch, Sent
<1>8. QED
  BY <1>1, <1>2, <1>3, <1>4, <1>5, <1>6, <1>7 DEF Next

\* Both hold throughout.
LEMMA ReportInvariant == Spec => [](TypeOK /\ ReportInv)
BY InitInv, NextType, NextInv, PTL DEF Spec

-----------------------------------------------------------------------------
\* Every variable of the reporter keeps its type, for any set of requests.
THEOREM ReporterTyped == Spec => []TypeOK
BY ReportInvariant, PTL

\* However late LC handles requests, whatever is lost, however the requests
\* overlap and whenever the process dies, one call of report_to_lc adds its
\* addendum to the article at most once.
THEOREM AddedOnce == Spec => []OncePerReport
<1>1. ReportInv => OncePerReport
  <2>1. SUFFICES ASSUME ReportInv, NEW r \in Requests PROVE addenda[r] <= 1
    BY DEF OncePerReport
  <2>2. addenda[r] \in {0, 1}
    BY <2>1 DEF ReportInv, OnceInv
  <2>3. QED
    BY <2>2
<1>2. QED
  BY <1>1, ReportInvariant, PTL

\* A report of report_to_lc that says ok has its addendum stored.
THEOREM OkIsTrue == Spec => []ReportedIsStored
<1>1. ReportInv => ReportedIsStored
  BY DEF ReportInv, OnceInv, ReportedIsStored
<1>2. QED
  BY <1>1, ReportInvariant, PTL

\* An addendum of report_to_lc for the resolution of today means that LC shows
\* the incident as RESOLVED, unless it has seen the error again.
THEOREM AddendumClosed == Spec => []AddendumMeansClosed
<1>1. ReportInv => AddendumMeansClosed
  BY DEF ReportInv, ClosedInv, PastPatch, AddendumMeansClosed
<1>2. QED
  BY <1>1, ReportInvariant, PTL
=============================================================================
