----------------------------- MODULE UsageReport -----------------------------
(***************************************************************************)
(* Historical usage reporting: GET /v1/analytics/summary and /trends       *)
(* (cmd/api/analytics.go) over the approved_requests table, with the       *)
(* queries of internal/database/approved_requests.sql.go, while the worker *)
(* stores approvals late and more than once.                               *)
(*                                                                         *)
(* A summary is two queries in two implicit transactions; trends are one.  *)
(* Each query sees the table and NOW() of one moment.  Nothing in a report *)
(* depends on other reports, so one handler runs at a time.                *)
(*                                                                         *)
(* Time is in ticks, DayTicks to a UTC day.  Clients and resources are     *)
(* model values; Every is the empty parameter that selects all of them.    *)
(***************************************************************************)
EXTENDS Integers, FiniteSets, Sequences, Functions, FiniteSetsExt

CONSTANTS
  Clients, Resources,
  Costs,        \* costs of a request, in tokens
  DayTicks,     \* ticks in a day
  Periods,      \* the accepted values of days: 10, 15 and 30 in the code
  Every,        \* an empty client_id or resource
  MaxTime,      \* bound on the clock
  MaxApprovals  \* bound on the approvals of a behaviour

ASSUME DayAssumption == DayTicks \in Nat \ {0} /\ Periods \subseteq Nat \ {0}
ASSUME CostAssumption == Costs \subseteq Nat \ {0}

VARIABLES
  now,       \* the time, for the Redis script and PostgreSQL alike
  made,      \* the approvals of the script; the position is the stream ID
  stream,    \* IDs that the stream holds, delivered or not
  table,     \* rows of approved_requests
  database,  \* PostgreSQL is "up" or "down"
  pc,        \* the query the handler does next, or "idle"
  kind,      \* the endpoint: "summary" or "trends"
  filter,    \* its analyticsFilter
  summary,   \* what GetApprovalSummary returned
  groups,    \* what the second query, or the query of the trends, returned
  status,    \* the HTTP status of the last report, 0 before
  before,    \* observer: the rows committed when the report was asked for
  askedAt    \* observer: the time when it was asked for

history == <<now, made, stream, table, database>>
report == <<pc, kind, filter, summary, groups, status, before, askedAt>>
vars == <<history, report>>

Filters == [days : Periods, client_id : Clients \cup {Every}, resource : Resources \cup {Every}]
Nil == -1  \* a time that is not there

NoSummary == [total_approvals |-> 0, total_cost |-> 0, first |-> Nil, latest |-> Nil]

Init ==
  /\ now = 0
  /\ made = <<>>
  /\ stream = {}
  /\ table = {}
  /\ database = "up"
  /\ pc = "idle"
  /\ kind = "summary"
  /\ filter \in Filters
  /\ summary = NoSummary
  /\ groups = {}
  /\ status = 0
  /\ before = {}
  /\ askedAt = 0

-----------------------------------------------------------------------------
\* The script approves a request and appends its event, with the time.
Approve(client, resource, cost) ==
  /\ Len(made) < MaxApprovals
  /\ made' = Append(made, [client_id |-> client, resource |-> resource,
                           cost |-> cost, approved_at_ms |-> now])
  /\ stream' = stream \cup {Len(made')}
  /\ UNCHANGED <<now, table, database, report>>

\* Mutant of approvalRequest: the row gets the time of its insertion.
approvalRequestNow(id) ==
  [stream_id |-> id, client_id |-> made[id].client_id, resource |-> made[id].resource,
   cost |-> made[id].cost, approved_at |-> now]

\* The row for an event.  The script writes no event that approvalRequest
\* rejects (ApprovalEvents has the ones it does).
approvalRequest(id) ==
  [stream_id |-> id, client_id |-> made[id].client_id, resource |-> made[id].resource,
   cost |-> made[id].cost, approved_at |-> made[id].approved_at_ms]

\* INSERT ... ON CONFLICT (stream_id) DO NOTHING.
CreateApprovedRequest(ids) ==
  table' = table \cup {approvalRequest(i) : i \in {j \in ids : \A row \in table : row.stream_id # j}}

\* A worker commits a batch, at any time after its approvals.  When the
\* cleanup fails the events stay in the stream and are stored again.
Store(ids) ==
  /\ database = "up"
  /\ ids # {}
  /\ CreateApprovedRequest(ids)
  /\ stream' \in {stream, stream \ ids}
  /\ UNCHANGED <<now, made, database, report>>

Tick ==
  /\ now < MaxTime
  /\ now' = now + 1
  /\ UNCHANGED <<made, stream, table, database, report>>

DatabaseChange ==
  /\ database' = IF database = "up" THEN "down" ELSE "up"
  /\ UNCHANGED <<now, made, stream, table, report>>

-----------------------------------------------------------------------------
\* The day of a time in UTC.
Day(t) == t \div DayTicks

\* Mutant of Selected: the period is one tick too short.
SelectedLate(f) ==
  {row \in table :
    /\ row.approved_at > now - f.days * DayTicks
    /\ f.client_id \in {Every, row.client_id}
    /\ f.resource \in {Every, row.resource}}

\* The WHERE clause that the three queries share.
Selected(f) ==
  {row \in table :
    /\ row.approved_at >= now - f.days * DayTicks
    /\ f.client_id \in {Every, row.client_id}
    /\ f.resource \in {Every, row.resource}}

Cost(rows) == SumFunctionOnSet([row \in rows |-> row.cost], rows)

Times(rows) == {row.approved_at : row \in rows}

\* COALESCE makes a missing time 0, which timeFromMilliseconds turns into nil.
\* (No approval is from 1970: tick 0 stands for a later time.)
GetApprovalSummary(f) ==
  LET rows == Selected(f)
  IN  [total_approvals |-> Cardinality(rows),
       total_cost |-> Cost(rows),
       first |-> IF rows = {} THEN Nil ELSE Min(Times(rows)),
       latest |-> IF rows = {} THEN Nil ELSE Max(Times(rows))]

\* One result for each group of rows; a query returns no empty group.
Grouped(rows, GroupOf(_)) ==
  {[group |-> g,
    total_approvals |-> Cardinality({row \in rows : GroupOf(row) = g}),
    total_cost |-> Cost({row \in rows : GroupOf(row) = g})] : g \in {GroupOf(row) : row \in rows}}

Policy(row) == <<row.client_id, row.resource>>
DayOfPolicy(row) == <<Day(row.approved_at), row.client_id, row.resource>>

ListApprovalSummaryByPolicy(f) == Grouped(Selected(f), Policy)
ListDailyApprovalTrends(f) == Grouped(Selected(f), DayOfPolicy)

-----------------------------------------------------------------------------
\* approvalSummaryHandler or approvalTrendsHandler is called with a period
\* that readAnalyticsFilter accepts.
Ask(f, endpoint) ==
  /\ pc = "idle"
  /\ pc' = endpoint
  /\ kind' = endpoint
  /\ filter' = f
  /\ summary' = NoSummary
  /\ groups' = {}
  /\ status' = 0
  /\ before' = table
  /\ askedAt' = now
  /\ UNCHANGED history

\* ... and with one that it does not accept.
AskInvalid ==
  /\ pc = "idle"
  /\ status' = 400
  /\ summary' = NoSummary
  /\ groups' = {}
  /\ UNCHANGED <<history, pc, kind, filter, before, askedAt>>

Answer(code) ==
  /\ pc' = "idle"
  /\ status' = code
  /\ UNCHANGED <<history, kind, filter, before, askedAt>>

QuerySummary ==
  /\ pc = "summary"
  /\ database = "up"
  /\ pc' = "policies"
  /\ summary' = GetApprovalSummary(filter)
  /\ UNCHANGED <<history, kind, filter, groups, status, before, askedAt>>

QueryPolicies ==
  /\ pc = "policies"
  /\ database = "up"
  /\ groups' = ListApprovalSummaryByPolicy(filter)
  /\ Answer(200)
  /\ UNCHANGED summary

QueryTrends ==
  /\ pc = "trends"
  /\ database = "up"
  /\ groups' = ListDailyApprovalTrends(filter)
  /\ Answer(200)
  /\ UNCHANGED summary

\* Mutant of Unavailable: only the first query has a deadline.
UnavailableFirst ==
  /\ pc \in {"summary", "trends"}
  /\ database = "down"
  /\ summary' = NoSummary
  /\ Answer(503)
  /\ UNCHANGED groups

\* A query fails, or analyticsTimeout passes: nothing of the report is sent.
Unavailable ==
  /\ pc # "idle"
  /\ database = "down"
  /\ summary' = NoSummary
  /\ Answer(503)
  /\ UNCHANGED groups

Query == QuerySummary \/ QueryPolicies \/ QueryTrends \/ Unavailable

Next ==
  \/ \E client \in Clients, resource \in Resources, cost \in Costs : Approve(client, resource, cost)
  \/ \E ids \in SUBSET stream : Store(ids)
  \/ Tick
  \/ DatabaseChange
  \/ \E f \in Filters, endpoint \in {"summary", "trends"} : Ask(f, endpoint)
  \/ AskInvalid
  \/ Query

\* A handler keeps running; no condition of PostgreSQL is assumed.
Fairness == WF_vars(Query)

Spec == Init /\ [][Next]_vars
FairSpec == Spec /\ Fairness

-----------------------------------------------------------------------------
Matching(rows, since) ==
  {row \in rows :
    /\ since - row.approved_at <= filter.days * DayTicks
    /\ filter.client_id \in {Every, row.client_id}
    /\ filter.resource \in {Every, row.resource}}

Between(low, totals, high) ==
  /\ totals.total_approvals \in Cardinality(low)..Cardinality(high)
  /\ totals.total_cost \in Cost(low)..Cost(high)

\* A finished report is current although rows are committed and leave the
\* period while it is made: every figure, of the totals and of each group,
\* counts at least the rows that were committed when it was asked for and are
\* still in the period, and at most those committed by now that were in it.
ReportIsCurrent ==
  status = 200 =>
    LET low == Matching(before, now)
        high == Matching(table, askedAt)
        GroupOf(row) == IF kind = "summary" THEN Policy(row) ELSE DayOfPolicy(row)
        Of(rows, g) == {row \in rows : g = GroupOf(row)}
    IN  /\ kind = "summary" => Between(low, summary, high)
        /\ \A g \in groups : Between(Of(low, g.group), g, Of(high, g.group))
        /\ \A row \in low : \E g \in groups : g.group = GroupOf(row)

\* Once the stream is drained, however late and however often its events were
\* stored, the trends show for each day that lies in the period what the
\* script approved on that day, to the token.
DrainedReportIsExact ==
  stream = {} =>
    \A f \in Filters : \A d \in {x \in 0..Day(now) : x * DayTicks >= now - f.days * DayTicks} :
      LET approved == {i \in DOMAIN made :
                        /\ Day(made[i].approved_at_ms) = d
                        /\ f.client_id \in {Every, made[i].client_id}
                        /\ f.resource \in {Every, made[i].resource}}
          shown == {g \in ListDailyApprovalTrends(f) : g.group[1] = d}
      IN  /\ Cardinality(approved) = SumFunctionOnSet([g \in shown |-> g.total_approvals], shown)
          /\ SumFunctionOnSet([i \in approved |-> made[i].cost], approved)
               = SumFunctionOnSet([g \in shown |-> g.total_cost], shown)

\* docs/api.md: the endpoints "return a bounded 503 when PostgreSQL is
\* unavailable": every report is answered, also when PostgreSQL goes away
\* between its two queries.
ReportIsAnswered == pc # "idle" ~> pc = "idle"
=============================================================================
