-------------------------- MODULE UsageReportProofs --------------------------
(***************************************************************************)
(* Historical reports, for any clients, resources, costs and periods, and  *)
(* any number of approvals: a report is current although rows are          *)
(* committed between its queries, and exact once the stream is drained.    *)
(***************************************************************************)
EXTENDS UsageReport, NumericLemmas, SequenceTheorems, TLAPS

\* What the script can have approved.
Approvals == [client_id : Clients, resource : Resources, cost : Nat, approved_at_ms : Nat]

\* The row of an event, and the rows of a table, in terms of the approvals.
RowAt(m, i) == [stream_id |-> i, client_id |-> m[i].client_id, resource |-> m[i].resource,
                cost |-> m[i].cost, approved_at |-> m[i].approved_at_ms]

RowsOf(m, T) ==
  /\ m \in Seq(Approvals)
  /\ \A row \in T : row.stream_id \in 1..Len(m) /\ row = RowAt(m, row.stream_id)

\* The table holds the rows of approvals, each once, and of every approval
\* that has left the stream.
Ids == 1..Len(made)

StoredInv ==
  /\ now \in Nat
  /\ stream \in SUBSET Ids
  /\ RowsOf(made, table)
  /\ \A i \in Ids \ stream : RowAt(made, i) \in table

\* The smallest and the largest set of rows a report may have counted.
Low == Matching(before, now)
High == Matching(table, askedAt)

\* The group of a row in the report under way.
GroupKey(row) == IF kind = "summary" THEN Policy(row) ELSE DayOfPolicy(row)
InGroup(rows, g) == {row \in rows : g = GroupKey(row)}

GroupsCurrent ==
  /\ \A g \in groups : Between(InGroup(Low, g.group), g, InGroup(High, g.group))
  /\ \A row \in Low : \E g \in groups : g.group = GroupKey(row)

\* A report under way has not been answered, and what its first query counted
\* stays within the bounds until the second.
ReportInv ==
  /\ before \subseteq table /\ askedAt \in Nat /\ askedAt <= now /\ filter.days \in Nat
  /\ pc # "idle" => status = 0
  /\ pc \in {"summary", "policies"} => kind = "summary"
  /\ pc = "trends" => kind = "trends"
  /\ pc = "policies" => Between(Low, summary, High)
  /\ status = 200 => (kind = "summary" => Between(Low, summary, High)) /\ GroupsCurrent

UsageInv == StoredInv /\ ReportInv

-----------------------------------------------------------------------------
LEMMA RowType ==
  ASSUME NEW m \in Seq(Approvals), NEW i \in 1..Len(m)
  PROVE  /\ m[i] \in Approvals
         /\ RowAt(m, i).cost \in Nat /\ RowAt(m, i).approved_at \in Nat
         /\ RowAt(m, i).stream_id = i
<1>1. m[i] \in Approvals
  BY ElementOfSeq
<1> QED
  BY <1>1 DEF Approvals, RowAt

LEMMA TableRows ==
  ASSUME NEW m, NEW T, RowsOf(m, T), NEW row \in T
  PROVE  row.cost \in Nat /\ row.approved_at \in Nat
<1>1. m \in Seq(Approvals) /\ row.stream_id \in 1..Len(m) /\ row = RowAt(m, row.stream_id)
  BY DEF RowsOf
<1> QED
  BY <1>1, RowType

\* Stream IDs are distinct, so there are as many rows as IDs at most.
LEMMA TableFinite ==
  ASSUME NEW m, NEW T, RowsOf(m, T)
  PROVE  IsFiniteSet(T)
<1> DEFINE f == [row \in T |-> row.stream_id]
<1>1. Len(m) \in Nat
  BY LenProperties DEF RowsOf
<1>2. IsFiniteSet(1..Len(m))
  BY <1>1, FS_Interval
<1>3. f \in [T -> 1..Len(m)]
  BY DEF RowsOf
<1>4. ASSUME NEW a \in T, NEW b \in T, f[a] = f[b] PROVE a = b
  <2>1. a.stream_id = b.stream_id
    BY <1>4
  <2>2. a = RowAt(m, a.stream_id) /\ b = RowAt(m, b.stream_id)
    BY DEF RowsOf
  <2> QED
    BY <2>1, <2>2
<1>5. f \in Injection(T, 1..Len(m))
  BY <1>3, <1>4 DEF Injection, IsInjective
<1> QED
  BY <1>2, <1>5, FS_Injection

-----------------------------------------------------------------------------
\* The costs of rows, as a function to sum.
Charges(rows) == [row \in rows |-> row.cost]

LEMMA CostOfPart ==
  ASSUME NEW T, IsFiniteSet(T), \A row \in T : row.cost \in Nat, NEW A \in SUBSET T
  PROVE  Cost(A) = SumFunctionOnSet(Charges(T), A)
<1>1. IsFiniteSet(A) /\ \A row \in A : Charges(A)[row] = Charges(T)[row]
  BY FS_Subset DEF Charges
<1> QED
  BY <1>1, SumAgree DEF Cost, Charges

\* More rows count and cost more.
LEMMA MoreRows ==
  ASSUME NEW T, IsFiniteSet(T), \A row \in T : row.cost \in Nat, NEW B \in SUBSET T, NEW A \in SUBSET B
  PROVE  /\ Cost(A) \in Nat /\ Cost(B) \in Nat /\ Cost(A) <= Cost(B)
         /\ Cardinality(A) \in Nat /\ Cardinality(B) \in Nat /\ Cardinality(A) <= Cardinality(B)
<1>1. Charges(T) \in [T -> Nat] /\ A \in SUBSET T
  BY DEF Charges
<1>2. Cost(A) = SumFunctionOnSet(Charges(T), A) /\ Cost(B) = SumFunctionOnSet(Charges(T), B)
  BY <1>1, CostOfPart
<1>3. SumFunctionOnSet(Charges(T), A) \in Nat /\ SumFunctionOnSet(Charges(T), B) \in Nat
  BY <1>1, SumType
<1>4. SumFunctionOnSet(Charges(T), A) <= SumFunctionOnSet(Charges(T), B)
  BY <1>1, SumMonotone
<1>5. IsFiniteSet(A) /\ IsFiniteSet(B) /\ Cardinality(A) <= Cardinality(B)
  BY FS_Subset
<1>6. Cardinality(A) \in Nat /\ Cardinality(B) \in Nat
  BY <1>5, FS_CardinalityType
<1> QED
  BY <1>2, <1>3, <1>4, <1>5, <1>6

\* A figure stays between sets of rows that grow apart.
LEMMA BetweenWidens ==
  ASSUME NEW T, IsFiniteSet(T), \A row \in T : row.cost \in Nat,
         NEW d \in SUBSET T, NEW c \in SUBSET d, NEW b \in SUBSET T, NEW a \in SUBSET b, NEW totals,
         Between(b, totals, c)
  PROVE  Between(a, totals, d)
<1>1. /\ Cost(a) \in Nat /\ Cost(b) \in Nat /\ Cost(a) <= Cost(b)
      /\ Cardinality(a) \in Nat /\ Cardinality(b) \in Nat /\ Cardinality(a) <= Cardinality(b)
  BY MoreRows
<1>2. /\ Cost(c) \in Nat /\ Cost(d) \in Nat /\ Cost(c) <= Cost(d)
      /\ Cardinality(c) \in Nat /\ Cardinality(d) \in Nat /\ Cardinality(c) <= Cardinality(d)
  BY MoreRows
<1> QED
  BY <1>1, <1>2 DEF Between

\* A figure that counts a set of rows lies between any smaller and larger one.
LEMMA BetweenCount ==
  ASSUME NEW T, IsFiniteSet(T), \A row \in T : row.cost \in Nat,
         NEW d \in SUBSET T, NEW c \in SUBSET d, NEW a \in SUBSET c, NEW totals,
         totals.total_approvals = Cardinality(c), totals.total_cost = Cost(c)
  PROVE  Between(a, totals, d)
<1>1. /\ Cost(a) \in Nat /\ Cost(c) \in Nat /\ Cost(a) <= Cost(c)
      /\ Cardinality(a) \in Nat /\ Cardinality(c) \in Nat /\ Cardinality(a) <= Cardinality(c)
  BY MoreRows
<1>2. /\ Cost(c) \in Nat /\ Cost(d) \in Nat /\ Cost(c) <= Cost(d)
      /\ Cardinality(c) \in Nat /\ Cardinality(d) \in Nat /\ Cardinality(c) <= Cardinality(d)
  BY MoreRows
<1> QED
  BY <1>1, <1>2 DEF Between

-----------------------------------------------------------------------------
LEMMA StoredApprove ==
  ASSUME StoredInv, NEW client \in Clients, NEW resource \in Resources, NEW cost \in Costs,
         Approve(client, resource, cost)
  PROVE  StoredInv'
<1> DEFINE x == [client_id |-> client, resource |-> resource, cost |-> cost, approved_at_ms |-> now]
<1>1. made \in Seq(Approvals) /\ Len(made) \in Nat /\ now \in Nat /\ x \in Approvals
  BY LenProperties, CostAssumption DEF StoredInv, RowsOf, Approvals
<1>2. made' = Append(made, x) /\ stream' = stream \cup {Len(made')} /\ table' = table /\ now' = now
  BY DEF Approve
<1> HIDE DEF x
<1>3. made' \in Seq(Approvals) /\ Len(made') = Len(made) + 1 /\ \A i \in 1..Len(made) : made'[i] = made[i]
  BY <1>1, <1>2, AppendProperties
<1>4. Ids' = Ids \cup {Len(made')} /\ \A i \in Ids : RowAt(made', i) = RowAt(made, i)
  BY <1>1, <1>3 DEF Ids, RowAt
<1>5. \A row \in table : row.stream_id \in Ids /\ row = RowAt(made, row.stream_id)
  BY DEF StoredInv, RowsOf, Ids
<1>6. \A i \in Ids \ stream : RowAt(made, i) \in table
  BY DEF StoredInv
<1>7. \A row \in table' : row.stream_id \in Ids' /\ row = RowAt(made', row.stream_id)
  BY <1>2, <1>4, <1>5
<1>8. \A i \in Ids' \ stream' : RowAt(made', i) \in table'
  BY <1>2, <1>4, <1>6
<1>9. stream' \in SUBSET Ids'
  BY <1>2, <1>4 DEF StoredInv
<1>10. RowsOf(made', table')
  BY <1>3, <1>7 DEF RowsOf, Ids
<1> QED
  BY <1>1, <1>2, <1>8, <1>9, <1>10 DEF StoredInv

\* Storing events again changes nothing: their rows are there already.
LEMMA StoredStore ==
  ASSUME StoredInv, NEW ids \in SUBSET stream, Store(ids)
  PROVE  StoredInv' /\ table \subseteq table'
<1>1. /\ table' = table \cup {RowAt(made, i) : i \in {j \in ids : \A row \in table : row.stream_id # j}}
      /\ stream' \in {stream, stream \ ids} /\ made' = made /\ now' = now
  BY DEF Store, CreateApprovedRequest, approvalRequest, RowAt
<1>2. Ids' = Ids /\ ids \subseteq Ids /\ stream \subseteq Ids /\ made \in Seq(Approvals)
  BY <1>1 DEF StoredInv, RowsOf, Ids
<1>3. \A i \in ids : RowAt(made, i).stream_id = i
  BY <1>2, RowType DEF Ids
<1>4. \A row \in table' : row.stream_id \in Ids /\ row = RowAt(made, row.stream_id)
  <2>1. \A row \in table : row.stream_id \in Ids /\ row = RowAt(made, row.stream_id)
    BY DEF StoredInv, RowsOf, Ids
  <2> QED
    BY <1>1, <1>2, <1>3, <2>1
<1>5. ASSUME NEW i \in Ids \ stream' PROVE RowAt(made, i) \in table'
  <2>1. CASE i \notin stream
    BY <1>1, <2>1 DEF StoredInv
  <2>2. CASE i \in ids
    BY <1>1, <2>2 DEF StoredInv, RowsOf
  <2> QED
    BY <1>1, <2>1, <2>2
<1>6. RowsOf(made', table')
  BY <1>1, <1>2, <1>4 DEF RowsOf, Ids
<1> QED
  BY <1>1, <1>2, <1>5, <1>6 DEF StoredInv

LEMMA StoredSame ==
  ASSUME StoredInv, UNCHANGED <<made, stream, table>>, now' \in Nat
  PROVE  StoredInv'
  BY DEF StoredInv, Ids

-----------------------------------------------------------------------------
LEMMA MatchingType ==
  ASSUME UsageInv
  PROVE  /\ filter.days * DayTicks \in Nat /\ now \in Nat /\ askedAt \in Nat /\ askedAt <= now
         /\ IsFiniteSet(table) /\ \A row \in table : row.cost \in Nat /\ row.approved_at \in Nat
         /\ before \subseteq table /\ Low \subseteq table /\ High \subseteq table
<1>1. filter.days * DayTicks \in Nat
  BY DayAssumption, MulNat DEF UsageInv, ReportInv
<1>2. IsFiniteSet(table) /\ \A row \in table : row.cost \in Nat /\ row.approved_at \in Nat
  BY TableFinite, TableRows DEF UsageInv, StoredInv
<1> QED
  BY <1>1, <1>2 DEF UsageInv, ReportInv, StoredInv, Low, High, Matching

\* Time and commits move the bounds of a report apart.
LEMMA ReportHistory ==
  ASSUME UsageInv, StoredInv', UNCHANGED report, now <= now', table \subseteq table'
  PROVE  ReportInv'
<1> DEFINE reach == filter.days * DayTicks
<1>1. /\ reach \in Nat /\ now \in Nat /\ now' \in Nat /\ askedAt \in Nat /\ askedAt <= now
      /\ \A row \in table : row.cost \in Nat /\ row.approved_at \in Nat
      /\ before \subseteq table /\ Low \subseteq table' /\ High \subseteq table'
  BY MatchingType DEF StoredInv
<1>2. IsFiniteSet(table') /\ \A row \in table' : row.cost \in Nat
  BY TableFinite, TableRows DEF StoredInv
<1>3. UNCHANGED <<pc, kind, filter, summary, groups, status, before, askedAt>>
  BY DEF report
<1>4. Low' \subseteq Low
  <2>1. \A row \in before : now' - row.approved_at <= reach => now - row.approved_at <= reach
    <3> HIDE DEF reach
    <3> QED
      BY <1>1
  <2> QED
    BY <1>3, <2>1 DEF Low, Matching
<1>5. High \subseteq High' /\ High' \subseteq table'
  BY <1>3 DEF High, Matching
<1>6. \A row : GroupKey(row)' = GroupKey(row)
  BY <1>3 DEF GroupKey, Policy, DayOfPolicy
<1>7. ASSUME NEW totals, Between(Low, totals, High) PROVE Between(Low', totals, High')
  BY <1>1, <1>2, <1>4, <1>5, <1>7, BetweenWidens
<1>8. GroupsCurrent => GroupsCurrent'
  <2> SUFFICES ASSUME GroupsCurrent PROVE GroupsCurrent'
    OBVIOUS
  <2>1. ASSUME NEW g \in groups PROVE Between(InGroup(Low, g.group)', g, InGroup(High, g.group)')
    <3> DEFINE a == InGroup(Low, g.group)'
               b == InGroup(Low, g.group)
               c == InGroup(High, g.group)
               d == InGroup(High, g.group)'
    <3>1. a \in SUBSET b /\ c \in SUBSET d /\ b \in SUBSET table' /\ d \in SUBSET table'
      BY <1>1, <1>4, <1>5, <1>6 DEF InGroup
    <3>2. Between(b, g, c)
      BY DEF GroupsCurrent
    <3> HIDE DEF a, b, c, d
    <3>3. Between(a, g, d)
      BY <1>2, <3>1, <3>2, BetweenWidens
    <3> QED
      BY <3>3 DEF a, d
  <2>2. \A row \in Low' : \E g \in groups : g.group = GroupKey(row)
    BY <1>4 DEF GroupsCurrent
  <2> QED
    BY <1>3, <1>6, <2>1, <2>2 DEF GroupsCurrent, Between
<1>9. /\ before' \subseteq table' /\ askedAt' \in Nat /\ askedAt' <= now' /\ filter'.days \in Nat
      /\ pc' # "idle" => status' = 0
      /\ pc' \in {"summary", "policies"} => kind' = "summary"
      /\ pc' = "trends" => kind' = "trends"
  BY <1>1, <1>3 DEF UsageInv, ReportInv
<1>10. pc' = "policies" => Between(Low, summary, High)'
  BY <1>3, <1>7 DEF UsageInv, ReportInv, Between
<1>11. status' = 200 => (kind' = "summary" => Between(Low, summary, High)') /\ GroupsCurrent'
  BY <1>3, <1>7, <1>8 DEF UsageInv, ReportInv, Between
<1> QED
  BY <1>9, <1>10, <1>11 DEF ReportInv

\* What a query selects now lies between the bounds.
LEMMA QueryBetween ==
  ASSUME UsageInv
  PROVE  Low \subseteq Selected(filter) /\ Selected(filter) \subseteq High
<1> DEFINE reach == filter.days * DayTicks
<1>1. /\ reach \in Nat /\ now \in Nat /\ askedAt \in Nat /\ askedAt <= now /\ before \subseteq table
      /\ \A row \in table : row.approved_at \in Nat
  BY MatchingType
<1>2. \A row \in table : /\ now - row.approved_at <= reach <=> row.approved_at >= now - reach
                         /\ now - row.approved_at <= reach => askedAt - row.approved_at <= reach
  <2> SUFFICES ASSUME NEW row \in table
               PROVE  /\ now - row.approved_at <= reach <=> row.approved_at >= now - reach
                      /\ now - row.approved_at <= reach => askedAt - row.approved_at <= reach
    OBVIOUS
  <2> DEFINE t == row.approved_at
  <2>1. t \in Nat
    BY <1>1
  <2> HIDE DEF reach, t
  <2>2. (now - t <= reach <=> t >= now - reach) /\ (now - t <= reach => askedAt - t <= reach)
    BY <1>1, <2>1
  <2> QED
    BY <2>2 DEF t
<1>3. Selected(filter) = {row \in table : /\ row.approved_at >= now - reach
                                          /\ filter.client_id \in {Every, row.client_id}
                                          /\ filter.resource \in {Every, row.resource}}
  BY DEF Selected
<1>4. Low = {row \in before : /\ now - row.approved_at <= reach
                              /\ filter.client_id \in {Every, row.client_id}
                              /\ filter.resource \in {Every, row.resource}}
  BY DEF Low, Matching
<1>5. High = {row \in table : /\ askedAt - row.approved_at <= reach
                              /\ filter.client_id \in {Every, row.client_id}
                              /\ filter.resource \in {Every, row.resource}}
  BY DEF High, Matching
<1> HIDE DEF reach
<1> QED
  BY <1>1, <1>2, <1>3, <1>4, <1>5

\* The result of a query that groups what it selects.
Counted(g) == [group |-> g, total_approvals |-> Cardinality(InGroup(Selected(filter), g)),
               total_cost |-> Cost(InGroup(Selected(filter), g))]

LEMMA GroupsCounted ==
  ASSUME UsageInv, groups' = {Counted(g) : g \in {GroupKey(row) : row \in Selected(filter)}},
         UNCHANGED <<now, table, kind, filter, before, askedAt>>
  PROVE  GroupsCurrent'
<1>1. Low' = Low /\ High' = High /\ \A row : GroupKey(row)' = GroupKey(row)
  BY DEF Low, High, Matching, GroupKey, Policy, DayOfPolicy
<1>2. ASSUME NEW h \in groups' PROVE Between(InGroup(Low, h.group), h, InGroup(High, h.group))
  <2>1. PICK g : h = Counted(g)
    BY <1>2
  <2> DEFINE a == InGroup(Low, g)
             c == InGroup(Selected(filter), g)
             d == InGroup(High, g)
  <2>2. a \in SUBSET c /\ c \in SUBSET d /\ d \in SUBSET table
    BY QueryBetween, MatchingType DEF InGroup
  <2>3. h.group = g /\ h.total_approvals = Cardinality(c) /\ h.total_cost = Cost(c)
    BY <2>1 DEF Counted
  <2>4. IsFiniteSet(table) /\ \A row \in table : row.cost \in Nat
    BY MatchingType
  <2> HIDE DEF a, c, d
  <2>5. Between(a, h, d)
    BY <2>2, <2>3, <2>4, BetweenCount
  <2> QED
    BY <2>3, <2>5 DEF a, d
<1>3. \A row \in Low : \E h \in groups' : h.group = GroupKey(row)
  <2> SUFFICES ASSUME NEW row \in Low PROVE \E h \in groups' : h.group = GroupKey(row)
    OBVIOUS
  <2>1. row \in Selected(filter)
    BY QueryBetween
  <2>2. Counted(GroupKey(row)) \in groups'
    BY <2>1
  <2>3. Counted(GroupKey(row)).group = GroupKey(row)
    BY DEF Counted
  <2> QED
    BY <2>2, <2>3
<1>4. \A rows, g : InGroup(rows, g)' = InGroup(rows, g)
  BY <1>1 DEF InGroup
<1> QED
  BY <1>1, <1>2, <1>3, <1>4 DEF GroupsCurrent, InGroup, Between

LEMMA ReportQuery ==
  ASSUME UsageInv, Query
  PROVE  ReportInv'
<1>1. UNCHANGED <<now, table, kind, filter, before, askedAt>>
  BY DEF Query, QuerySummary, QueryPolicies, QueryTrends, Unavailable, Answer, history
<1>2. Low' = Low /\ High' = High
  BY <1>1 DEF Low, High, Matching
<1>3. /\ before' \subseteq table' /\ askedAt' \in Nat /\ askedAt' <= now' /\ filter'.days \in Nat
  BY <1>1 DEF UsageInv, ReportInv
<1>4. CASE QuerySummary
  <2>1. pc' = "policies" /\ status' = 0 /\ kind' = "summary" /\ summary' = GetApprovalSummary(filter)
    BY <1>1, <1>4 DEF QuerySummary, UsageInv, ReportInv
  <2>2. summary'.total_approvals = Cardinality(Selected(filter)) /\ summary'.total_cost = Cost(Selected(filter))
    BY <2>1 DEF GetApprovalSummary
  <2>3. Low \in SUBSET Selected(filter) /\ Selected(filter) \in SUBSET High /\ High \in SUBSET table
    BY QueryBetween, MatchingType
  <2>4. IsFiniteSet(table) /\ \A row \in table : row.cost \in Nat
    BY MatchingType
  <2>5. Between(Low, summary', High)
    BY <2>2, <2>3, <2>4, BetweenCount
  <2>6. Between(Low, summary, High)'
    BY <1>2, <2>5 DEF Between
  <2> QED
    BY <1>3, <2>1, <2>6 DEF ReportInv
<1>5. CASE QueryPolicies
  <2>1. /\ pc = "policies" /\ pc' = "idle" /\ status' = 200 /\ kind = "summary" /\ summary' = summary
        /\ groups' = Grouped(Selected(filter), Policy)
    BY <1>5 DEF QueryPolicies, Answer, ListApprovalSummaryByPolicy, UsageInv, ReportInv
  <2>2. groups' = {Counted(g) : g \in {GroupKey(row) : row \in Selected(filter)}}
    <3>1. \A row : GroupKey(row) = Policy(row)
      BY <2>1 DEF GroupKey
    <3>2. \A g : InGroup(Selected(filter), g) = {row \in Selected(filter) : Policy(row) = g}
      BY <3>1 DEF InGroup
    <3> QED
      BY <2>1, <3>1, <3>2 DEF Grouped, Counted
  <2>3. GroupsCurrent'
    BY <1>1, <2>2, GroupsCounted
  <2>4. Between(Low, summary, High)'
    BY <1>2, <2>1 DEF Between, UsageInv, ReportInv
  <2> QED
    BY <1>3, <2>1, <2>3, <2>4 DEF ReportInv
<1>6. CASE QueryTrends
  <2>1. /\ pc = "trends" /\ pc' = "idle" /\ status' = 200 /\ kind = "trends" /\ kind' = "trends"
        /\ groups' = Grouped(Selected(filter), DayOfPolicy)
    BY <1>1, <1>6 DEF QueryTrends, Answer, ListDailyApprovalTrends, UsageInv, ReportInv
  <2>2. groups' = {Counted(g) : g \in {GroupKey(row) : row \in Selected(filter)}}
    <3>1. \A row : GroupKey(row) = DayOfPolicy(row)
      BY <2>1 DEF GroupKey
    <3>2. \A g : InGroup(Selected(filter), g) = {row \in Selected(filter) : DayOfPolicy(row) = g}
      BY <3>1 DEF InGroup
    <3> QED
      BY <2>1, <3>1, <3>2 DEF Grouped, Counted
  <2>3. GroupsCurrent'
    BY <1>1, <2>2, GroupsCounted
  <2> QED
    BY <1>3, <2>1, <2>3 DEF ReportInv
<1>7. CASE Unavailable
  BY <1>3, <1>7 DEF Unavailable, Answer, ReportInv
<1> QED
  BY <1>4, <1>5, <1>6, <1>7 DEF Query

LEMMA UsageStart == Init => UsageInv
<1> SUFFICES ASSUME Init PROVE UsageInv
  OBVIOUS
<1>1. made = <<>> /\ stream = {} /\ table = {} /\ now = 0 /\ made \in Seq(Approvals) /\ Ids = {}
  BY DEF Init, Ids
<1>2. StoredInv
  BY <1>1 DEF StoredInv, RowsOf
<1>3. filter.days \in Nat
  BY DayAssumption DEF Init, Filters
<1> QED
  BY <1>1, <1>2, <1>3 DEF Init, UsageInv, ReportInv

LEMMA UsageStep == UsageInv /\ [Next]_vars => UsageInv'
<1> SUFFICES ASSUME UsageInv, [Next]_vars PROVE UsageInv'
  OBVIOUS
<1>0. StoredInv /\ ReportInv /\ now \in Nat
  BY DEF UsageInv, StoredInv
<1>1. ASSUME NEW client \in Clients, NEW resource \in Resources, NEW cost \in Costs, Approve(client, resource, cost)
      PROVE  UsageInv'
  <2>1. StoredInv'
    BY <1>0, <1>1, StoredApprove
  <2>2. UNCHANGED report /\ now <= now' /\ table \subseteq table'
    BY <1>0, <1>1 DEF Approve
  <2> QED
    BY <2>1, <2>2, ReportHistory DEF UsageInv
<1>2. ASSUME NEW ids \in SUBSET stream, Store(ids) PROVE UsageInv'
  <2>1. StoredInv' /\ table \subseteq table'
    BY <1>0, <1>2, StoredStore
  <2>2. UNCHANGED report /\ now <= now'
    BY <1>0, <1>2 DEF Store
  <2> QED
    BY <2>1, <2>2, ReportHistory DEF UsageInv
<1>3. CASE Tick \/ DatabaseChange \/ UNCHANGED vars
  <2>1. UNCHANGED <<made, stream, table>> /\ UNCHANGED report /\ now' \in Nat /\ now <= now'
    BY <1>0, <1>3 DEF Tick, DatabaseChange, vars, history
  <2>2. StoredInv' /\ table \subseteq table'
    BY <1>0, <2>1, StoredSame
  <2> QED
    BY <2>1, <2>2, ReportHistory DEF UsageInv
<1>4. ASSUME UNCHANGED history PROVE StoredInv'
  BY <1>0, <1>4, StoredSame DEF history
<1>5. ASSUME NEW f \in Filters, NEW endpoint \in {"summary", "trends"}, Ask(f, endpoint) PROVE UsageInv'
  <2>1. StoredInv' /\ now' = now /\ table' = table
    BY <1>4, <1>5 DEF Ask, history
  <2>2. f.days \in Nat
    BY DayAssumption DEF Filters
  <2> QED
    BY <1>0, <1>5, <2>1, <2>2 DEF Ask, UsageInv, ReportInv
<1>6. CASE AskInvalid
  <2>1. StoredInv' /\ now' = now /\ table' = table
    BY <1>4, <1>6 DEF AskInvalid, history
  <2> QED
    BY <1>0, <1>6, <2>1 DEF AskInvalid, UsageInv, ReportInv
<1>7. CASE Query
  <2>1. StoredInv'
    BY <1>4, <1>7 DEF Query, QuerySummary, QueryPolicies, QueryTrends, Unavailable, Answer
  <2> QED
    BY <1>7, <2>1, ReportQuery DEF UsageInv
<1> QED
  BY <1>1, <1>2, <1>3, <1>5, <1>6, <1>7 DEF Next

LEMMA UsageSafe == Spec => []UsageInv
  BY UsageStart, UsageStep, PTL DEF Spec

\* A finished report (approvalSummaryHandler, approvalTrendsHandler) counts, in
\* every figure, at least the rows committed when it was asked for that are
\* still in the period and at most those committed by now, although its
\* queries are separate transactions.
THEOREM ReportsCurrent == Spec => []ReportIsCurrent
<1>1. UsageInv => ReportIsCurrent
  <2> SUFFICES ASSUME UsageInv, status = 200 PROVE ReportIsCurrent
    BY DEF ReportIsCurrent
  <2>1. kind = "summary" => Between(Low, summary, High)
    BY DEF UsageInv, ReportInv
  <2>2. GroupsCurrent
    BY DEF UsageInv, ReportInv
  <2> QED
    BY <2>1, <2>2 DEF ReportIsCurrent, GroupsCurrent, Low, High, InGroup, GroupKey
<1> QED
  BY <1>1, UsageSafe, PTL

-----------------------------------------------------------------------------
(* A drained stream. *)

\* The rows that a day of the trends counts, and the approvals of that day.
RowsOn(f, d) == {row \in Selected(f) : Day(row.approved_at) = d}
ApprovedOn(f, d) ==
  {i \in Ids : /\ Day(made[i].approved_at_ms) = d
               /\ f.client_id \in {Every, made[i].client_id}
               /\ f.resource \in {Every, made[i].resource}}

SameGroup(f, row) == {r \in Selected(f) : DayOfPolicy(r) = DayOfPolicy(row)}
ResultOf(f, row) == [group |-> DayOfPolicy(row), total_approvals |-> Cardinality(SameGroup(f, row)),
                     total_cost |-> Cost(SameGroup(f, row))]

\* The results for a day add up to its rows: grouping loses none and counts
\* none twice.
LEMMA TrendsAddUp ==
  ASSUME StoredInv, NEW f, NEW d
  PROVE  LET shown == {g \in ListDailyApprovalTrends(f) : g.group[1] = d}
         IN  /\ SumFunctionOnSet([g \in shown |-> g.total_approvals], shown) = Cardinality(RowsOn(f, d))
             /\ SumFunctionOnSet([g \in shown |-> g.total_cost], shown) = Cost(RowsOn(f, d))
<1> DEFINE shown == {g \in ListDailyApprovalTrends(f) : g.group[1] = d}
           R == RowsOn(f, d)
           k == [row \in R |-> ResultOf(f, row)]
           counts == [g \in shown |-> g.total_approvals]
           costs == [g \in shown |-> g.total_cost]
           ones == [row \in R |-> 1]
           Of(g) == {row \in R : k[row] = g}
<1>1. /\ Selected(f) \in SUBSET table /\ R \in SUBSET Selected(f) /\ R \in SUBSET table
      /\ IsFiniteSet(table) /\ \A row \in table : row.cost \in Nat
  BY TableFinite, TableRows DEF StoredInv, Selected, RowsOn
<1>2. IsFiniteSet(R) /\ \A row \in R : row.cost \in Nat
  BY <1>1, FS_Subset
<1>3. ListDailyApprovalTrends(f) = {ResultOf(f, row) : row \in Selected(f)}
  BY DEF ListDailyApprovalTrends, Grouped, ResultOf, SameGroup
<1>4. \A row : ResultOf(f, row).group = DayOfPolicy(row) /\ DayOfPolicy(row)[1] = Day(row.approved_at)
  BY DEF ResultOf, DayOfPolicy
<1>5. shown = {k[row] : row \in R}
  BY <1>3, <1>4 DEF RowsOn
<1>6. IsFiniteSet(shown)
  <2>1. k \in Surjection(R, shown)
    BY <1>5 DEF Surjection
  <2> QED
    BY <1>2, <2>1, FS_Surjection
<1>7. ASSUME NEW g \in shown
      PROVE  g.total_approvals = Cardinality(Of(g)) /\ g.total_cost = Cost(Of(g)) /\ Of(g) \in SUBSET R
  <2>1. PICK row \in R : g = ResultOf(f, row)
    BY <1>5, <1>7
  <2>2. \A r \in Selected(f) : DayOfPolicy(r) = DayOfPolicy(row) => ResultOf(f, r) = g /\ r \in R
    BY <1>4, <2>1 DEF RowsOn, ResultOf, SameGroup
  <2>3. SameGroup(f, row) = Of(g)
    BY <1>1, <1>4, <2>1, <2>2 DEF SameGroup
  <2>4. g.total_approvals = Cardinality(SameGroup(f, row)) /\ g.total_cost = Cost(SameGroup(f, row))
    BY <2>1 DEF ResultOf
  <2> HIDE DEF k
  <2> QED
    BY <2>3, <2>4
<1>8. {row \in R : k[row] \in shown} = R
  BY <1>5
<1> HIDE DEF R, k, shown
<1>9. SumFunctionOnSet(counts, shown) = Cardinality(R)
  <2>1. ones \in [R -> Nat] /\ \A row \in R : ones[row] = 1
    OBVIOUS
  <2> HIDE DEF ones, Of
  <2>2. \A S \in SUBSET R : SumFunctionOnSet(ones, S) = Cardinality(S)
    BY <1>2, <2>1, CardinalityIsSum
  <2>3. \A g \in shown : Cardinality(Of(g)) \in Nat
    <3>1. \A S \in SUBSET R : Cardinality(S) \in Nat
      BY <1>2, FS_Subset, FS_CardinalityType
    <3> QED
      BY <1>7, <3>1
  <2>4. counts \in [shown -> Nat] /\ \A g \in shown : counts[g] = SumFunctionOnSet(ones, Of(g))
    BY <1>7, <2>2, <2>3
  <2> HIDE DEF counts
  <2>5. SumFunctionOnSet(counts, shown) = SumFunctionOnSet(ones, {row \in R : k[row] \in shown})
    <3>1. \A g \in shown : counts[g] = SumFunctionOnSet(ones, {row \in R : k[row] = g})
      BY <2>4 DEF Of
    <3> QED
      BY <1>2, <1>6, <2>1, <2>4, <3>1, SumByGroup
  <2> QED
    BY <1>8, <2>2, <2>5
<1>10. SumFunctionOnSet(costs, shown) = Cost(R)
  <2>1. Charges(R) \in [R -> Nat]
    BY <1>2 DEF Charges
  <2> HIDE DEF Of
  <2>2. \A S \in SUBSET R : Cost(S) = SumFunctionOnSet(Charges(R), S)
    BY <1>2, CostOfPart
  <2>3. \A S \in SUBSET R : SumFunctionOnSet(Charges(R), S) \in Nat
    BY <1>2, <2>1, SumType
  <2>4. costs \in [shown -> Nat] /\ \A g \in shown : costs[g] = SumFunctionOnSet(Charges(R), Of(g))
    BY <1>7, <2>2, <2>3
  <2> HIDE DEF costs
  <2>5. SumFunctionOnSet(costs, shown) = SumFunctionOnSet(Charges(R), {row \in R : k[row] \in shown})
    <3>1. \A g \in shown : costs[g] = SumFunctionOnSet(Charges(R), {row \in R : k[row] = g})
      BY <2>4 DEF Of
    <3> QED
      BY <1>2, <1>6, <2>1, <2>4, <3>1, SumByGroup
  <2> QED
    BY <1>8, <2>2, <2>5
<1> QED
  BY <1>9, <1>10 DEF R, shown

\* The rows of a day are its approvals, one for each.
LEMMA RowsAreApprovals ==
  ASSUME StoredInv, stream = {}, NEW f \in Filters, NEW d \in Nat, d * DayTicks >= now - f.days * DayTicks
  PROVE  /\ Cardinality(ApprovedOn(f, d)) = Cardinality(RowsOn(f, d))
         /\ SumFunctionOnSet([i \in ApprovedOn(f, d) |-> made[i].cost], ApprovedOn(f, d)) = Cost(RowsOn(f, d))
<1> DEFINE A == ApprovedOn(f, d)
           R == RowsOn(f, d)
           k == [i \in A |-> RowAt(made, i)]
           v == [i \in A |-> made[i].cost]
           reach == f.days * DayTicks
<1>1. /\ made \in Seq(Approvals) /\ now \in Nat /\ \A i \in Ids : RowAt(made, i) \in table
      /\ \A row \in table : row.stream_id \in Ids /\ row = RowAt(made, row.stream_id)
  BY DEF StoredInv, RowsOf, Ids
<1>2. \A i \in Ids : /\ made[i].approved_at_ms \in Nat /\ made[i].cost \in Nat
                     /\ RowAt(made, i).stream_id = i /\ RowAt(made, i).approved_at = made[i].approved_at_ms
                     /\ RowAt(made, i).client_id = made[i].client_id /\ RowAt(made, i).resource = made[i].resource
                     /\ RowAt(made, i).cost = made[i].cost
  BY <1>1, RowType DEF Ids, Approvals, RowAt
<1>3. ASSUME NEW t \in Nat, Day(t) = d PROVE t >= now - reach
  <2>1. DayTicks * (t \div DayTicks) <= t /\ DayTicks * d = d * DayTicks /\ DayTicks * d \in Nat
    BY DayAssumption, DivBounds, MulNat
  <2>2. reach \in Nat
    BY DayAssumption, MulNat DEF Filters
  <2>3. d * DayTicks <= t
    BY <1>3, <2>1 DEF Day
  <2> HIDE DEF reach
  <2> QED
    BY <1>1, <2>1, <2>2, <2>3 DEF reach
<1>4. Selected(f) = {row \in table : /\ row.approved_at >= now - reach
                                    /\ f.client_id \in {Every, row.client_id}
                                    /\ f.resource \in {Every, row.resource}}
  BY DEF Selected
<1> HIDE DEF reach
<1>5. \A i \in A : i \in Ids /\ RowAt(made, i) \in R
  BY <1>1, <1>2, <1>3, <1>4 DEF ApprovedOn, RowsOn
<1>6. \A row \in R : row.stream_id \in A /\ row = RowAt(made, row.stream_id)
  BY <1>1, <1>2, <1>4 DEF ApprovedOn, RowsOn
<1>7. IsFiniteSet(R) /\ IsFiniteSet(A) /\ \A row \in R : row.cost \in Nat
  <2>1. R \in SUBSET table /\ A \in SUBSET (1..Len(made))
    BY <1>4 DEF RowsOn, ApprovedOn, Ids
  <2>2. IsFiniteSet(table) /\ \A row \in table : row.cost \in Nat
    BY TableFinite, TableRows DEF StoredInv
  <2>3. IsFiniteSet(1..Len(made))
    BY <1>1, LenProperties, FS_Interval
  <2> QED
    BY <2>1, <2>2, <2>3, FS_Subset
<1> HIDE DEF A, R
<1>8. k \in Bijection(A, R)
  <2>1. k \in [A -> R] /\ \A row \in R : k[row.stream_id] = row
    BY <1>5, <1>6
  <2>2. \A i, j \in A : k[i] = k[j] => i = j
    BY <1>2, <1>5
  <2> HIDE DEF k
  <2> QED
    BY <1>6, <2>1, <2>2 DEF Bijection, Injection, Surjection, IsInjective
<1>9. Cardinality(A) = Cardinality(R)
  <2> HIDE DEF k
  <2> QED
    BY <1>7, <1>8, FS_Bijection DEF ExistsBijection
<1>10. SumFunctionOnSet(v, A) = Cost(R)
  <2>1. v \in [A -> Nat] /\ Charges(R) \in [R -> Nat]
    BY <1>2, <1>5, <1>7 DEF Charges
  <2>2. ASSUME NEW row \in R PROVE Charges(R)[row] = SumFunctionOnSet(v, {i \in A : k[i] = row})
    <3>1. {i \in A : k[i] = row} = {row.stream_id}
      BY <1>2, <1>5, <1>6
    <3>2. row.stream_id \in A /\ v[row.stream_id] = row.cost
      BY <1>2, <1>5, <1>6
    <3> HIDE DEF v, k
    <3>3. SumFunctionOnSet(v, {row.stream_id}) = v[row.stream_id]
      BY <1>7, <2>1, <3>2, SumSingle
    <3> QED
      BY <3>1, <3>2, <3>3 DEF Charges
  <2>3. {i \in A : k[i] \in R} = A
    BY <1>5
  <2> HIDE DEF v, k
  <2>4. SumFunctionOnSet(Charges(R), R) = SumFunctionOnSet(v, {i \in A : k[i] \in R})
    BY <1>7, <2>1, <2>2, SumByGroup
  <2>5. Cost(R) = SumFunctionOnSet(Charges(R), R)
    BY DEF Cost, Charges
  <2> QED
    BY <2>3, <2>4, <2>5
<1> QED
  BY <1>9, <1>10 DEF A, R

\* Once the stream is drained, however late and often its events were stored
\* (ON CONFLICT DO NOTHING), the daily trends show what the script approved on
\* each day in the period, to the token.
THEOREM DrainedReportsExact == Spec => []DrainedReportIsExact
<1>1. UsageInv => DrainedReportIsExact
  <2> SUFFICES ASSUME UsageInv, stream = {}, NEW f \in Filters,
                      NEW d \in {x \in 0..Day(now) : x * DayTicks >= now - f.days * DayTicks}
               PROVE  LET approved == {i \in DOMAIN made :
                                         /\ Day(made[i].approved_at_ms) = d
                                         /\ f.client_id \in {Every, made[i].client_id}
                                         /\ f.resource \in {Every, made[i].resource}}
                          shown == {g \in ListDailyApprovalTrends(f) : g.group[1] = d}
                      IN  /\ Cardinality(approved) = SumFunctionOnSet([g \in shown |-> g.total_approvals], shown)
                          /\ SumFunctionOnSet([i \in approved |-> made[i].cost], approved)
                               = SumFunctionOnSet([g \in shown |-> g.total_cost], shown)
    BY DEF DrainedReportIsExact
  <2> DEFINE approved == {i \in DOMAIN made :
                            /\ Day(made[i].approved_at_ms) = d
                            /\ f.client_id \in {Every, made[i].client_id}
                            /\ f.resource \in {Every, made[i].resource}}
             shown == {g \in ListDailyApprovalTrends(f) : g.group[1] = d}
  <2>1. StoredInv /\ DOMAIN made = Ids /\ d \in Nat /\ d * DayTicks >= now - f.days * DayTicks
    BY LenProperties DEF UsageInv, StoredInv, RowsOf, Ids
  <2>2. approved = ApprovedOn(f, d)
    BY <2>1 DEF ApprovedOn
  <2>3. /\ SumFunctionOnSet([g \in shown |-> g.total_approvals], shown) = Cardinality(RowsOn(f, d))
        /\ SumFunctionOnSet([g \in shown |-> g.total_cost], shown) = Cost(RowsOn(f, d))
    BY <2>1, TrendsAddUp
  <2>4. /\ Cardinality(approved) = Cardinality(RowsOn(f, d))
        /\ SumFunctionOnSet([i \in approved |-> made[i].cost], approved) = Cost(RowsOn(f, d))
    <3> HIDE DEF approved
    <3> QED
      BY <2>1, <2>2, RowsAreApprovals
  <2> QED
    BY <2>3, <2>4
<1> QED
  BY <1>1, UsageSafe, PTL
=============================================================================
