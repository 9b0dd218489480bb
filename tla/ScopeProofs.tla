----------------------------- MODULE ScopeProofs -----------------------------
(***************************************************************************)
(* What is in scope, and which products cover it: for any keys and         *)
(* spellings, feeds, edits and requests; and for any catalog, products,    *)
(* baselines and assessments.                                              *)
(*                                                                         *)
(* Scope: approvals, queues and scope agree, and people outrank Liongard,  *)
(* Liongard a workbook. DecisionsAreSound is not inductive. What a request *)
(* has read must still be a change of its result; what it counted as the   *)
(* last change must leave no other pending; and while requests run one at  *)
(* a time what it read is what is there: the result it will supersede, the *)
(* change still pending, the entity still known. RowsOK, ResultsOK,        *)
(* RequestsOK and AloneOK say so.                                          *)
(*                                                                         *)
(* Coverage: what every handler of the engine does to an assessment is one *)
(* relation, EngineMoves: a row stays or its responsibility is resolved    *)
(* from its new contributors, a status stays or asks for evidence or for a *)
(* person, the score is recomputed. From it alone the responsibilities and *)
(* the score follow (CovInv), for any number of assessments. That the      *)
(* contributors are the active products' is true of one assessment only    *)
(* (OneAssessment): a request looks at one.                                *)
(***************************************************************************)
EXTENDS Scope, Coverage, SetLemmas, SequenceTheorems

ScSpec == ScInit /\ [][ScNext]_scVars

Verdicts == {"approved", "rejected"}
Entity == [key : Keys, data : Nat, overlay : Nat, status : Statuses,
           bound : BOOLEAN, source : Sources]

\* A row, if any: never pending.
OneRow(rows) ==
    /\ rows \subseteq ScopeRow
    /\ \A row, new \in rows : row = new
    /\ \A row \in rows : row.status # "pending_approval"

\* Rows and what was decided about them.
RowsOK ==
    /\ scope = [k \in Keys |-> scope[k]]
    /\ \A k \in Keys : OneRow(scope[k])
    /\ approvals \subseteq Approval
    /\ DecisionsKeepTheirRow
    /\ edits \in 0..MaxEdits
    /\ scOverlap \in BOOLEAN

\* A result and its queue.
News == UNION {[S -> SyncChange] : S \in SUBSET Keys}
Result == [status : ResultStatus, news : News]

\* A result that says reviewed has no entity left to decide.
ResultsOK ==
    /\ results \in Seq(Result) /\ Len(results) <= MaxResults
    /\ \A i \in DOMAIN results : results[i].status = "reviewed" => PendingIn(i) = {}

\* A request shows or has read entities, or decides a change of a result.
RequestOK(t) ==
    /\ t.op \in {"idle", "screen", "import", "sync", "decide", "counted"}
    /\ t.op = "idle" => t = ScIdle
    /\ t.op = "screen" => t.changes \subseteq Entity
    /\ t.op = "import" =>
          /\ t.batch \subseteq Entity /\ t.left \subseteq t.batch
          /\ t.read = [k \in Keys |-> t.read[k]] /\ \A k \in Keys : OneRow(t.read[k])
          /\ \A e \in t.batch \ t.left : e.status # "pending_approval"
    /\ t.op = "sync" => t.new \subseteq Entity /\ t.changed \subseteq Entity
    /\ t.op \in {"decide", "counted"} =>
          /\ t.res \in DOMAIN results /\ t.key \in DOMAIN results[t.res].news
          /\ t.verdict \in Verdicts /\ OneRow(t.read)
    /\ t.op = "counted" =>
          t.last \in BOOLEAN /\ (t.last => PendingIn(t.res) \subseteq {t.key})

RequestsOK ==
    /\ scTxn = [r \in ScRequests |-> scTxn[r]]
    /\ \A r \in ScRequests : RequestOK(scTxn[r])

\* One at a time, what a request read is what is there.
IsFresh(t) ==
    /\ t.op = "sync" =>
          /\ t.prior = PendingResults
          /\ \A e \in t.new : e.status = "pending_approval"
          /\ \A e \in t.changed : ~ IsNew(e)
    /\ t.op = "screen" =>
          \A e \in t.changes :
              e.source = "liongard" /\ e.status # "pending_approval" => ~ IsNew(e)
    /\ t.op = "import" =>
          /\ \A e \in t.batch :
                e.source = "liongard" /\ e.status # "pending_approval" => ~ IsNew(e)
          /\ \A e \in t.batch \ t.left : t.read[e.key] = scope[e.key]
    /\ t.op \in {"decide", "counted"} =>
          t.key \in PendingIn(t.res) /\ t.read = scope[t.key]
    /\ t.op = "counted" => t.last = Reviewed(t.res, t.key)

\* One at a time, one result waits, and each approval is what its change says.
Queue ==
    /\ \A i, j \in PendingResults : i = j
    /\ \A i \in PendingResults : PendingIn(i) # {}
    /\ \A a \in approvals :
          /\ a.res \in DOMAIN results /\ a.key \in DOMAIN results[a.res].news
          /\ results[a.res].news[a.key].resolution = a.verdict

AloneOK ==
    ~ scOverlap =>
        /\ \A r, s \in ScRequests : scTxn[r] # ScIdle /\ scTxn[s] # ScIdle => r = s
        /\ \A r \in ScRequests : IsFresh(scTxn[r])
        /\ Queue

ScInv == RowsOK /\ ResultsOK /\ RequestsOK /\ AloneOK

-----------------------------------------------------------------------------
(* Reading a feed.                                                         *)

\* The first usable id of a record is a key.
LEMMA NaturalKeyIsAKey ==
    ASSUME NEW rec, rec.ids \in Seq(Keys \cup NoId), NaturalKeys(rec) # {}
    PROVE  NaturalKey(rec) \in Keys
<1>1. NaturalKeys(rec) \in SUBSET Int /\ NaturalKeys(rec) \subseteq 1..Len(rec.ids)
      /\ Len(rec.ids) \in Nat
  BY DEF NaturalKeys
<1>2. IsFiniteSet(NaturalKeys(rec))
  <2>1. IsFiniteSet(1..Len(rec.ids))
    BY <1>1, FS_Interval
  <2> QED
    BY <1>1, <2>1, FS_Subset
<1>3. Min(NaturalKeys(rec)) \in NaturalKeys(rec)
  BY <1>1, <1>2, MinIsAMember
<1>4. \A i \in NaturalKeys(rec) : rec.ids[i] \in Keys
  BY <1>1 DEF NaturalKeys
<1> QED
  BY <1>3, <1>4 DEF NaturalKey

\* What reconcile compares is among what was read.
LEMMA IncomingWasRead ==
    ASSUME NEW entities, \A i \in DOMAIN entities : i \in Int,
           IsFiniteSet(DOMAIN entities), NEW e \in Incoming(entities)
    PROVE  \E i \in DOMAIN entities : e = entities[i]
<1> DEFINE Spells(f) == {i \in DOMAIN entities : Fold[entities[i].key] = f}
<1>1. PICK f : Spells(f) # {} /\ e = entities[Max(Spells(f))]
  BY DEF Incoming
<1>2. Spells(f) \subseteq DOMAIN entities /\ \A i \in Spells(f) : i \in Int
  OBVIOUS
<1> HIDE DEF Spells
<1>3. Spells(f) \in SUBSET Int /\ IsFiniteSet(Spells(f))
  BY <1>2, FS_Subset
<1>4. Max(Spells(f)) \in Spells(f)
  BY <1>1, <1>3, MaxIsAMember
<1> QED
  BY <1>1, <1>2, <1>4

\* The usable records of a feed are finitely many.
LEMMA UsableIsFinite ==
    ASSUME NEW S, NEW feed \in Seq(S)
    PROVE  IsFiniteSet(Usable(feed)) /\ \A i \in Usable(feed) : i \in Int /\ feed[i] \in S
<1>1. Len(feed) \in Nat /\ DOMAIN feed = 1..Len(feed) /\ \A i \in 1..Len(feed) : feed[i] \in S
  OBVIOUS
<1>2. IsFiniteSet(1..Len(feed))
  BY <1>1, FS_Interval
<1>3. Usable(feed) \subseteq 1..Len(feed)
  BY <1>1 DEF Usable
<1> QED
  BY <1>1, <1>2, <1>3, FS_Subset

\* What a workbook's dry run reads.
LEMMA SheetIsRead ==
    ASSUME NEW sheet \in Sheets,
           NEW e \in Incoming([i \in Usable(sheet) |-> WorkbookRow(sheet[i])])
    PROVE  e \in Entity /\ e.source = "workbook"
<1> DEFINE S == [ids : Seq(Keys \cup NoId), data : Nat, overlay : Nat, status : Statuses]
           entities == [i \in Usable(sheet) |-> WorkbookRow(sheet[i])]
<1>1. sheet \in Seq(S)
  BY FeedAssumption
<1>2. IsFiniteSet(Usable(sheet)) /\ \A i \in Usable(sheet) : i \in Int /\ sheet[i] \in S
  <2> HIDE DEF S
  <2> QED
    BY <1>1, UsableIsFinite
<1>3. PICK i \in Usable(sheet) : e = WorkbookRow(sheet[i])
  <2>1. DOMAIN entities = Usable(sheet) /\ \A i \in Usable(sheet) : entities[i] = WorkbookRow(sheet[i])
    OBVIOUS
  <2> HIDE DEF entities
  <2> QED
    BY <1>2, <2>1, IncomingWasRead DEF entities
<1>4. NaturalKey(sheet[i]) \in Keys
  BY <1>2, NaturalKeyIsAKey DEF Usable
<1> QED
  BY <1>2, <1>3, <1>4 DEF WorkbookRow, Entity, Sources, Statuses

\* What a Liongard pull reads.
LEMMA InventoryIsRead ==
    ASSUME NEW inv \in Inventories,
           NEW e \in Incoming([i \in Usable(inv) |-> DeviceOrPerson(inv[i])])
    PROVE  e \in Entity /\ e.source = "liongard"
<1> DEFINE S == [ids : Seq(Keys \cup NoId), data : Nat]
           entities == [i \in Usable(inv) |-> DeviceOrPerson(inv[i])]
<1>1. inv \in Seq(S)
  BY FeedAssumption
<1>2. IsFiniteSet(Usable(inv)) /\ \A i \in Usable(inv) : i \in Int /\ inv[i] \in S
  <2> HIDE DEF S
  <2> QED
    BY <1>1, UsableIsFinite
<1>3. PICK i \in Usable(inv) : e = DeviceOrPerson(inv[i])
  <2>1. DOMAIN entities = Usable(inv) /\ \A i \in Usable(inv) : entities[i] = DeviceOrPerson(inv[i])
    OBVIOUS
  <2> HIDE DEF entities
  <2> QED
    BY <1>2, <2>1, IncomingWasRead DEF entities
<1>4. NaturalKey(inv[i]) \in Keys
  BY <1>2, NaturalKeyIsAKey DEF Usable
<1> QED
  BY <1>2, <1>3, <1>4 DEF DeviceOrPerson, Entity, Sources, Statuses

-----------------------------------------------------------------------------
(* Rows.                                                                   *)

\* repo.upsert over no row or one, where it does not refuse, leaves one.
LEMMA UpsertIsOneRow ==
    ASSUME NEW read, OneRow(read), NEW e, Stored(e) \in ScopeRow, ~ Refused(read, e)
    PROVE  OneRow(Upsert(read, e)) /\ Upsert(read, e) # {}
<1>1. e.status # "pending_approval"
  BY DEF Refused
<1>2. CASE read = {}
  <2>1. Upsert(read, e) = {Stored(e)} /\ Stored(e).status = e.status
    BY <1>2 DEF Upsert, Stored
  <2> HIDE DEF Stored
  <2> QED
    BY <1>1, <2>1 DEF OneRow
<1>3. CASE read # {}
  <2>1. PICK row \in read : read = {row}
    BY <1>3 DEF OneRow
  <2>2. Upsert(read, e) = {Merged(row, e)}
    BY <2>1 DEF Upsert
  <2>3. row \in ScopeRow /\ row.status # "pending_approval"
    BY DEF OneRow
  <2>4. /\ e.status \in Statuses /\ e.source \in Sources
        /\ e.data \in Nat /\ e.overlay \in Nat
    BY DEF Stored, ScopeRow
  <2>5. Merged(row, e) \in ScopeRow /\ Merged(row, e).status # "pending_approval"
    BY <1>1, <2>3, <2>4 DEF Merged, ScopeRow
  <2> QED
    BY <2>2, <2>5 DEF OneRow
<1> QED
  BY <1>2, <1>3

\* A result is its status and its queue, a change for each of some keys.
LEMMA ResultShape ==
    ASSUME results \in Seq(Result), NEW i \in DOMAIN results
    PROVE  /\ results[i] = [status |-> results[i].status, news |-> results[i].news]
           /\ results[i].status \in ResultStatus
           /\ results[i].news = [k \in DOMAIN results[i].news |-> results[i].news[k]]
           /\ DOMAIN results[i].news \subseteq Keys
           /\ \A k \in DOMAIN results[i].news : results[i].news[k] \in SyncChange
           /\ i \in 1..Len(results) /\ i \in Nat /\ Len(results) \in Nat
<1>1. results[i] \in Result /\ i \in 1..Len(results) /\ Len(results) \in Nat
  OBVIOUS
<1>2. /\ results[i] = [status |-> results[i].status, news |-> results[i].news]
      /\ results[i].status \in ResultStatus /\ results[i].news \in News
  BY <1>1 DEF Result
<1>3. PICK S \in SUBSET Keys : results[i].news \in [S -> SyncChange]
  BY <1>2 DEF News
<1> QED
  BY <1>1, <1>2, <1>3

\* What a decision makes of the row it read.
LEMMA DecidedRow ==
    ASSUME RowsOK, ResultsOK, RequestsOK, NEW r \in ScRequests,
           scTxn[r].op \in {"decide", "counted"}
    PROVE  LET t == scTxn[r]
           IN  /\ OneRow(Upsert(t.read, Decided(t))) /\ Upsert(t.read, Decided(t)) # {}
               /\ Decided(t).source = "liongard" /\ Stored(Decided(t)) \in ScopeRow
               /\ ~ Refused(t.read, Decided(t))
<1> DEFINE t == scTxn[r]
<1>1. /\ t.res \in DOMAIN results /\ t.key \in DOMAIN results[t.res].news
      /\ OneRow(t.read)
  BY DEF RequestsOK, RequestOK
<1>2. results[t.res].news[t.key] \in SyncChange
  BY <1>1, ResultShape DEF ResultsOK
<1>3. /\ Decided(t).status = "active" /\ Decided(t).source = "liongard"
      /\ Stored(Decided(t)) \in ScopeRow
  BY <1>2 DEF Decided, Stored, ScopeRow, SyncChange, Statuses, Sources
<1>4. ~ Refused(t.read, Decided(t))
  BY <1>1, <1>3 DEF Refused, OneRow
<1> QED
  BY <1>1, <1>3, <1>4, UpsertIsOneRow

\* An update of the columns that differ leaves one row where one was.
LEMMA WrittenIsOneRow ==
    ASSUME NEW read, OneRow(read), NEW new, OneRow(new), NEW cur, OneRow(cur),
           read # {}, new # {}, cur # {}
    PROVE  OneRow(Written(read, new, cur)) /\ Written(read, new, cur) # {}
<1>1. PICK o \in read, n \in new, c \in cur : read = {o} /\ new = {n} /\ cur = {c}
  BY DEF OneRow
<1> DEFINE w == [f \in DOMAIN c |->
                  IF \E g \in Column(f) : n[g] # o[g] THEN n[f] ELSE c[f]]
<1>2. Written(read, new, cur) = {w}
  BY <1>1 DEF Written
<1>3. o \in ScopeRow /\ n \in ScopeRow /\ c \in ScopeRow
      /\ n.status # "pending_approval" /\ c.status # "pending_approval"
  BY DEF OneRow
<1>4. w \in ScopeRow /\ w.status # "pending_approval"
  BY <1>3 DEF ScopeRow
<1> QED
  BY <1>2, <1>4 DEF OneRow

\* A commit leaves one row where there was none or one.
LEMMA SavedIsOneRow ==
    ASSUME NEW read, OneRow(read), NEW new, OneRow(new), new # {}, NEW cur, OneRow(cur),
           (read = {}) = (cur = {})
    PROVE  OneRow(Saved(read, new, cur)) /\ Saved(read, new, cur) # {}
BY WrittenIsOneRow DEF Saved

\* What nobody wrote since it was read is replaced by what the upsert made of it.
LEMMA SavedOverTheSame ==
    ASSUME NEW read, OneRow(read), NEW new, OneRow(new), new # {}
    PROVE  Saved(read, new, read) = new
<1>1. CASE read = {}
  BY <1>1 DEF Saved
<1>2. CASE read # {}
  <2>1. PICK o \in read, n \in new : read = {o} /\ new = {n}
    BY <1>2 DEF OneRow
  <2>2. o \in ScopeRow /\ n \in ScopeRow
    BY DEF OneRow
  <2> DEFINE w == [f \in DOMAIN o |->
                     IF \E g \in Column(f) : n[g] # o[g] THEN n[f] ELSE o[f]]
  <2>3. Saved(read, new, read) = {w}
    BY <2>1, <1>2 DEF Saved, Written
  <2>4. \A f \in DOMAIN o : f \in Column(f)
    BY DEF Column
  <2>5. \A f \in DOMAIN o : w[f] = n[f]
    BY <2>4
  <2>6. w = n
    <3>1. DOMAIN w = DOMAIN o /\ w = [f \in DOMAIN o |-> w[f]]
      OBVIOUS
    <3>2. DOMAIN o = DOMAIN n /\ n = [f \in DOMAIN n |-> n[f]]
      BY <2>2 DEF ScopeRow
    <3> QED
      BY <2>5, <3>1, <3>2
  <2> QED
    BY <2>1, <2>3, <2>6
<1> QED
  BY <1>1, <1>2

\* The row a decision writes.
LEMMA DecisionIsOneRow ==
    ASSUME RowsOK, ResultsOK, RequestsOK, NEW r \in ScRequests, DecideCommit(r)
    PROVE  LET t == scTxn[r]
           IN  /\ t.key \in Keys /\ OneRow(scope'[t.key]) /\ scope'[t.key] # {}
               /\ \A k \in Keys : k # t.key => scope'[k] = scope[k]
               /\ scope' = [k \in Keys |-> scope'[k]]
<1> DEFINE t == scTxn[r]
           new == Upsert(t.read, Decided(t))
<1>1. /\ t.op \in {"decide", "counted"} /\ (t.read = {}) = (scope[t.key] = {})
      /\ scope' = [scope EXCEPT ![t.key] = Saved(t.read, new, scope[t.key])]
  BY DEF DecideCommit
<1>2. OneRow(new) /\ new # {}
  BY <1>1, DecidedRow
<1>3. t.res \in DOMAIN results /\ t.key \in DOMAIN results[t.res].news /\ OneRow(t.read)
  BY <1>1 DEF RequestsOK, RequestOK
<1>4. t.key \in Keys
  BY <1>3, ResultShape DEF ResultsOK
<1>5. OneRow(scope[t.key])
  BY <1>4 DEF RowsOK
<1> HIDE DEF new
<1>6. /\ scope'[t.key] = Saved(t.read, new, scope[t.key])
      /\ \A k \in Keys : k # t.key => scope'[k] = scope[k]
      /\ scope' = [k \in Keys |-> scope'[k]]
  BY <1>1, <1>4 DEF RowsOK
<1> QED
  BY <1>1, <1>2, <1>3, <1>4, <1>5, <1>6, SavedIsOneRow

\* What a decision does to its result: the change is resolved, no other one is
\* touched.
LEMMA DecisionResolves ==
    ASSUME ResultsOK, RequestsOK, NEW r \in ScRequests, DecideCommit(r)
    PROVE  LET t == scTxn[r]
               last == IF t.op = "counted" THEN t.last ELSE Reviewed(t.res, t.key)
           IN  /\ results' \in Seq(Result) /\ Len(results') = Len(results)
               /\ DOMAIN results' = DOMAIN results
               /\ \A i \in DOMAIN results : i # t.res => results'[i] = results[i]
               /\ results'[t.res].status = IF last THEN "reviewed" ELSE results[t.res].status
               /\ DOMAIN results'[t.res].news = DOMAIN results[t.res].news
               /\ \A k \in DOMAIN results[t.res].news :
                     results'[t.res].news[k].resolution =
                        IF k = t.key THEN t.verdict ELSE results[t.res].news[k].resolution
<1> DEFINE t == scTxn[r]
           i == t.res
           last == IF t.op = "counted" THEN t.last ELSE Reviewed(t.res, t.key)
           status == IF last THEN "reviewed" ELSE results[i].status
           change == [results[i].news[t.key] EXCEPT !.resolution = t.verdict]
           news == [results[i].news EXCEPT ![t.key] = change]
           result == [status |-> status, news |-> news]
<1>1. /\ t.op \in {"decide", "counted"}
      /\ results' = [results EXCEPT ![t.res].news[t.key].resolution = t.verdict,
                                    ![t.res].status = IF last THEN "reviewed" ELSE @]
  BY Zenon DEF DecideCommit
<1>2. i \in DOMAIN results /\ t.key \in DOMAIN results[i].news /\ t.verdict \in Verdicts
  BY <1>1 DEF RequestsOK, RequestOK
<1>3. /\ results[i] = [status |-> results[i].status, news |-> results[i].news]
      /\ results[i].status \in ResultStatus
      /\ results[i].news = [k \in DOMAIN results[i].news |-> results[i].news[k]]
      /\ DOMAIN results[i].news \subseteq Keys
      /\ \A k \in DOMAIN results[i].news : results[i].news[k] \in SyncChange
      /\ results \in Seq(Result)
  BY <1>2, ResultShape DEF ResultsOK
<1>4. change \in SyncChange /\ change.resolution = t.verdict
  BY <1>2, <1>3 DEF SyncChange, Resolutions, Verdicts
<1> HIDE DEF change
<1>5. /\ news \in [DOMAIN results[i].news -> SyncChange] /\ news[t.key] = change
      /\ \A k \in DOMAIN results[i].news : k # t.key => news[k] = results[i].news[k]
  BY <1>2, <1>3, <1>4
<1>6. news \in News /\ status \in ResultStatus
  BY <1>3, <1>5 DEF News, ResultStatus
<1>7. results' = [results EXCEPT ![i] = result]
  <2>1. results' = [results EXCEPT ![i] =
                      [[results[i] EXCEPT !.news = [results[i].news EXCEPT ![t.key] =
                            [results[i].news[t.key] EXCEPT !.resolution = t.verdict]]]
                         EXCEPT !.status = status]]
    BY <1>1, <1>2
  <2>2. [[results[i] EXCEPT !.news = news] EXCEPT !.status = status] = result
    <3> HIDE DEF news, status
    <3>1. [results[i] EXCEPT !.news = news] = [status |-> results[i].status, news |-> news]
      BY <1>3
    <3>2. [[status |-> results[i].status, news |-> news] EXCEPT !.status = status]
             = [status |-> status, news |-> news]
      OBVIOUS
    <3> QED
      BY <3>1, <3>2
  <2> QED
    BY <2>1, <2>2 DEF change
<1> HIDE DEF news, status
<1>8. result \in Result /\ result.news = news /\ result.status = status
  BY <1>6 DEF Result
<1> HIDE DEF result
<1>9. /\ results' \in Seq(Result) /\ Len(results') = Len(results)
      /\ DOMAIN results' = DOMAIN results
      /\ results'[i] = result /\ \A j \in DOMAIN results : j # i => results'[j] = results[j]
  <2>1. i \in 1..Len(results) /\ DOMAIN results = 1..Len(results)
    BY <1>2, <1>3
  <2> QED
    BY <1>3, <1>7, <1>8, <2>1, ExceptSeq
<1>10. \A k \in DOMAIN results[i].news :
          news[k].resolution = IF k = t.key THEN t.verdict ELSE results[i].news[k].resolution
  BY <1>4, <1>5
<1>11. DOMAIN news = DOMAIN results[i].news
  BY <1>5
<1> QED
  BY <1>8, <1>9, <1>10, <1>11 DEF status

-----------------------------------------------------------------------------
(* Requests in flight.                                                     *)

\* What is known, pending and left to decide, where rows or results stay.
LEMMA SameRows == ASSUME UNCHANGED scope PROVE \A e : IsNew(e)' = IsNew(e)
BY DEF IsNew, Current

\* And where the results stay.
LEMMA SameResults ==
    ASSUME UNCHANGED results
    PROVE  /\ PendingResults' = PendingResults
           /\ \A i : PendingIn(i)' = PendingIn(i)
           /\ \A i, k : Reviewed(i, k)' = Reviewed(i, k)
BY DEF PendingResults, PendingIn, Reviewed

\* A request not in flight relies on nothing.
LEMMA IdleOK == RequestOK(ScIdle) /\ IsFresh(ScIdle)
BY DEF RequestOK, IsFresh, ScIdle

\* One at a time, a request in flight is the only one.
LEMMA OthersIdle ==
    ASSUME RequestsOK, AloneOK, ~ scOverlap, NEW r \in ScRequests, scTxn[r].op # "idle"
    PROVE  IsFresh(scTxn[r]) /\ Queue /\ \A q \in ScRequests : q # r => scTxn[q] = ScIdle
BY DEF AloneOK, ScIdle

\* A request that stands where it stood may still rely on its change, as long as
\* results and queues grow and no change becomes pending again.
LEMMA StillOK ==
    ASSUME NEW r \in ScRequests, RequestOK(scTxn[r]), scTxn'[r] = scTxn[r],
           \A i \in DOMAIN results :
              /\ i \in DOMAIN results'
              /\ DOMAIN results[i].news \subseteq DOMAIN results'[i].news
              /\ PendingIn(i)' \subseteq PendingIn(i)
    PROVE  RequestOK(scTxn[r])'
BY DEF RequestOK

\* A step in which r reads, gives up or ends, and writes nothing.
LEMMA ReadStep ==
    ASSUME ScInv, NEW r \in ScRequests, NEW t, scTxn' = [scTxn EXCEPT ![r] = t],
           UNCHANGED <<scope, results, approvals, edits, scOverlap>>,
           RequestOK(t),
           ~ scOverlap => IsFresh(t) /\ \A q \in ScRequests : q # r => scTxn[q] = ScIdle
    PROVE  ScInv'
<1> USE DEF ScInv
<1>1. /\ scTxn'[r] = t /\ \A q \in ScRequests : q # r => scTxn'[q] = scTxn[q]
      /\ scTxn' = [q \in ScRequests |-> scTxn'[q]]
  BY DEF RequestsOK
<1>2. RowsOK'
  BY DEF RowsOK, DecisionsKeepTheirRow
<1>3. ResultsOK'
  BY SameResults DEF ResultsOK
<1>4. \A q \in ScRequests : RequestOK(scTxn[q])'
  <2> SUFFICES ASSUME NEW q \in ScRequests PROVE RequestOK(scTxn[q])'
    OBVIOUS
  <2>1. CASE q = r
    BY <1>1, <2>1, SameResults DEF RequestOK
  <2>2. CASE q # r
    BY <1>1, <2>2, StillOK, SameResults DEF RequestsOK
  <2> QED
    BY <2>1, <2>2
<1>5. AloneOK'
  <2> SUFFICES ASSUME ~ scOverlap PROVE AloneOK'
    BY DEF AloneOK
  <2>1. \A q \in ScRequests : q # r => scTxn'[q] = ScIdle
    BY <1>1
  <2>2. IsFresh(scTxn[r])'
    BY <1>1, SameRows, SameResults DEF IsFresh
  <2>3. \A q \in ScRequests : IsFresh(scTxn[q])'
    <3>1. ASSUME NEW q \in ScRequests, q # r PROVE IsFresh(scTxn[q])'
      BY <2>1, <3>1 DEF IsFresh, ScIdle
    <3> QED
      BY <2>2, <3>1
  <2>4. Queue'
    BY SameResults DEF AloneOK, Queue
  <2> QED
    BY <2>1, <2>3, <2>4 DEF AloneOK
<1> QED
  BY <1>1, <1>2, <1>3, <1>4, <1>5 DEF RequestsOK

\* A request that begins.
LEMMA BeginStep ==
    ASSUME ScInv, NEW r \in ScRequests, NEW t, Start(r, t),
           UNCHANGED <<scope, results, approvals, edits, scOverlap>>,
           RequestOK(t), ~ scOverlap => IsFresh(t)
    PROVE  ScInv'
BY ReadStep DEF Start, Ready

\* What a person may confirm.
LEMMA ScreenOK ==
    ASSUME NEW changes \in SUBSET Entity
    PROVE  /\ RequestOK(Screen(changes))
           /\ (\A e \in changes : e.source = "liongard" /\ e.status # "pending_approval"
                                    => ~ IsNew(e))
                 => IsFresh(Screen(changes))
<1>1. CASE changes = {}
  BY <1>1, IdleOK DEF Screen
<1>2. CASE changes # {}
  BY <1>2 DEF Screen, RequestOK, IsFresh
<1> QED
  BY <1>1, <1>2

\* The dry run of a workbook.
LEMMA DryRunStep ==
    ASSUME ScInv, NEW r \in ScRequests, NEW sheet \in Sheets, ImportDryRun(r, sheet)
    PROVE  ScInv'
<1> DEFINE incoming == Incoming([i \in Usable(sheet) |-> WorkbookRow(sheet[i])])
           changes == {e \in incoming : IsNew(e) \/ IsChanged(e)}
<1>1. Start(r, Screen(changes)) /\ UNCHANGED <<scope, results, approvals, edits, scOverlap>>
  BY DEF ImportDryRun
<1>2. \A e \in changes : e \in Entity /\ e.source = "workbook"
  BY SheetIsRead
<1> HIDE DEF changes
<1>3. RequestOK(Screen(changes)) /\ IsFresh(Screen(changes))
  BY <1>2, ScreenOK
<1> QED
  BY <1>1, <1>3, BeginStep

\* A pull begins.
LEMMA SyncBeginStep ==
    ASSUME ScInv, NEW r \in ScRequests, NEW inv \in Inventories,
           NEW how \in {"dry_run", "sync"}, SyncBegin(r, how, inv)
    PROVE  ScInv'
<1> DEFINE incoming == Incoming([i \in Usable(inv) |-> DeviceOrPerson(inv[i])])
           new == {[e EXCEPT !.status = "pending_approval"] : e \in {x \in incoming : IsNew(x)}}
           changed == {e \in incoming : IsChanged(e)}
           t == [op |-> "sync", how |-> how, prior |-> PendingResults,
                 new |-> new, changed |-> changed]
<1>1. Start(r, t) /\ UNCHANGED <<scope, results, approvals, edits, scOverlap>>
  BY DEF SyncBegin
<1>2. \A e \in incoming : e \in Entity
  BY InventoryIsRead
<1> HIDE DEF incoming
<1>3. \A e \in new : e \in Entity /\ e.status = "pending_approval"
  BY <1>2 DEF Entity, Statuses
<1>4. \A e \in changed : e \in Entity /\ ~ IsNew(e)
  BY <1>2 DEF IsChanged
<1> HIDE DEF new, changed
<1>5. RequestOK(t) /\ IsFresh(t)
  BY <1>3, <1>4 DEF RequestOK, IsFresh
<1> HIDE DEF t
<1> QED
  BY <1>1, <1>5, BeginStep

\* A decision begins.
LEMMA DecideBeginStep ==
    ASSUME ScInv, NEW r \in ScRequests, NEW i, NEW k \in Keys, NEW verdict \in Verdicts,
           DecideBegin(r, i, k, verdict)
    PROVE  ScInv'
<1> DEFINE t == [op |-> "decide", res |-> i, key |-> k, verdict |-> verdict, read |-> scope[k]]
<1>1. /\ i \in DOMAIN results /\ k \in PendingIn(i) /\ Start(r, t)
      /\ UNCHANGED <<scope, results, approvals, edits, scOverlap>>
  BY DEF DecideBegin
<1>2. k \in DOMAIN results[i].news /\ OneRow(scope[k])
  BY <1>1 DEF PendingIn, ScInv, RowsOK
<1>3. RequestOK(t) /\ IsFresh(t)
  BY <1>1, <1>2 DEF RequestOK, IsFresh
<1> HIDE DEF t
<1> QED
  BY <1>1, <1>3, BeginStep

\* A decision counts what is left.
LEMMA DecideCountStep ==
    ASSUME ScInv, NEW r \in ScRequests, DecideCount(r)
    PROVE  ScInv'
<1> DEFINE t == scTxn[r]
           u == [op |-> "counted", res |-> t.res, key |-> t.key, verdict |-> t.verdict,
                 read |-> t.read, last |-> Reviewed(t.res, t.key)]
<1>1. /\ t.op = "decide" /\ scTxn' = [scTxn EXCEPT ![r] = u]
      /\ UNCHANGED <<scope, results, approvals, edits, scOverlap>>
  BY DEF DecideCount
<1>2. RequestOK(t)
  BY DEF ScInv, RequestsOK
<1>3. Reviewed(t.res, t.key) \in BOOLEAN
      /\ (Reviewed(t.res, t.key) => PendingIn(t.res) \subseteq {t.key})
  BY Zenon DEF Reviewed
<1>4. RequestOK(u)
  BY <1>1, <1>2, <1>3 DEF RequestOK
<1>5. ~ scOverlap => IsFresh(u) /\ \A q \in ScRequests : q # r => scTxn[q] = ScIdle
  <2> SUFFICES ASSUME ~ scOverlap
               PROVE  IsFresh(u) /\ \A q \in ScRequests : q # r => scTxn[q] = ScIdle
    OBVIOUS
  <2>1. IsFresh(t) /\ \A q \in ScRequests : q # r => scTxn[q] = ScIdle
    BY <1>1, OthersIdle DEF ScInv
  <2>2. IsFresh(u)
    BY <1>1, <2>1 DEF IsFresh
  <2> QED
    BY <2>1, <2>2
<1> HIDE DEF u
<1> QED
  BY <1>1, <1>4, <1>5, ReadStep

\* Nothing of a decision or an import is kept.
LEMMA RollBackStep ==
    ASSUME ScInv, NEW r \in ScRequests, RollBack(r)
    PROVE  ScInv'
<1>1. /\ scTxn[r].op # "idle" /\ scTxn' = [scTxn EXCEPT ![r] = ScIdle]
      /\ UNCHANGED <<scope, results, approvals, edits, scOverlap>>
  BY DEF RollBack, Done
<1>2. ~ scOverlap => \A q \in ScRequests : q # r => scTxn[q] = ScIdle
  BY <1>1, OthersIdle DEF ScInv
<1> QED
  BY <1>1, <1>2, IdleOK, ReadStep

-----------------------------------------------------------------------------
(* Edits and imports.                                                      *)

\* One at a time, once nothing is in flight only the queue is left to look at.
LEMMA AllIdle ==
    ASSUME \A q \in ScRequests : scTxn'[q] = ScIdle, Queue'
    PROVE  AloneOK'
<1>1. \A q \in ScRequests : IsFresh(scTxn[q])'
  BY DEF IsFresh, ScIdle
<1> QED
  BY <1>1 DEF AloneOK

\* A direct edit.
LEMMA EditStep ==
    ASSUME ScInv, NEW k \in Keys, NEW rows, OneRow(rows), Edited(k, rows),
           rows = {} => \A a \in approvals : a.key # k
    PROVE  ScInv'
<1> USE DEF ScInv
<1>1. /\ Ready /\ edits < (IF scOverlap THEN MaxRaced ELSE MaxEdits) /\ edits' = edits + 1
      /\ scope' = [scope EXCEPT ![k] = rows]
      /\ UNCHANGED <<results, approvals, scTxn, scOverlap>>
  BY DEF Edited
<1>2. edits' \in 0..MaxEdits
  BY <1>1, ScopeAssumption DEF RowsOK
<1>3. /\ scope' = [j \in Keys |-> scope'[j]] /\ scope'[k] = rows
      /\ \A j \in Keys : j # k => scope'[j] = scope[j]
  BY <1>1 DEF RowsOK
<1>4. RowsOK'
  <2>1. DecisionsKeepTheirRow'
    BY <1>1, <1>3 DEF RowsOK, DecisionsKeepTheirRow, Approval
  <2>2. \A j \in Keys : OneRow(scope'[j])
    BY <1>3 DEF RowsOK
  <2> QED
    BY <1>1, <1>2, <1>3, <2>1, <2>2 DEF RowsOK
<1>5. ResultsOK'
  BY <1>1, SameResults DEF ResultsOK
<1>6. RequestsOK'
  BY <1>1, SameResults, StillOK DEF RequestsOK
<1>7. AloneOK'
  <2> SUFFICES ASSUME ~ scOverlap PROVE AloneOK'
    BY <1>1 DEF AloneOK
  <2>1. \A q \in ScRequests : scTxn'[q] = ScIdle
    BY <1>1 DEF Ready
  <2>2. Queue'
    BY <1>1, SameResults DEF AloneOK, Queue
  <2> QED
    BY <2>1, <2>2, AllIdle
<1> QED
  BY <1>4, <1>5, <1>6, <1>7

\* POST, PATCH and DELETE each leave one row, or none where nothing was decided.
LEMMA EditsStep ==
    ASSUME ScInv, NEW k \in Keys, NEW e \in Edits,
           CreateScopeEntity(k, e) \/ PatchScopeEntity(k, e)
    PROVE  /\ ScInv' /\ scope'[k] # {}
           /\ scope[k] = {} => \A new \in scope'[k] : new.source = "manual"
<1>1. /\ e \in ScopeRow /\ e.source = "manual" /\ Stored(e) \in ScopeRow
      /\ Stored(e).status = e.status /\ Stored(e).source = "manual"
  BY FeedAssumption DEF Stored, ScopeRow
<1>2. CASE CreateScopeEntity(k, e)
  <2>1. ~ Refused(scope[k], e) /\ Edited(k, {Stored(e)})
    BY <1>2 DEF CreateScopeEntity
  <2> HIDE DEF Stored
  <2>2. OneRow({Stored(e)})
    BY <1>1, <2>1 DEF Refused, OneRow
  <2>3. scope'[k] = {Stored(e)}
    BY <2>1 DEF Edited, ScInv, RowsOK
  <2> QED
    BY <1>1, <2>1, <2>2, <2>3, EditStep
<1>3. CASE PatchScopeEntity(k, e)
  <2> DEFINE row == Row(k)
             new == [Stored(e) EXCEPT !.source = row.source,
                         !.data = IF e.data = 0 THEN row.data ELSE e.data,
                         !.overlay = IF e.overlay = 0 THEN row.overlay ELSE e.overlay]
  <2>1. scope[k] # {} /\ ~ Refused(scope[k], e) /\ Edited(k, {new})
    BY <1>3 DEF PatchScopeEntity
  <2>2. row \in ScopeRow
    BY <2>1 DEF ScInv, RowsOK, OneRow, Row
  <2>3. new \in ScopeRow /\ new.status = e.status
    BY <1>1, <2>2 DEF ScopeRow
  <2> HIDE DEF new
  <2>4. OneRow({new})
    BY <2>1, <2>3 DEF Refused, OneRow
  <2>5. scope'[k] = {new}
    BY <2>1 DEF Edited, ScInv, RowsOK
  <2> QED
    BY <2>1, <2>4, <2>5, EditStep
<1> QED
  BY <1>2, <1>3

\* The foreign key of the approvals keeps the rows they are about.
LEMMA DeleteStep ==
    ASSUME ScInv, NEW k \in Keys, DeleteScopeEntity(k)
    PROVE  ScInv' /\ scope'[k] = {}
<1>1. (\A a \in approvals : a.key # k) /\ Edited(k, {})
  BY DEF DeleteScopeEntity
<1>2. OneRow({})
  BY DEF OneRow
<1>3. scope'[k] = {}
  BY <1>1 DEF Edited, ScInv, RowsOK
<1> QED
  BY <1>1, <1>2, <1>3, EditStep

\* A person confirmed some of what was shown.
LEMMA ImportBeginStep ==
    ASSUME ScInv, NEW r \in ScRequests, NEW batch \in SUBSET Shown(r), ImportBegin(r, batch)
    PROVE  ScInv'
<1> DEFINE t == scTxn[r]
           u == [op |-> "import", batch |-> batch, left |-> batch,
                 read |-> [k \in Keys |-> {}]]
<1>1. /\ t.op = "screen" /\ scTxn' = [scTxn EXCEPT ![r] = IF batch = {} THEN ScIdle ELSE u]
      /\ UNCHANGED <<scope, results, approvals, edits, scOverlap>>
  BY DEF ImportBegin
<1>2. batch \subseteq t.changes /\ batch \subseteq Entity
  BY <1>1 DEF Shown, ScInv, RequestsOK, RequestOK
<1>3. RequestOK(u)
  BY <1>2 DEF RequestOK, OneRow
<1>4. ~ scOverlap => IsFresh(u) /\ \A q \in ScRequests : q # r => scTxn[q] = ScIdle
  <2> SUFFICES ASSUME ~ scOverlap
               PROVE  IsFresh(u) /\ \A q \in ScRequests : q # r => scTxn[q] = ScIdle
    OBVIOUS
  <2>1. IsFresh(t) /\ \A q \in ScRequests : q # r => scTxn[q] = ScIdle
    BY <1>1, OthersIdle DEF ScInv
  <2> QED
    BY <1>1, <1>2, <2>1 DEF IsFresh
<1> HIDE DEF u
<1>5. RequestOK(IF batch = {} THEN ScIdle ELSE u)
      /\ (~ scOverlap => IsFresh(IF batch = {} THEN ScIdle ELSE u))
  BY <1>3, <1>4, IdleOK
<1> QED
  BY <1>1, <1>4, <1>5, ReadStep

\* An import reads the row of one of its entities.
LEMMA ImportRowStep ==
    ASSUME ScInv, NEW r \in ScRequests, NEW e \in Unread(r), ImportRow(r, e)
    PROVE  ScInv'
<1> DEFINE t == scTxn[r]
           read == [t.read EXCEPT ![e.key] = scope[e.key]]
           u == [op |-> "import", batch |-> t.batch, left |-> t.left \ {e}, read |-> read]
<1>1. /\ t.op = "import" /\ e \in t.left /\ ~ Refused(scope[e.key], e)
      /\ scTxn' = [scTxn EXCEPT ![r] = u]
      /\ UNCHANGED <<scope, results, approvals, edits, scOverlap>>
  BY DEF ImportRow, Unread
<1>2. RequestOK(t)
  BY DEF ScInv, RequestsOK
<1>3. /\ t.batch \subseteq Entity /\ t.left \subseteq t.batch /\ e \in t.batch
      /\ t.read = [k \in Keys |-> t.read[k]] /\ \A k \in Keys : OneRow(t.read[k])
      /\ \A x \in t.batch \ t.left : x.status # "pending_approval"
  BY <1>1, <1>2 DEF RequestOK
<1>4. e.key \in Keys /\ e.status # "pending_approval" /\ OneRow(scope[e.key])
  BY <1>1, <1>3 DEF Entity, Refused, ScInv, RowsOK
<1>5. /\ read = [k \in Keys |-> read[k]] /\ read[e.key] = scope[e.key]
      /\ \A k \in Keys : k # e.key => read[k] = t.read[k]
  BY <1>3, <1>4
<1> HIDE DEF read
<1>6. RequestOK(u)
  BY <1>3, <1>4, <1>5 DEF RequestOK
<1>7. ~ scOverlap => IsFresh(u) /\ \A q \in ScRequests : q # r => scTxn[q] = ScIdle
  <2> SUFFICES ASSUME ~ scOverlap
               PROVE  IsFresh(u) /\ \A q \in ScRequests : q # r => scTxn[q] = ScIdle
    OBVIOUS
  <2>1. IsFresh(t) /\ \A q \in ScRequests : q # r => scTxn[q] = ScIdle
    BY <1>1, OthersIdle DEF ScInv
  <2>2. \A x \in t.batch \ (t.left \ {e}) : read[x.key] = scope[x.key]
    BY <1>1, <1>3, <1>5, <2>1 DEF IsFresh, Entity
  <2> QED
    BY <1>1, <2>1, <2>2 DEF IsFresh
<1> HIDE DEF u
<1> QED
  BY <1>1, <1>6, <1>7, ReadStep

\* What an import makes of the row of a key.
LEMMA ImportedRow ==
    ASSUME ScInv, NEW r \in ScRequests, ImportCommit(r), NEW k \in Keys
    PROVE  LET t == scTxn[r]
           IN  \/ scope'[k] = scope[k]
               \/ \E e \in t.batch :
                     /\ e.key = k /\ Stored(e) \in ScopeRow /\ e.status # "pending_approval"
                     /\ OneRow(t.read[k]) /\ ~ Refused(t.read[k], e)
                     /\ (t.read[k] = {}) = (scope[k] = {})
                     /\ ~ scOverlap => t.read[k] = scope[k]
                     /\ scope'[k] = Saved(t.read[k], Upsert(t.read[k], e), scope[k])
<1> DEFINE t == scTxn[r]
           For(j) == CHOOSE e \in t.batch : e.key = j
<1>1. /\ t.op = "import" /\ t.left = {}
      /\ \A e \in t.batch : (t.read[e.key] = {}) = (scope[e.key] = {})
      /\ scope' = [j \in Keys |-> IF \E e \in t.batch : e.key = j
                                  THEN Saved(t.read[j], Upsert(t.read[j], For(j)), scope[j])
                                  ELSE scope[j]]
  BY Zenon DEF ImportCommit
<1>2. /\ t.batch \subseteq Entity /\ \A j \in Keys : OneRow(t.read[j])
      /\ \A e \in t.batch : e.status # "pending_approval"
  BY <1>1 DEF ScInv, RequestsOK, RequestOK
<1>3. ~ scOverlap => \A e \in t.batch : t.read[e.key] = scope[e.key]
  BY <1>1, OthersIdle DEF ScInv, IsFresh
<1>4. CASE \E e \in t.batch : e.key = k
  <2> DEFINE e == For(k)
  <2>1. e \in t.batch /\ e.key = k
    BY <1>4
  <2>2. scope'[k] = Saved(t.read[k], Upsert(t.read[k], e), scope[k])
    BY <1>1, <1>4, Zenon
  <2> HIDE DEF e
  <2>3. Stored(e) \in ScopeRow /\ e.status # "pending_approval"
    BY <1>2, <2>1 DEF Stored, Entity, ScopeRow
  <2>4. OneRow(t.read[k]) /\ ~ Refused(t.read[k], e)
    BY <1>2, <2>3 DEF Refused, OneRow
  <2>5. /\ (t.read[k] = {}) = (scope[k] = {})
        /\ ~ scOverlap => t.read[k] = scope[k]
    BY <1>1, <1>3, <2>1
  <2> QED
    BY <2>1, <2>2, <2>3, <2>4, <2>5
<1>5. CASE ~ \E e \in t.batch : e.key = k
  BY <1>1, <1>5
<1> QED
  BY <1>4, <1>5

\* A batch is applied.
LEMMA ApplyStep ==
    ASSUME ScInv, NEW r \in ScRequests, ImportCommit(r)
    PROVE  ScInv'
<1> USE DEF ScInv
<1>1. /\ scTxn[r].op = "import" /\ scTxn' = [scTxn EXCEPT ![r] = ScIdle]
      /\ scope' = [j \in Keys |-> scope'[j]]
      /\ UNCHANGED <<results, approvals, edits, scOverlap>>
  BY DEF ImportCommit, Done
<1>2. scTxn'[r] = ScIdle /\ \A q \in ScRequests : q # r => scTxn'[q] = scTxn[q]
  BY <1>1 DEF RequestsOK
<1>3. \A k \in Keys : OneRow(scope'[k]) /\ (scope[k] # {} => scope'[k] # {})
  <2> SUFFICES ASSUME NEW k \in Keys
               PROVE  OneRow(scope'[k]) /\ (scope[k] # {} => scope'[k] # {})
    OBVIOUS
  <2>1. OneRow(scope[k])
    BY DEF RowsOK
  <2>2. CASE scope'[k] = scope[k]
    BY <2>1, <2>2
  <2>3. CASE scope'[k] # scope[k]
    <3> DEFINE read == scTxn[r].read[k]
    <3>1. PICK e : /\ Stored(e) \in ScopeRow /\ OneRow(read) /\ ~ Refused(read, e)
                   /\ (read = {}) = (scope[k] = {})
                   /\ scope'[k] = Saved(read, Upsert(read, e), scope[k])
      BY <2>3, ImportedRow
    <3> HIDE DEF read
    <3>2. OneRow(Upsert(read, e)) /\ Upsert(read, e) # {}
      BY <3>1, UpsertIsOneRow
    <3> QED
      BY <2>1, <3>1, <3>2, SavedIsOneRow
  <2> QED
    BY <2>2, <2>3
<1>4. RowsOK'
  <2>1. DecisionsKeepTheirRow'
    BY <1>1, <1>3 DEF RowsOK, DecisionsKeepTheirRow, Approval
  <2> QED
    BY <1>1, <1>3, <2>1 DEF RowsOK
<1>5. ResultsOK'
  BY <1>1, SameResults DEF ResultsOK
<1>6. RequestsOK'
  <2>1. \A q \in ScRequests : q # r => RequestOK(scTxn[q])'
    BY <1>1, <1>2, SameResults, StillOK DEF RequestsOK
  <2>2. RequestOK(scTxn[r])'
    BY <1>2 DEF RequestOK, ScIdle
  <2>3. scTxn' = [q \in ScRequests |-> scTxn'[q]]
    BY <1>1 DEF RequestsOK
  <2> QED
    BY <2>1, <2>2, <2>3 DEF RequestsOK
<1>7. AloneOK'
  <2> SUFFICES ASSUME ~ scOverlap PROVE AloneOK'
    BY <1>1 DEF AloneOK
  <2>1. \A q \in ScRequests : scTxn'[q] = ScIdle
    BY <1>1, <1>2, OthersIdle
  <2>2. Queue'
    BY <1>1, SameResults DEF AloneOK, Queue
  <2> QED
    BY <2>1, <2>2, AllIdle
<1> QED
  BY <1>4, <1>5, <1>6, <1>7

-----------------------------------------------------------------------------
(* Pulls.                                                                  *)

\* Superseding leaves every queue as it is.
LEMMA SupersededResults ==
    ASSUME results \in Seq(Result), NEW prior
    PROVE  /\ Superseded(prior) \in Seq(Result) /\ Len(Superseded(prior)) = Len(results)
           /\ \A i \in DOMAIN results :
                 /\ Superseded(prior)[i].news = results[i].news
                 /\ Superseded(prior)[i].status =
                       IF i \in prior THEN "superseded" ELSE results[i].status
<1> DEFINE sup == Superseded(prior)
<1>1. Len(results) \in Nat /\ DOMAIN results = 1..Len(results)
  OBVIOUS
<1>2. sup = [i \in 1..Len(results) |->
                IF i \in prior THEN [results[i] EXCEPT !.status = "superseded"] ELSE results[i]]
  BY <1>1 DEF Superseded
<1>3. \A i \in 1..Len(results) :
         /\ sup[i] \in Result /\ sup[i].news = results[i].news
         /\ sup[i].status = IF i \in prior THEN "superseded" ELSE results[i].status
  <2> SUFFICES ASSUME NEW i \in 1..Len(results)
               PROVE  /\ sup[i] \in Result /\ sup[i].news = results[i].news
                      /\ sup[i].status = IF i \in prior THEN "superseded" ELSE results[i].status
    OBVIOUS
  <2>1. results[i] \in Result
    OBVIOUS
  <2>2. sup[i] = IF i \in prior THEN [results[i] EXCEPT !.status = "superseded"] ELSE results[i]
    BY <1>2
  <2> HIDE DEF sup
  <2> QED
    BY <2>1, <2>2 DEF Result, ResultStatus
<1>4. sup \in [1..Len(results) -> Result]
  BY <1>2, <1>3
<1> HIDE DEF sup
<1>5. sup \in Seq(Result) /\ Len(sup) = Len(results)
  <2>1. sup \in Seq(Result)
    BY <1>1, <1>4, SeqDef
  <2>2. Len(sup) \in Nat /\ DOMAIN sup = 1..Len(sup) /\ DOMAIN sup = 1..Len(results)
    BY <1>4, <2>1, LenProperties
  <2>3. Len(sup) = Len(results)
    <3> DEFINE m == Len(sup)
               n == Len(results)
    <3>1. m \in Nat /\ n \in Nat /\ \A i : i \in 1..m <=> i \in 1..n
      BY <1>1, <2>2
    <3> HIDE DEF m, n
    <3>2. (m \in 1..m => m \in 1..n) /\ (n \in 1..n => n \in 1..m)
      BY <3>1, Zenon
    <3>3. m \in Nat /\ n \in Nat
      BY <3>1
    <3>4. m = n
      BY <3>2, <3>3
    <3> QED
      BY <3>4 DEF m, n
  <2> QED
    BY <2>1, <2>3
<1> QED
  BY <1>1, <1>3, <1>5 DEF sup

\* The result of a pull waits for review while it has something new, all of it
\* pending.
LEMMA ResultOfPull ==
    ASSUME NEW t, t.new \subseteq Entity
    PROVE  /\ ResultOf(t) \in Result
           /\ ResultOf(t).status = IF t.new # {} THEN "pending_review" ELSE "no_changes"
           /\ t.new # {} => DOMAIN ResultOf(t).news # {}
           /\ \A k \in DOMAIN ResultOf(t).news : ResultOf(t).news[k].resolution = "pending"
<1> DEFINE S == {e.key : e \in t.new}
           change(k) == [data |-> (CHOOSE e \in t.new : e.key = k).data,
                         resolution |-> "pending"]
           news == [k \in S |-> change(k)]
<1>1. S \subseteq Keys
  BY DEF Entity
<1>2. \A k \in S : change(k) \in SyncChange /\ change(k).resolution = "pending"
  <2> SUFFICES ASSUME NEW k \in S PROVE change(k) \in SyncChange /\ change(k).resolution = "pending"
    OBVIOUS
  <2> DEFINE e == CHOOSE e \in t.new : e.key = k
  <2>1. e \in t.new
    OBVIOUS
  <2> HIDE DEF e
  <2>2. e.data \in Nat
    BY <2>1 DEF Entity
  <2>3. change(k) = [data |-> e.data, resolution |-> "pending"]
    BY DEF e
  <2> HIDE DEF change
  <2> QED
    BY <2>2, <2>3 DEF SyncChange, Resolutions
<1>3. ResultOf(t) = [status |-> IF t.new # {} THEN "pending_review" ELSE "no_changes",
                     news |-> news]
  BY DEF ResultOf
<1> HIDE DEF change
<1>4. news \in News
  <2>1. news \in [S -> SyncChange]
    BY <1>2
  <2> QED
    BY <1>1, <2>1 DEF News
<1>5. DOMAIN news = S /\ \A k \in S : news[k].resolution = "pending"
  BY <1>2
<1>6. t.new # {} => S # {}
  OBVIOUS
<1> HIDE DEF news, S
<1>7. ResultOf(t) \in Result
  BY <1>3, <1>4 DEF Result, ResultStatus
<1> QED
  BY <1>3, <1>5, <1>6, <1>7

\* What a commit of a pull shows its person; without overlap it is known, or is
\* still pending.
LEMMA PullScreen ==
    ASSUME ScInv, NEW r \in ScRequests, SyncCommit(r)
    PROVE  LET t == scTxn[r]
               u == IF t.how = "dry_run" THEN Screen(t.new \cup t.changed) ELSE ScIdle
           IN  /\ t.op = "sync" /\ t.new \subseteq Entity
               /\ scTxn' = [scTxn EXCEPT ![r] = u]
               /\ UNCHANGED <<scope, approvals, edits, scOverlap>>
               /\ RequestOK(u) /\ (IsFresh(t) => IsFresh(u))
<1> DEFINE t == scTxn[r]
           u == IF t.how = "dry_run" THEN Screen(t.new \cup t.changed) ELSE ScIdle
           changes == t.new \cup t.changed
<1>1. /\ t.op = "sync" /\ scTxn' = [scTxn EXCEPT ![r] = u]
      /\ UNCHANGED <<scope, approvals, edits, scOverlap>>
  BY Zenon DEF SyncCommit
<1>2. t.new \subseteq Entity /\ t.changed \subseteq Entity
  BY <1>1 DEF ScInv, RequestsOK, RequestOK
<1>3. changes \in SUBSET Entity
  BY <1>2
<1>4. IsFresh(t) => \A e \in changes : e.source = "liongard" /\ e.status # "pending_approval"
                                      => ~ IsNew(e)
  BY <1>1 DEF IsFresh
<1> HIDE DEF changes
<1>5. RequestOK(Screen(changes)) /\ (IsFresh(t) => IsFresh(Screen(changes)))
  BY <1>3, <1>4, ScreenOK
<1>6. RequestOK(u) /\ (IsFresh(t) => IsFresh(u))
  BY <1>5, IdleOK DEF changes
<1> QED
  BY <1>1, <1>2, <1>6

\* A result is kept, and those it supersedes no longer wait.
LEMMA PullKept ==
    ASSUME ScInv, NEW r \in ScRequests, SyncCommit(r), ~ UNCHANGED results
    PROVE  ScInv'
<1> USE DEF ScInv
<1> DEFINE t == scTxn[r]
           u == IF t.how = "dry_run" THEN Screen(t.new \cup t.changed) ELSE ScIdle
           n == Len(results)
<1>1. /\ t.op = "sync" /\ t.new \subseteq Entity /\ scTxn' = [scTxn EXCEPT ![r] = u]
      /\ UNCHANGED <<scope, approvals, edits, scOverlap>>
      /\ RequestOK(u) /\ (IsFresh(t) => IsFresh(u))
  BY PullScreen
<1>2. n < MaxResults /\ results' = Append(Superseded(t.prior), ResultOf(t))
  BY Zenon DEF SyncCommit
<1> HIDE DEF u
<1>3. /\ Superseded(t.prior) \in Seq(Result) /\ Len(Superseded(t.prior)) = n
      /\ \A i \in DOMAIN results :
            /\ Superseded(t.prior)[i].news = results[i].news
            /\ Superseded(t.prior)[i].status =
                  IF i \in t.prior THEN "superseded" ELSE results[i].status
  BY SupersededResults DEF ResultsOK
<1>4. /\ ResultOf(t) \in Result
      /\ ResultOf(t).status = IF t.new # {} THEN "pending_review" ELSE "no_changes"
      /\ t.new # {} => DOMAIN ResultOf(t).news # {}
      /\ \A k \in DOMAIN ResultOf(t).news : ResultOf(t).news[k].resolution = "pending"
  BY <1>1, ResultOfPull
<1>5. n \in Nat /\ DOMAIN results = 1..n
  BY DEF ResultsOK
<1>6. /\ results' \in Seq(Result) /\ Len(results') = n + 1 /\ DOMAIN results' = 1..(n + 1)
      /\ \A i \in 1..n : /\ results'[i].news = results[i].news
                         /\ results'[i].status =
                               IF i \in t.prior THEN "superseded" ELSE results[i].status
      /\ results'[n + 1] = ResultOf(t)
  <2>1. /\ results' \in Seq(Result) /\ Len(results') = n + 1
        /\ \A i \in 1..n : results'[i] = Superseded(t.prior)[i]
        /\ results'[n + 1] = ResultOf(t)
    BY <1>2, <1>3, <1>4, AppendProperties
  <2>2. DOMAIN results' = 1..(n + 1)
    BY <2>1, LenProperties
  <2> QED
    BY <1>3, <1>5, <2>1, <2>2
<1>7. \A i \in 1..n : PendingIn(i)' = PendingIn(i)
  BY <1>6 DEF PendingIn
<1>8. RowsOK'
  BY <1>1 DEF RowsOK, DecisionsKeepTheirRow
<1>9. ResultsOK'
  <2>1. n + 1 <= MaxResults
    <3>1. n < MaxResults /\ n \in Nat /\ MaxResults \in Nat
      BY <1>2, <1>5, ScopeAssumption
    <3> HIDE DEF n
    <3> QED
      BY <3>1
  <2>2. \A i \in 1..(n + 1) : results'[i].status = "reviewed" => PendingIn(i)' = {}
    <3> SUFFICES ASSUME NEW i \in 1..(n + 1), results'[i].status = "reviewed"
                 PROVE  PendingIn(i)' = {}
      OBVIOUS
    <3>1. i \in 1..n
      BY <1>4, <1>5, <1>6
    <3>2. results[i].status = "reviewed"
      BY <1>6, <3>1
    <3> QED
      BY <1>5, <1>7, <3>1, <3>2 DEF ResultsOK
  <2> QED
    BY <1>6, <2>1, <2>2 DEF ResultsOK
<1>10. /\ scTxn'[r] = u /\ \A q \in ScRequests : q # r => scTxn'[q] = scTxn[q]
       /\ scTxn' = [q \in ScRequests |-> scTxn'[q]]
  BY <1>1 DEF RequestsOK
<1>11. \A i \in DOMAIN results :
          /\ i \in DOMAIN results'
          /\ DOMAIN results[i].news \subseteq DOMAIN results'[i].news
          /\ PendingIn(i)' \subseteq PendingIn(i)
  BY <1>5, <1>6, <1>7
<1>12. u.op \in {"screen", "idle"}
  BY DEF u, Screen, ScIdle
<1>13. RequestsOK'
  <2>1. \A q \in ScRequests : q # r => RequestOK(scTxn[q])'
    BY <1>10, <1>11, StillOK DEF RequestsOK
  <2>2. RequestOK(scTxn[r])'
    BY <1>1, <1>10, <1>12 DEF RequestOK
  <2> QED
    BY <1>10, <2>1, <2>2 DEF RequestsOK
<1>14. AloneOK'
  <2> SUFFICES ASSUME ~ scOverlap PROVE AloneOK'
    BY <1>1 DEF AloneOK
  <2>1. IsFresh(t) /\ Queue /\ \A q \in ScRequests : q # r => scTxn'[q] = ScIdle
    BY <1>1, <1>10, OthersIdle
  <2>2. \A q \in ScRequests : IsFresh(scTxn[q])'
    <3>1. \A q \in ScRequests : q # r => IsFresh(scTxn[q])'
      BY <2>1 DEF IsFresh, ScIdle
    <3>2. IsFresh(scTxn[r])'
      BY <1>1, <1>10, <1>12, <2>1, SameRows DEF IsFresh
    <3> QED
      BY <3>1, <3>2
  <2>3. Queue'
    <3>1. \A i \in PendingResults' : i = n + 1 /\ t.new # {}
      <4> SUFFICES ASSUME NEW i \in 1..(n + 1), results'[i].status = "pending_review"
                   PROVE  i = n + 1 /\ t.new # {}
        BY <1>6 DEF PendingResults
      <4>1. i \notin 1..n
        BY <1>1, <1>5, <1>6, <2>1 DEF IsFresh, PendingResults
      <4>2. i = n + 1
        BY <1>5, <4>1
      <4> QED
        BY <1>4, <1>6, <4>2
    <3>2. \A i \in PendingResults' : PendingIn(i)' # {}
      BY <1>4, <1>6, <3>1 DEF PendingIn
    <3>3. \A a \in approvals : /\ a.res \in DOMAIN results'
                               /\ a.key \in DOMAIN results'[a.res].news
                               /\ results'[a.res].news[a.key].resolution = a.verdict
      BY <1>5, <1>6, <2>1 DEF Queue
    <3> QED
      BY <1>1, <3>1, <3>2, <3>3 DEF Queue
  <2> QED
    BY <2>1, <2>2, <2>3 DEF AloneOK
<1> QED
  BY <1>8, <1>9, <1>13, <1>14

\* A pull is committed, or a dry run with nothing new ends.
LEMMA SyncCommitStep ==
    ASSUME ScInv, NEW r \in ScRequests, SyncCommit(r)
    PROVE  ScInv'
<1>1. CASE UNCHANGED results
  <2> DEFINE t == scTxn[r]
             u == IF t.how = "dry_run" THEN Screen(t.new \cup t.changed) ELSE ScIdle
  <2>1. /\ t.op = "sync" /\ scTxn' = [scTxn EXCEPT ![r] = u]
        /\ UNCHANGED <<scope, approvals, edits, scOverlap>>
        /\ RequestOK(u) /\ (IsFresh(t) => IsFresh(u))
    BY PullScreen
  <2> HIDE DEF u
  <2>2. ~ scOverlap => IsFresh(t) /\ \A q \in ScRequests : q # r => scTxn[q] = ScIdle
    BY <2>1, OthersIdle DEF ScInv
  <2> QED
    BY <1>1, <2>1, <2>2, ReadStep
<1>2. CASE ~ UNCHANGED results
  BY <1>2, PullKept
<1> QED
  BY <1>1, <1>2

-----------------------------------------------------------------------------
(* Decisions.                                                              *)

\* The decision's key leaves the queue of its result, and no key enters one; a
\* result becomes reviewed only when nothing else was pending there.
LEMMA DecisionDrains ==
    ASSUME ScInv, NEW r \in ScRequests, DecideCommit(r)
    PROVE  LET t == scTxn[r]
           IN  /\ \A i \in DOMAIN results :
                     PendingIn(i)' = IF i = t.res THEN PendingIn(i) \ {t.key} ELSE PendingIn(i)
               /\ t.res \in DOMAIN results /\ t.key \in DOMAIN results[t.res].news
               /\ t.verdict \in Verdicts /\ t.op \in {"decide", "counted"}
<1> DEFINE t == scTxn[r]
<1>1. t.op \in {"decide", "counted"}
  BY Zenon DEF DecideCommit
<1>2. t.res \in DOMAIN results /\ t.key \in DOMAIN results[t.res].news /\ t.verdict \in Verdicts
  BY <1>1 DEF ScInv, RequestsOK, RequestOK
<1>3. /\ \A i \in DOMAIN results : i # t.res => results'[i] = results[i]
      /\ DOMAIN results'[t.res].news = DOMAIN results[t.res].news
      /\ \A k \in DOMAIN results[t.res].news :
            results'[t.res].news[k].resolution =
               IF k = t.key THEN t.verdict ELSE results[t.res].news[k].resolution
  BY DecisionResolves DEF ScInv
<1>4. \A i \in DOMAIN results : i # t.res => PendingIn(i)' = PendingIn(i)
  BY <1>3 DEF PendingIn
<1>5. ASSUME NEW i, i = t.res PROVE PendingIn(i)' = PendingIn(i) \ {t.key}
  <2> DEFINE k == t.key
             v == t.verdict
  <2>1. v # "pending"
    BY <1>2 DEF Verdicts
  <2>2. /\ DOMAIN results'[i].news = DOMAIN results[i].news
        /\ \A j \in DOMAIN results[i].news :
              results'[i].news[j].resolution =
                 IF j = k THEN v ELSE results[i].news[j].resolution
    BY <1>3, <1>5
  <2> HIDE DEF k, v
  <2>3. PendingIn(i)' = PendingIn(i) \ {k}
    BY <2>1, <2>2 DEF PendingIn
  <2> QED
    BY <2>3 DEF k
<1> QED
  BY <1>1, <1>2, <1>4, <1>5

\* A decision is committed: its row, its approval and its change together.
LEMMA DecideCommitStep ==
    ASSUME ScInv, NEW r \in ScRequests, DecideCommit(r)
    PROVE  ScInv'
<1> USE DEF ScInv
<1> DEFINE t == scTxn[r]
           last == IF t.op = "counted" THEN t.last ELSE Reviewed(t.res, t.key)
           approval == [key |-> t.key, res |-> t.res, verdict |-> t.verdict]
<1>1. /\ approvals' = approvals \cup {approval}
      /\ scTxn' = [scTxn EXCEPT ![r] = ScIdle]
      /\ UNCHANGED <<edits, scOverlap>>
  BY Zenon DEF DecideCommit, Done
<1>2. /\ t.key \in Keys /\ OneRow(scope'[t.key]) /\ scope'[t.key] # {}
      /\ \A k \in Keys : k # t.key => scope'[k] = scope[k]
      /\ scope' = [k \in Keys |-> scope'[k]]
  BY DecisionIsOneRow
<1>3. /\ results' \in Seq(Result) /\ Len(results') = Len(results)
      /\ DOMAIN results' = DOMAIN results
      /\ \A i \in DOMAIN results : i # t.res => results'[i] = results[i]
      /\ results'[t.res].status = IF last THEN "reviewed" ELSE results[t.res].status
      /\ DOMAIN results'[t.res].news = DOMAIN results[t.res].news
      /\ \A k \in DOMAIN results[t.res].news :
            results'[t.res].news[k].resolution =
               IF k = t.key THEN t.verdict ELSE results[t.res].news[k].resolution
  BY DecisionResolves
<1>4. /\ \A i \in DOMAIN results :
            PendingIn(i)' = IF i = t.res THEN PendingIn(i) \ {t.key} ELSE PendingIn(i)
      /\ t.res \in DOMAIN results /\ t.key \in DOMAIN results[t.res].news
      /\ t.verdict \in Verdicts /\ t.op \in {"decide", "counted"}
  BY DecisionDrains
<1>5. last => PendingIn(t.res) \subseteq {t.key}
  <2>1. CASE t.op = "counted"
    BY <2>1 DEF RequestsOK, RequestOK
  <2>2. CASE t.op # "counted"
    BY <2>2 DEF Reviewed
  <2> QED
    BY <2>1, <2>2
<1>6. /\ scTxn'[r] = ScIdle /\ \A q \in ScRequests : q # r => scTxn'[q] = scTxn[q]
      /\ scTxn' = [q \in ScRequests |-> scTxn'[q]]
  BY <1>1 DEF RequestsOK
<1> HIDE DEF last
<1>7. RowsOK'
  <2>1. approval \in Approval
    <3>1. t.res \in 1..Len(results) /\ Len(results) \in Nat /\ Len(results) <= MaxResults
      BY <1>4, ResultShape DEF ResultsOK
    <3>2. t.res \in 1..MaxResults
      BY <3>1, ScopeAssumption
    <3> QED
      BY <1>2, <1>4, <3>2 DEF Approval, Verdicts
  <2>2. approvals' \subseteq Approval
    BY <1>1, <2>1 DEF RowsOK
  <2>3. DecisionsKeepTheirRow'
    BY <1>1, <1>2 DEF RowsOK, DecisionsKeepTheirRow, Approval
  <2>4. \A k \in Keys : OneRow(scope'[k])
    BY <1>2 DEF RowsOK
  <2> QED
    BY <1>1, <1>2, <2>2, <2>3, <2>4 DEF RowsOK
<1>8. ResultsOK'
  <2>1. \A i \in DOMAIN results : results'[i].status = "reviewed" => PendingIn(i)' = {}
    <3> SUFFICES ASSUME NEW i \in DOMAIN results, results'[i].status = "reviewed"
                 PROVE  PendingIn(i)' = {}
      OBVIOUS
    <3>1. CASE i = t.res
      BY <1>3, <1>4, <1>5, <3>1 DEF ResultsOK
    <3>2. CASE i # t.res
      BY <1>3, <1>4, <3>2 DEF ResultsOK
    <3> QED
      BY <3>1, <3>2
  <2> QED
    BY <1>3, <2>1 DEF ResultsOK
<1>9. RequestsOK'
  <2>1. \A i \in DOMAIN results :
          /\ i \in DOMAIN results'
          /\ DOMAIN results[i].news \subseteq DOMAIN results'[i].news
          /\ PendingIn(i)' \subseteq PendingIn(i)
    BY <1>3, <1>4
  <2>2. \A q \in ScRequests : q # r => RequestOK(scTxn[q])'
    BY <1>6, <2>1, StillOK DEF RequestsOK
  <2>3. RequestOK(scTxn[r])'
    BY <1>6 DEF RequestOK, ScIdle
  <2> QED
    BY <1>6, <2>2, <2>3 DEF RequestsOK
<1>10. AloneOK'
  <2> SUFFICES ASSUME ~ scOverlap PROVE AloneOK'
    BY <1>1 DEF AloneOK
  <2>1. IsFresh(t) /\ Queue /\ \A q \in ScRequests : q # r => scTxn[q] = ScIdle
    BY <1>4, OthersIdle
  <2>2. \A q \in ScRequests : scTxn'[q] = ScIdle
    BY <1>6, <2>1
  <2>3. t.key \in PendingIn(t.res) /\ last = Reviewed(t.res, t.key)
    BY <1>4, <2>1 DEF IsFresh, last
  <2>4. \A i \in DOMAIN results :
           results'[i].status = "pending_review" => i \in PendingResults
    BY <1>3 DEF PendingResults
  <2>5. \A i \in PendingResults' : i \in PendingResults /\ PendingIn(i)' # {}
    <3> SUFFICES ASSUME NEW i \in DOMAIN results, results'[i].status = "pending_review"
                 PROVE  i \in PendingResults /\ PendingIn(i)' # {}
      BY <1>3 DEF PendingResults
    <3>1. i \in PendingResults /\ PendingIn(i) # {}
      BY <2>1, <2>4 DEF Queue
    <3>2. CASE i = t.res
      <4>1. ~ last
        BY <1>3, <3>2
      <4>2. ~ (PendingIn(i) \subseteq {t.key})
        BY <2>3, <3>1, <3>2, <4>1 DEF Reviewed, PendingResults
      <4> QED
        BY <1>4, <3>1, <3>2, <4>2
    <3>3. CASE i # t.res
      BY <1>4, <3>1, <3>3
    <3> QED
      BY <3>2, <3>3
  <2>6. \A a \in approvals' : /\ a.res \in DOMAIN results' /\ a.key \in DOMAIN results'[a.res].news
                             /\ results'[a.res].news[a.key].resolution = a.verdict
    <3> SUFFICES ASSUME NEW a \in approvals'
                 PROVE  /\ a.res \in DOMAIN results' /\ a.key \in DOMAIN results'[a.res].news
                        /\ results'[a.res].news[a.key].resolution = a.verdict
      OBVIOUS
    <3>1. CASE a = approval
      BY <1>3, <1>4, <3>1
    <3>2. CASE a \in approvals
      <4>1. /\ a.res \in DOMAIN results /\ a.key \in DOMAIN results[a.res].news
            /\ results[a.res].news[a.key].resolution = a.verdict /\ a.verdict # "pending"
        BY <2>1, <3>2 DEF Queue, RowsOK, Approval
      <4>2. ~ (a.res = t.res /\ a.key = t.key)
        BY <2>3, <4>1 DEF PendingIn
      <4>3. CASE a.res = t.res
        BY <1>3, <4>1, <4>2, <4>3
      <4>4. CASE a.res # t.res
        BY <1>3, <4>1, <4>4
      <4> QED
        BY <4>3, <4>4
    <3> QED
      BY <1>1, <3>1, <3>2
  <2>7. Queue'
    BY <2>1, <2>5, <2>6 DEF Queue
  <2> QED
    BY <2>2, <2>7, AllIdle
<1> QED
  BY <1>7, <1>8, <1>9, <1>10

-----------------------------------------------------------------------------
(* The invariant.                                                          *)

\* An empty scope, and no request.
LEMMA ScInitInv == ScInit => ScInv
<1> SUFFICES ASSUME ScInit PROVE ScInv
  OBVIOUS
<1>1. /\ scope = [k \in Keys |-> {}] /\ results = <<>> /\ approvals = {} /\ edits = 0
      /\ scTxn = [r \in ScRequests |-> ScIdle] /\ scOverlap \in BOOLEAN
  BY DEF ScInit
<1>2. RowsOK
  <2>1. 0 \in 0..MaxEdits
    BY ScopeAssumption
  <2> QED
    BY <1>1, <2>1 DEF RowsOK, OneRow, DecisionsKeepTheirRow
<1>3. ResultsOK
  <2>1. results \in Seq(Result) /\ Len(results) = 0 /\ DOMAIN results = {}
    BY <1>1, EmptySeq
  <2> QED
    BY <2>1, ScopeAssumption DEF ResultsOK
<1>4. \A r \in ScRequests : scTxn[r] = ScIdle
  BY <1>1
<1>5. RequestsOK
  BY <1>1, <1>4, IdleOK DEF RequestsOK
<1>6. AloneOK
  <2>1. DOMAIN results = {}
    BY <1>1
  <2> QED
    BY <1>1, <1>4, <2>1, IdleOK DEF AloneOK, Queue, PendingResults
<1> QED
  BY <1>2, <1>3, <1>5, <1>6 DEF ScInv

\* Every step keeps the invariant.
LEMMA ScNextInv == ScInv /\ [ScNext]_scVars => ScInv'
<1> SUFFICES ASSUME ScInv, [ScNext]_scVars PROVE ScInv'
  OBVIOUS
<1>1. ASSUME NEW k \in Keys, DeleteScopeEntity(k) PROVE ScInv'
  BY <1>1, DeleteStep
<1>2. ASSUME NEW k \in Keys, NEW e \in Edits, CreateScopeEntity(k, e) \/ PatchScopeEntity(k, e)
      PROVE  ScInv'
  BY <1>2, EditsStep
<1>3. ASSUME NEW r \in ScRequests, NEW sheet \in Sheets, ImportDryRun(r, sheet) PROVE ScInv'
  BY <1>3, DryRunStep
<1>4. ASSUME NEW r \in ScRequests,
             \/ \E batch \in SUBSET Shown(r) : ImportBegin(r, batch)
             \/ \E e \in Unread(r) : ImportRow(r, e)
             \/ ImportCommit(r)
      PROVE  ScInv'
  BY <1>4, ImportBeginStep, ImportRowStep, ApplyStep
<1>5. ASSUME NEW r \in ScRequests, NEW inv \in Inventories, NEW how \in {"dry_run", "sync"},
             SyncBegin(r, how, inv)
      PROVE  ScInv'
  BY <1>5, SyncBeginStep
<1>6. ASSUME NEW r \in ScRequests, SyncCommit(r) PROVE ScInv'
  BY <1>6, SyncCommitStep
<1>7. ASSUME NEW r \in ScRequests, NEW i \in 1..MaxResults, NEW k \in Keys,
             NEW v \in {"approved", "rejected"}, DecideBegin(r, i, k, v)
      PROVE  ScInv'
  BY <1>7, DecideBeginStep DEF Verdicts
<1>8. ASSUME NEW r \in ScRequests, DecideCount(r) \/ DecideCommit(r) \/ RollBack(r)
      PROVE  ScInv'
  BY <1>8, DecideCountStep, DecideCommitStep, RollBackStep
<1>9. CASE UNCHANGED scVars
  <2>1. UNCHANGED <<scope, results, approvals, scTxn, edits, scOverlap>>
    BY <1>9 DEF scVars
  <2>2. RowsOK' /\ ResultsOK'
    BY <2>1, SameResults DEF ScInv, RowsOK, DecisionsKeepTheirRow, ResultsOK
  <2>3. RequestsOK'
    BY <2>1, SameResults, StillOK DEF ScInv, RequestsOK
  <2>4. AloneOK'
    <3>1. \A r \in ScRequests : IsFresh(scTxn[r]) => IsFresh(scTxn[r])'
      BY <2>1, SameRows, SameResults DEF IsFresh
    <3>2. Queue => Queue'
      BY <2>1, SameResults DEF Queue
    <3> QED
      BY <2>1, <3>1, <3>2 DEF ScInv, AloneOK
  <2> QED
    BY <2>2, <2>3, <2>4 DEF ScInv
<1> QED
  BY <1>1, <1>2, <1>3, <1>4, <1>5, <1>6, <1>7, <1>8, <1>9 DEF ScNext

-----------------------------------------------------------------------------
(* Who outranks whom.                                                      *)

\* What repo.upsert keeps of the row it found.
LEMMA MergedKeeps ==
    ASSUME NEW row \in ScopeRow, NEW e, Stored(e) \in ScopeRow
    PROVE  /\ Merged(row, e).bound = row.bound
           /\ row.status = "decommissioned" => Merged(row, e).status = "decommissioned"
           /\ row.overlay # 0 => Merged(row, e).overlay # 0
           /\ e.source = "workbook" /\ row.source = "liongard" /\ row.data # 0
                 => Merged(row, e).data = row.data /\ Merged(row, e).source = "liongard"
           /\ e.source = "liongard" => Merged(row, e).status = row.status
                                      /\ Merged(row, e).overlay = row.overlay
<1>1. e.status \in Statuses /\ e.source \in Sources
  BY DEF Stored, ScopeRow
<1> QED
  BY <1>1 DEF Merged, ScopeRow

\* Over one row, the upsert is the merge.
LEMMA UpsertMerges ==
    ASSUME NEW read, OneRow(read), NEW e, NEW row \in read, NEW new \in Upsert(read, e)
    PROVE  new = Merged(row, e) /\ row \in ScopeRow
<1>1. read = {row} /\ row \in ScopeRow
  BY DEF OneRow
<1>2. Upsert(read, e) = {Merged(row, e)}
  BY <1>1 DEF Upsert
<1> QED
  BY <1>1, <1>2

\* Whatever was committed since the row was read, a commit moves nothing across
\* the boundary and brings nothing back into service.
LEMMA SavedKeeps ==
    ASSUME NEW read, OneRow(read), NEW e, Stored(e) \in ScopeRow, ~ Refused(read, e),
           NEW cur, OneRow(cur), (read = {}) = (cur = {}),
           NEW row \in cur, NEW new \in Saved(read, Upsert(read, e), cur)
    PROVE  /\ new.bound = row.bound
           /\ row.status = "decommissioned" => new.status = "decommissioned"
<1>1. PICK o \in read : read = {o} /\ o \in ScopeRow /\ o.status # "pending_approval"
  BY DEF OneRow
<1>2. cur = {row} /\ row \in ScopeRow
  BY DEF OneRow
<1> DEFINE n == Merged(o, e)
<1>3. Upsert(read, e) = {n}
  BY <1>1 DEF Upsert
<1>4. n \in ScopeRow /\ n.status # "pending_approval" /\ n.bound = o.bound
      /\ (o.status = "decommissioned" => n.status = "decommissioned")
  <2>1. OneRow(Upsert(read, e))
    BY UpsertIsOneRow
  <2> QED
    BY <1>1, <1>3, <2>1, MergedKeeps DEF OneRow
<1> HIDE DEF n
<1>5. new = [f \in DOMAIN row |-> IF \E g \in Column(f) : n[g] # o[g] THEN n[f] ELSE row[f]]
  <2>1. Written({o}, {n}, {row}) =
          {[f \in DOMAIN row |-> IF \E g \in Column(f) : n[g] # o[g] THEN n[f] ELSE row[f]]}
    BY DEF Written
  <2>2. new \in Written({o}, {n}, {row})
    BY <1>1, <1>2, <1>3 DEF Saved
  <2> QED
    BY <2>1, <2>2
<1>6. Column("bound") = {"bound"} /\ Column("status") = {"status"}
  BY DEF Column, Attributes
<1>7. "bound" \in DOMAIN row /\ "status" \in DOMAIN row
  BY <1>2 DEF ScopeRow
<1>8. /\ new.bound = IF n.bound # o.bound THEN n.bound ELSE row.bound
      /\ new.status = IF n.status # o.status THEN n.status ELSE row.status
  BY <1>5, <1>6, <1>7
<1>9. n.status \in Statuses /\ o.status \in Statuses
  BY <1>1, <1>4 DEF ScopeRow
<1> QED
  BY <1>1, <1>4, <1>8, <1>9 DEF Statuses

\* An import over a row; what it read is there when nothing overlaps.
LEMMA ImportKeeps ==
    ASSUME ScInv, NEW r \in ScRequests, ImportCommit(r),
           NEW k \in Keys, NEW row \in scope[k], NEW new \in scope'[k]
    PROVE  /\ new.bound = row.bound
           /\ row.status = "decommissioned" => new.status = "decommissioned"
           /\ ~ scOverlap =>
                 /\ row.overlay # 0 => new.overlay # 0
                 /\ (\A e \in scTxn[r].batch : e.source = "workbook") /\ row.source = "liongard"
                      /\ row.data # 0 => new.data = row.data /\ new.source = "liongard"
<1>1. OneRow(scope[k])
  BY DEF ScInv, RowsOK
<1>2. CASE scope'[k] = scope[k]
  BY <1>1, <1>2 DEF OneRow
<1>3. CASE scope'[k] # scope[k]
  <2> DEFINE read == scTxn[r].read[k]
  <2>1. PICK e \in scTxn[r].batch :
              /\ Stored(e) \in ScopeRow /\ OneRow(read) /\ ~ Refused(read, e)
              /\ (read = {}) = (scope[k] = {}) /\ (~ scOverlap => read = scope[k])
              /\ scope'[k] = Saved(read, Upsert(read, e), scope[k])
    BY <1>3, ImportedRow
  <2> HIDE DEF read
  <2>2. /\ new.bound = row.bound
        /\ row.status = "decommissioned" => new.status = "decommissioned"
    BY <1>1, <2>1, SavedKeeps
  <2>3. ASSUME ~ scOverlap PROVE new = Merged(row, e) /\ row \in ScopeRow
    <3>1. OneRow(Upsert(read, e)) /\ Upsert(read, e) # {}
      BY <2>1, UpsertIsOneRow
    <3>2. scope'[k] = Upsert(scope[k], e)
      BY <2>1, <2>3, <3>1, SavedOverTheSame
    <3> QED
      BY <1>1, <3>2, UpsertMerges
  <2> QED
    BY <2>1, <2>2, <2>3, MergedKeeps
<1> QED
  BY <1>2, <1>3

\* A decision over a row; what it read is there when nothing overlaps.
LEMMA DecisionKeeps ==
    ASSUME ScInv, NEW r \in ScRequests, DecideCommit(r),
           NEW k \in Keys, NEW row \in scope[k], NEW new \in scope'[k]
    PROVE  /\ new.bound = row.bound
           /\ row.status = "decommissioned" => new.status = "decommissioned"
           /\ ~ scOverlap => new.overlay = row.overlay
<1> DEFINE t == scTxn[r]
           e == Decided(t)
<1>1. OneRow(scope[k])
  BY DEF ScInv, RowsOK
<1>2. CASE k # t.key
  BY <1>1, <1>2, DecisionIsOneRow DEF ScInv, OneRow
<1>3. CASE k = t.key
  <2>1. /\ t.op \in {"decide", "counted"} /\ (t.read = {}) = (scope[t.key] = {})
        /\ scope' = [scope EXCEPT ![t.key] = Saved(t.read, Upsert(t.read, e), scope[t.key])]
    BY Zenon DEF DecideCommit
  <2>2. /\ OneRow(t.read) /\ OneRow(Upsert(t.read, e)) /\ Upsert(t.read, e) # {}
        /\ e.source = "liongard" /\ Stored(e) \in ScopeRow /\ ~ Refused(t.read, e)
    BY <2>1, DecidedRow DEF ScInv, RequestsOK, RequestOK
  <2>3. ~ scOverlap => t.read = scope[t.key]
    BY <2>1, OthersIdle DEF ScInv, IsFresh
  <2> HIDE DEF e
  <2>4. scope'[k] = Saved(t.read, Upsert(t.read, e), scope[k])
    BY <1>3, <2>1 DEF ScInv, RowsOK
  <2>5. /\ new.bound = row.bound
        /\ row.status = "decommissioned" => new.status = "decommissioned"
    BY <1>1, <1>3, <2>1, <2>2, <2>4, SavedKeeps
  <2>6. ASSUME ~ scOverlap PROVE new.overlay = row.overlay
    <3>1. scope'[k] = Upsert(scope[k], e)
      BY <1>3, <2>2, <2>3, <2>4, <2>6, SavedOverTheSame
    <3>2. new = Merged(row, e) /\ row \in ScopeRow
      BY <1>1, <3>1, UpsertMerges
    <3> QED
      BY <2>2, <3>2, MergedKeeps
  <2> QED
    BY <2>5, <2>6
<1> QED
  BY <1>2, <1>3

\* The steps that write the scope.
LEMMA WhoWrites ==
    ASSUME ScInv, ScNext
    PROVE  \/ UNCHANGED scope
           \/ edits' # edits /\ \E k \in Keys :
                 \/ DeleteScopeEntity(k)
                 \/ \E e \in Edits : CreateScopeEntity(k, e) \/ PatchScopeEntity(k, e)
           \/ \E r \in ScRequests : ImportCommit(r)
           \/ \E r \in ScRequests : DecideCommit(r)
<1>1. edits \in Nat
  BY ScopeAssumption DEF ScInv, RowsOK
<1>2. ASSUME NEW k \in Keys, NEW rows, Edited(k, rows) PROVE edits' # edits
  BY <1>1, <1>2 DEF Edited
<1>3. ASSUME NEW k \in Keys, NEW e \in Edits, CreateScopeEntity(k, e) \/ PatchScopeEntity(k, e)
      PROVE  edits' # edits
  BY <1>2, <1>3, Zenon DEF CreateScopeEntity, PatchScopeEntity
<1>4. ASSUME NEW k \in Keys, DeleteScopeEntity(k) PROVE edits' # edits
  BY <1>2, <1>4 DEF DeleteScopeEntity
<1>5. ASSUME NEW r \in ScRequests,
             \/ \E sheet \in Sheets : ImportDryRun(r, sheet)
             \/ \E batch \in SUBSET Shown(r) : ImportBegin(r, batch)
             \/ \E e \in Unread(r) : ImportRow(r, e)
             \/ \E inv \in Inventories, how \in {"dry_run", "sync"} : SyncBegin(r, how, inv)
             \/ SyncCommit(r)
             \/ \E i \in 1..MaxResults, k \in Keys, v \in {"approved", "rejected"} :
                   DecideBegin(r, i, k, v)
             \/ DecideCount(r) \/ RollBack(r)
      PROVE  UNCHANGED scope
  BY <1>5, Zenon DEF ImportDryRun, ImportBegin, ImportRow, SyncBegin, SyncCommit, DecideBegin,
                     DecideCount, RollBack
<1> QED
  BY <1>3, <1>4, <1>5 DEF ScNext

\* What only Liongard has reported enters by a decision.
LEMMA EntersDecided ==
    ASSUME ScInv, ScNext, ~ scOverlap, NEW k \in Keys, NEW new \in scope'[k],
           new.source = "liongard", \A j \in Keys : Fold[j] = Fold[k] => scope[j] = {}
    PROVE  \E a \in approvals' \ approvals : a.key = k
<1>1. scope[k] = {}
  OBVIOUS
<1>2. scope'[k] # scope[k]
  BY <1>1
<1>3. ASSUME NEW j \in Keys,
             \/ DeleteScopeEntity(j)
             \/ \E e \in Edits : CreateScopeEntity(j, e) \/ PatchScopeEntity(j, e)
      PROVE  FALSE
  <2>1. PICK rows : scope' = [scope EXCEPT ![j] = rows]
    BY <1>3, Zenon DEF DeleteScopeEntity, CreateScopeEntity, PatchScopeEntity, Edited
  <2>2. j = k
    BY <1>2, <2>1 DEF ScInv, RowsOK
  <2>3. scope'[k] = {} \/ \A n \in scope'[k] : n.source = "manual"
    BY <1>1, <1>3, <2>2, DeleteStep, EditsStep
  <2> QED
    BY <2>3
<1>4. ASSUME NEW r \in ScRequests, ImportCommit(r) PROVE FALSE
  <2> DEFINE t == scTxn[r]
  <2>1. PICK e \in t.batch :
              /\ e.key = k /\ Stored(e) \in ScopeRow /\ e.status # "pending_approval"
              /\ t.read[k] = scope[k]
              /\ scope'[k] = Saved(t.read[k], Upsert(t.read[k], e), scope[k])
    BY <1>2, <1>4, ImportedRow
  <2>2. new = Stored(e)
    BY <1>1, <2>1 DEF Upsert, Saved
  <2>3. e.source = "liongard"
    BY <2>2 DEF Stored
  <2>4. t.op = "import"
    BY <1>4 DEF ImportCommit
  <2>5. ~ IsNew(e)
    BY <2>1, <2>3, <2>4, OthersIdle DEF ScInv, IsFresh
  <2> QED
    BY <2>1, <2>5 DEF IsNew, Current
<1>5. ASSUME NEW r \in ScRequests, DecideCommit(r)
      PROVE  \E a \in approvals' \ approvals : a.key = k
  <2> DEFINE t == scTxn[r]
             a == [key |-> t.key, res |-> t.res, verdict |-> t.verdict]
  <2>1. approvals' = approvals \cup {a}
    BY <1>5, Zenon DEF DecideCommit
  <2>2. t.key = k
    BY <1>2, <1>5, DecisionIsOneRow DEF ScInv
  <2>3. t.op \in {"decide", "counted"} /\ t.verdict # "pending"
    BY <1>5, DecisionDrains DEF Verdicts
  <2>4. t.key \in PendingIn(t.res) /\ Queue
    BY <2>3, OthersIdle DEF ScInv, IsFresh
  <2>5. a \notin approvals
    BY <2>3, <2>4 DEF Queue, PendingIn
  <2> QED
    BY <2>1, <2>2, <2>5
<1> QED
  BY <1>2, <1>3, <1>4, <1>5, WhoWrites

-----------------------------------------------------------------------------
(* The theorems.                                                           *)

\* Whatever overlaps and in whatever order, scope, results, approvals and
\* requests agree.
THEOREM ScInvariant == ScSpec => []ScInv
BY ScInitInv, ScNextInv, PTL DEF ScSpec

\* Rows, sync results, approvals and requests keep their types (models.py).
THEOREM ScTypeCorrect == ScSpec => []ScTypeOK
<1>1. ASSUME ScInv PROVE ScTypeOK
  <2> USE <1>1 DEF ScInv
  <2>1. \A k \in Keys : scope[k] \subseteq ScopeRow /\ Cardinality(scope[k]) <= 1
    BY AtMostOne DEF RowsOK, OneRow
  <2>2. \A i \in DOMAIN results :
           /\ results[i].status \in ResultStatus
           /\ DOMAIN results[i].news \subseteq Keys
           /\ \A k \in DOMAIN results[i].news : results[i].news[k] \in SyncChange
    BY ResultShape DEF ResultsOK
  <2>3. \A r \in ScRequests :
           scTxn[r].op \in {"idle", "screen", "import", "sync", "decide", "counted"}
    BY DEF RequestsOK, RequestOK
  <2> QED
    BY <2>1, <2>2, <2>3 DEF ScTypeOK, RowsOK, ResultsOK
<1> QED
  BY <1>1, ScInvariant, PTL

\* Nothing is stranded pending in the scope, every decision keeps its row, a
\* result that says reviewed is, and one request at a time there is one queue
\* and one decision on a change (approve_change, reject_change,
\* persist_sync_result).
THEOREM DecisionsStaySound == ScSpec => []DecisionsAreSound
<1>1. ASSUME ScInv PROVE DecisionsAreSound
  <2> USE <1>1 DEF ScInv
  <2>1. NothingIsStranded
    BY DEF RowsOK, OneRow, NothingIsStranded
  <2>2. DecisionsKeepTheirRow
    BY DEF RowsOK
  <2>3. ReviewedMeansDecided
    BY DEF ResultsOK, AloneOK, Queue, PendingResults, ReviewedMeansDecided
  <2>4. OneQueueOneDecision
    <3> SUFFICES ASSUME ~ scOverlap
                 PROVE  /\ Cardinality(PendingResults) <= 1
                        /\ \A a, b \in approvals : a.key = b.key /\ a.res = b.res => a = b
      BY DEF OneQueueOneDecision
    <3>1. Cardinality(PendingResults) <= 1
      BY AtMostOne DEF AloneOK, Queue
    <3>2. ASSUME NEW a \in approvals, NEW b \in approvals, a.key = b.key, a.res = b.res
          PROVE  a = b
      <4>1. a.verdict = b.verdict
        BY <3>2 DEF AloneOK, Queue
      <4>2. a \in Approval /\ b \in Approval
        BY DEF RowsOK
      <4> QED
        BY <3>2, <4>1, <4>2 DEF Approval
    <3> QED
      BY <3>1, <3>2
  <2> QED
    BY <2>1, <2>2, <2>3, <2>4 DEF DecisionsAreSound
<1> QED
  BY <1>1, ScInvariant, PTL

\* Whatever overlaps, no feed moves a row across the boundary or back into
\* service.  One request at a time none erases what a person knew, Liongard's
\* value stands against a workbook, and what only Liongard has reported enters by
\* a decision (repo.upsert).
THEOREM SourcesKeepRank == ScSpec => SourcesKeepTheirRank
<1>1. ScInv /\ [ScNext]_scVars =>
        [FeedStep => \A k \in Keys : \A row \in scope[k], new \in scope'[k] :
           /\ new.bound = row.bound
           /\ row.status = "decommissioned" => new.status = "decommissioned"
           /\ ~scOverlap /\ row.overlay # 0 => new.overlay # 0]_scVars
  <2> SUFFICES ASSUME ScInv, ScNext, edits' = edits, NEW k \in Keys, NEW row \in scope[k],
                      NEW new \in scope'[k]
               PROVE  /\ new.bound = row.bound
                      /\ row.status = "decommissioned" => new.status = "decommissioned"
                      /\ ~scOverlap /\ row.overlay # 0 => new.overlay # 0
    BY DEF FeedStep
  <2>1. CASE UNCHANGED scope
    BY <2>1 DEF ScInv, RowsOK, OneRow
  <2>2. ASSUME NEW r \in ScRequests, ImportCommit(r)
        PROVE  /\ new.bound = row.bound
               /\ row.status = "decommissioned" => new.status = "decommissioned"
               /\ ~scOverlap /\ row.overlay # 0 => new.overlay # 0
    BY <2>2, ImportKeeps
  <2>3. ASSUME NEW r \in ScRequests, DecideCommit(r)
        PROVE  /\ new.bound = row.bound
               /\ row.status = "decommissioned" => new.status = "decommissioned"
               /\ ~scOverlap => new.overlay = row.overlay
    BY <2>3, DecisionKeeps
  <2> QED
    BY <2>1, <2>2, <2>3, WhoWrites
<1>2. ScInv /\ [ScNext]_scVars =>
        [~scOverlap => \A r \in ScRequests :
          ImportCommit(r) /\ (\A e \in scTxn[r].batch : e.source = "workbook") =>
             \A k \in Keys : \A row \in scope[k], new \in scope'[k] :
                row.source = "liongard" /\ row.data # 0
                   => new.data = row.data /\ new.source = "liongard"]_scVars
  BY ImportKeeps
<1>3. ScInv /\ [ScNext]_scVars =>
        [~scOverlap => \A k \in Keys : \A new \in scope'[k] :
          new.source = "liongard" /\ (\A j \in Keys : Fold[j] = Fold[k] => scope[j] = {})
             => \E a \in approvals' \ approvals : a.key = k]_scVars
  BY EntersDecided
<1> QED
  BY <1>1, <1>2, <1>3, ScInvariant, PTL
     DEF ScSpec, SourcesKeepTheirRank, FeedsKeepHumanFacts, ConnectorValueStands,
         NothingEntersUndecided

-----------------------------------------------------------------------------
(* Coverage.                                                               *)

\* The organisation has one assessment on the framework.
OneAssessment == \A a, b \in Assessments : a = b

\* A product is pinned once it has been activated, to a version there is.
PinsOK ==
    \A p \in Products :
        /\ orgProduct[p].status = "absent" <=> orgProduct[p].pin = 0
        /\ orgProduct[p].pin <= product[p].current

\* Nothing is judged or covered before an assessment starts.
SeedsOK ==
    \A a \in Assessments : ~ assessment[a].started =>
        \A o \in Objectives :
            state[a][o] = Seed /\ \A p \in Products : contributor[a][o][p] = 0

\* A link that is live or that a person took off waits for no product.
LinksOK ==
    \A a \in Assessments, o \in Objectives, e \in Evidence :
        link[a][o][e].cause \in {"live", "detached"} => link[a][o][e].by = NoProduct

CovRows == TypeOK /\ PinsOK /\ SeedsOK /\ LinksOK
CovInv == CovRows /\ ResponsibilityIsResolved /\ ScoreIsCurrent
CovOneInv == CovInv /\ ContributorsAreCurrent /\ ArchivedLinksWaitForTheirProduct

-----------------------------------------------------------------------------
(* The score.                                                              *)

\* The score is a number.
LEMMA CovScoreIsInt ==
    ASSUME NEW status
    PROVE  compute_sprs(status) \in Int
<1>1. /\ deducting_controls(status) \in SUBSET Controls
      /\ IsFiniteSet(deducting_controls(status))
  BY CatalogAssumption, FS_Subset DEF deducting_controls
<1>2. Sum(Weight, deducting_controls(status)) \in Nat
  BY <1>1, CatalogAssumption, SumIsNat
<1>3. compute_sprs(status) = SPRS_MAX - Sum(Weight, deducting_controls(status))
  BY FoldIsSum DEF compute_sprs
<1> QED
  BY <1>2, <1>3 DEF SPRS_MAX

\* Where no objective comes to pass, no points are gained.
LEMMA CovScoreFalls ==
    ASSUME NEW old, NEW new,
           \A o \in Objectives : old[o] \notin {"met", "inherited"}
                                   => new[o] \notin {"met", "inherited"}
    PROVE  compute_sprs(new) <= compute_sprs(old)
<1> DEFINE S == deducting_controls(new)
           T == deducting_controls(old)
<1>1. S \in SUBSET Controls /\ IsFiniteSet(S) /\ T \in SUBSET S
  BY CatalogAssumption, FS_Subset DEF deducting_controls
<1>2. T \in SUBSET Controls /\ IsFiniteSet(T)
  BY <1>1, FS_Subset
<1>3. Sum(Weight, S) \in Nat /\ Sum(Weight, T) \in Nat
  BY <1>1, <1>2, CatalogAssumption, SumIsNat
<1>4. Sum(Weight, T) <= Sum(Weight, S)
  BY <1>1, CatalogAssumption, SumGrows
<1>5. /\ compute_sprs(new) = SPRS_MAX - Sum(Weight, S)
      /\ compute_sprs(old) = SPRS_MAX - Sum(Weight, T)
  BY FoldIsSum DEF compute_sprs
<1> QED
  BY <1>3, <1>4, <1>5 DEF SPRS_MAX

-----------------------------------------------------------------------------
(* What products claim of an objective.                                    *)

\* The products in a contributor row, and what they claim.
Who(row) == {p \in Products : row[p] # 0}
Claims(row, o, among) == {Classification(p, row[p], o) : p \in Who(row) \cap among}

\* Classifications reads the rows of an assessment.
LEMMA ClaimsAre ==
    ASSUME NEW a, NEW o, NEW among
    PROVE  /\ Classifications(a, o, among) = Claims(contributor[a][o], o, among)
           /\ Contributors(a, o) = Who(contributor[a][o])
BY DEF Classifications, Claims, Contributors, Who

\* A responsibility that follows from the row it stands beside.
ResolvedAt(responsibility, row, o) ==
    Who(row) # {} => (responsibility = "shared" <=> "shared" \in Claims(row, o, Products))

\* A responsibility that has been resolved from the row's claims follows from it.
LEMMA ResolveIsRight ==
    ASSUME NEW row, NEW o,
           NEW r, r = resolve_contributor_responsibility(Claims(row, o, Products))
    PROVE  ResolvedAt(r, row, o)
BY DEF ResolvedAt, resolve_contributor_responsibility

\* The claims once a product has come or changed its own.
LEMMA ClaimsWith ==
    ASSUME NEW row \in [Products -> 0..MaxVersion], NEW o, NEW p \in Products,
           NEW v \in 1..MaxVersion, NEW new,
           new[p] = v, \A q \in Products \ {p} : new[q] = row[q]
    PROVE  Claims(new, o, Products) = Claims(row, o, Products \ {p}) \cup {Classification(p, v, o)}
<1>1. \A q \in Products : new[q] = IF q = p THEN v ELSE row[q]
  OBVIOUS
<1>2. v # 0
  BY BaselineAssumption
<1>3. Who(new) \cap Products = (Who(row) \cap (Products \ {p})) \cup {p}
  BY <1>1, <1>2 DEF Who
<1>4. \A q \in Who(row) \cap (Products \ {p}) : new[q] = row[q]
  BY <1>1 DEF Who
<1>5. new[p] = v
  BY <1>1
<1> QED
  BY <1>3, <1>4, <1>5 DEF Claims

\* The claims once a product has left, and those beside one that is not there.
LEMMA ClaimsWithout ==
    ASSUME NEW row \in [Products -> 0..MaxVersion], NEW o, NEW p \in Products,
           NEW new, new = [row EXCEPT ![p] = 0]
    PROVE  /\ Claims(new, o, Products) = Claims(row, o, Products \ {p})
           /\ row[p] = 0 => Claims(row, o, Products \ {p}) = Claims(row, o, Products)
<1>1. \A q \in Products : new[q] = IF q = p THEN 0 ELSE row[q]
  OBVIOUS
<1>2. Who(new) \cap Products = Who(row) \cap (Products \ {p})
  BY <1>1 DEF Who
<1>3. \A q \in Who(row) \cap (Products \ {p}) : new[q] = row[q]
  BY <1>1 DEF Who
<1>4. Claims(new, o, Products) = Claims(row, o, Products \ {p})
  BY <1>2, <1>3 DEF Claims
<1> QED
  BY <1>4 DEF Who, Claims

\* What a version covers: objectives, through rows of controls it has.
LEMMA CoversAre ==
    ASSUME NEW p \in Products, NEW v \in 0..MaxVersion
    PROVE  /\ Covers(p, v) \subseteq Objectives
           /\ v = 0 => Covers(p, v) = {}
           /\ \A c \in Claimed(p, v) : c \in Controls /\ Baseline[p][v][c] \in BaselineRow
<1>1. CASE v = 0
  BY <1>1 DEF Covers, Claimed
<1>2. CASE v # 0
  <2>1. v \in Versions
    BY <1>2, BaselineAssumption DEF Versions
  <2>2. \A c \in Claimed(p, v) : c \in Controls /\ Baseline[p][v][c] \in BaselineRow
    BY <1>2, <2>1, BaselineAssumption DEF Claimed
  <2>3. \A c \in Claimed(p, v) : Baseline[p][v][c].objectives \subseteq Objectives
    BY <2>2 DEF BaselineRow
  <2> QED
    BY <1>2, <2>2, <2>3 DEF Covers
<1> QED
  BY <1>1, <1>2

-----------------------------------------------------------------------------
(* What the engine does to an assessment, whatever the request.            *)

StateRow == [status : Status, responsibility : Responsibility]
RowType == [Products -> 0..MaxVersion]

\* A responsibility stays with its row or is resolved from the new one.
RowMoves(a, o) ==
    \/ /\ contributor'[a][o] = contributor[a][o]
       /\ state'[a][o].responsibility = state[a][o].responsibility
    \/ ResolvedAt(state'[a][o].responsibility, contributor'[a][o], o)

\* One assessment's rows move, its responsibilities and its score with them.
RowsFollow(a) ==
    /\ state' \in [Assessments -> [Objectives -> StateRow]]
    /\ contributor' \in [Assessments -> [Objectives -> RowType]]
    /\ \A b \in Assessments : b # a => /\ state'[b] = state[b]
                                       /\ contributor'[b] = contributor[b]
    /\ \A o \in Objectives : RowMoves(a, o)
    /\ assessment' = [assessment EXCEPT ![a] =
           [started |-> TRUE,
            score |-> compute_sprs([o \in Objectives |-> state'[a][o].status])]]

\* The engine moves rows so, and leaves each status or asks for evidence or for a person.
EngineMoves(a) ==
    /\ RowsFollow(a)
    /\ \A o \in Objectives :
           state'[a][o].status \in {state[a][o].status, "needs_review", "pending_evidence"}

\* recompute_sprs stores the score of the states it is given.
LEMMA RecomputeIs ==
    ASSUME TypeOK, NEW a \in Assessments, NEW states, assessment[a].started,
           recompute_sprs(a, states), state' = [state EXCEPT ![a] = states]
    PROVE  assessment' = [assessment EXCEPT ![a] =
               [started |-> TRUE,
                score |-> compute_sprs([o \in Objectives |-> state'[a][o].status])]]
<1> DEFINE n == compute_sprs([o \in Objectives |-> states[o].status])
<1>1. state'[a] = states
  BY DEF TypeOK
<1>2. assessment' = [assessment EXCEPT ![a].score = n]
  BY DEF recompute_sprs
<1>3. assessment[a] \in [started : BOOLEAN, score : Int]
  BY DEF TypeOK
<1>4. assessment' = [assessment EXCEPT ![a] = [assessment[a] EXCEPT !.score = n]]
  BY <1>2
<1>5. [assessment[a] EXCEPT !.score = n] = [started |-> TRUE, score |-> n]
  <2> DEFINE row == [assessment[a] EXCEPT !.score = n]
  <2>1. n \in Int
    BY CovScoreIsInt
  <2> HIDE DEF n
  <2>2. row \in [started : BOOLEAN, score : Int] /\ row.started /\ row.score = n
    BY <1>3, <2>1
  <2> HIDE DEF row
  <2>3. row = [started |-> TRUE, score |-> n]
    BY <2>2
  <2> QED
    BY <2>3 DEF row
<1> QED
  BY <1>1, <1>4, <1>5

\* A claim is one a baseline row makes, so what is resolved is a responsibility.
LEMMA ResolvedIsTyped ==
    ASSUME NEW claims
    PROVE  resolve_contributor_responsibility(claims) \in Responsibility
BY DEF resolve_contributor_responsibility, Responsibility

\* An objective that a product joins.
LEMMA JoinMoves ==
    ASSUME TypeOK, NEW a \in Assessments, NEW o \in Objectives, NEW p \in Products,
           NEW v \in 1..MaxVersion, contributor[a][o][p] = 0,
           NEW r, r = resolve_contributor_responsibility(
                          Classifications(a, o, Products) \cup {Classification(p, v, o)})
    PROVE  ResolvedAt(r, [contributor[a][o] EXCEPT ![p] = v], o)
<1> DEFINE row == contributor[a][o]
           new == [row EXCEPT ![p] = v]
<1>1. row \in [Products -> 0..MaxVersion]
  BY DEF TypeOK
<1>2. Claims(row, o, Products) = Classifications(a, o, Products)
  BY ClaimsAre
<1>3. Claims(row, o, Products \ {p}) = Claims(row, o, Products)
  BY <1>1, ClaimsWithout
<1>4. Claims(new, o, Products) = Claims(row, o, Products \ {p}) \cup {Classification(p, v, o)}
  <2>1. new[p] = v /\ \A q \in Products \ {p} : new[q] = row[q]
    BY <1>1
  <2> HIDE DEF row, new
  <2> QED
    BY <1>1, <2>1, ClaimsWith
<1> HIDE DEF new
<1> QED
  BY <1>2, <1>3, <1>4, ResolveIsRight DEF new

\* An objective that a product leaves.
LEMMA LeaveMoves ==
    ASSUME TypeOK, NEW a \in Assessments, NEW o \in Objectives, NEW p \in Products
    PROVE  /\ ResolvedAt(LostState(a, o, p).responsibility,
                         [contributor[a][o] EXCEPT ![p] = 0], o)
           /\ LostState(a, o, p) \in StateRow
           /\ LostState(a, o, p).status = "needs_review"
<1> DEFINE row == contributor[a][o]
           new == [row EXCEPT ![p] = 0]
<1>1. row \in RowType /\ state[a][o] \in StateRow
  BY DEF TypeOK, RowType, StateRow
<1>2. Claims(new, o, Products) = Claims(row, o, Products \ {p})
  BY <1>1, ClaimsWithout DEF RowType
<1>3. Claims(row, o, Products \ {p}) = Classifications(a, o, Products \ {p})
  BY ClaimsAre
<1>4. LostState(a, o, p).status = "needs_review"
  BY DEF LostState
<1>5. CASE Contributors(a, o) = {p}
  <2>1. Who(new) = {}
    BY <1>1, <1>5, ClaimsAre DEF Who, RowType
  <2>2. LostState(a, o, p).responsibility = state[a][o].responsibility
    BY <1>5 DEF LostState
  <2>3. LostState(a, o, p) \in StateRow
    BY <1>1, <2>2, <1>4 DEF StateRow, LostState, Status
  <2> QED
    BY <1>4, <2>1, <2>3 DEF ResolvedAt
<1>6. CASE Contributors(a, o) # {p}
  <2>1. LostState(a, o, p).responsibility
            = resolve_contributor_responsibility(Classifications(a, o, Products \ {p}))
    BY <1>6 DEF LostState
  <2>2. LostState(a, o, p) \in StateRow
    BY <2>1, <1>4, ResolvedIsTyped DEF StateRow, LostState, Status
  <2> QED
    BY <1>2, <1>3, <1>4, <2>1, <2>2, ResolveIsRight
<1> QED
  BY <1>5, <1>6

\* Activation: what the product joins, and what regained evidence.
LEMMA ActivateMoves ==
    ASSUME CovRows, NEW a \in Assessments, NEW p \in Products, NEW keep,
           activate_org_product(a, p, keep)
    PROVE  EngineMoves(a)
<1> DEFINE v == IF orgProduct[p].pin = 0 THEN product[p].current ELSE orgProduct[p].pin
           looped == LoopState(a, p, v, keep)
           regained(o) == \E e \in Evidence : <<o, e>> \in RestorableLinks(a, p)
           states == [o \in Objectives |->
                         IF looped[o].status = "pending_evidence" /\ regained(o)
                         THEN [looped[o] EXCEPT !.status = "needs_review"] ELSE looped[o]]
<1>1. /\ state' = [state EXCEPT ![a] = states] /\ assessment[a].started
      /\ contributor' = [contributor EXCEPT ![a] = LoopContributor(a, p, v)]
      /\ recompute_sprs(a, states)
      /\ orgProduct[p].pin = 0 => product[p].current # 0
  BY DEF activate_org_product
<1>2. v \in 1..MaxVersion
  BY <1>1, BaselineAssumption DEF CovRows, TypeOK
<1>3. ASSUME NEW o \in Objectives, o \in Joins(a, p, v)
      PROVE  /\ looped[o] \in StateRow
             /\ looped[o].status \in {state[a][o].status, "needs_review", "pending_evidence"}
             /\ ResolvedAt(looped[o].responsibility, LoopContributor(a, p, v)[o], o)
             /\ LoopContributor(a, p, v)[o] \in RowType
  <2>1. contributor[a][o][p] = 0 /\ contributor[a][o] \in RowType /\ state[a][o] \in StateRow
    BY <1>3 DEF Joins, CovRows, TypeOK, RowType, StateRow
  <2>2. LoopContributor(a, p, v)[o] = [contributor[a][o] EXCEPT ![p] = v]
    BY <1>3 DEF LoopContributor
  <2> DEFINE r == resolve_contributor_responsibility(
                      Classifications(a, o, Products) \cup {Classification(p, v, o)})
             s == contributor_added_status(state[a][o].status, Contributors(a, o) = {}, o \in keep)
  <2>3. looped[o] = [status |-> s, responsibility |-> r]
    BY <1>3 DEF LoopState
  <2>4. ResolvedAt(r, LoopContributor(a, p, v)[o], o)
    BY <1>2, <2>1, <2>2, JoinMoves DEF CovRows
  <2>5. s \in {state[a][o].status, "needs_review", "pending_evidence"} /\ s \in Status
    <3>1. state[a][o].status \in Status
      BY <2>1 DEF StateRow
    <3> QED
      BY <3>1 DEF contributor_added_status, is_judgement_in_question, Status
  <2>6. r \in Responsibility
    BY ResolvedIsTyped
  <2>7. LoopContributor(a, p, v)[o] \in RowType
    BY <1>2, <2>1, <2>2 DEF RowType
  <2> HIDE DEF r, s
  <2> QED
    BY <2>3, <2>4, <2>5, <2>6, <2>7 DEF StateRow
<1>4. ASSUME NEW o \in Objectives, o \notin Joins(a, p, v)
      PROVE  looped[o] = state[a][o] /\ LoopContributor(a, p, v)[o] = contributor[a][o]
  BY <1>4 DEF LoopState, LoopContributor
<1>5. \A o \in Objectives : state[a][o] \in StateRow /\ contributor[a][o] \in RowType
  BY DEF CovRows, TypeOK, StateRow, RowType
<1>6. \A o \in Objectives : looped[o] \in StateRow
  BY <1>3, <1>4, <1>5
<1>7. ASSUME NEW o \in Objectives
      PROVE  /\ states[o] \in StateRow
             /\ states[o].responsibility = looped[o].responsibility
             /\ states[o].status \in {looped[o].status, "needs_review"}
  <2> HIDE DEF looped, regained
  <2>1. looped[o] \in StateRow
    BY <1>6
  <2>2. [looped[o] EXCEPT !.status = "needs_review"]
            = [status |-> "needs_review", responsibility |-> looped[o].responsibility]
    BY <2>1 DEF StateRow
  <2> QED
    BY <2>1, <2>2 DEF StateRow, Status
<1> HIDE DEF looped, regained, v
<1>8. states \in [Objectives -> StateRow]
  BY <1>7
<1>9. LoopContributor(a, p, v) \in [Objectives -> RowType]
  BY <1>3, <1>4, <1>5 DEF LoopContributor
<1> HIDE DEF states
<1>10. /\ state' \in [Assessments -> [Objectives -> StateRow]]
       /\ contributor' \in [Assessments -> [Objectives -> RowType]]
       /\ state'[a] = states /\ contributor'[a] = LoopContributor(a, p, v)
       /\ \A b \in Assessments : b # a => /\ state'[b] = state[b]
                                          /\ contributor'[b] = contributor[b]
  BY <1>1, <1>8, <1>9 DEF CovRows, TypeOK, StateRow, RowType
<1>11. ASSUME NEW o \in Objectives
       PROVE  /\ state'[a][o].status \in {state[a][o].status, "needs_review", "pending_evidence"}
              /\ RowMoves(a, o)
  <2>1. CASE o \in Joins(a, p, v)
    BY <1>3, <1>7, <1>10, <2>1 DEF RowMoves
  <2>2. CASE o \notin Joins(a, p, v)
    BY <1>4, <1>7, <1>10, <2>2 DEF RowMoves
  <2> QED
    BY <2>1, <2>2
<1>12. assessment' = [assessment EXCEPT ![a] =
           [started |-> TRUE,
            score |-> compute_sprs([o \in Objectives |-> state'[a][o].status])]]
  BY <1>1, RecomputeIs DEF CovRows
<1> QED
  BY <1>10, <1>11, <1>12 DEF EngineMoves, RowsFollow

\* What follows once the states and the rows of an assessment are known.
LEMMA MovesFrom ==
    ASSUME CovRows, NEW a \in Assessments, assessment[a].started,
           NEW states, NEW rows,
           state' = [state EXCEPT ![a] = states], recompute_sprs(a, states),
           contributor' = [contributor EXCEPT ![a] = rows],
           states = [o \in Objectives |-> states[o]], rows = [o \in Objectives |-> rows[o]],
           \A o \in Objectives :
               /\ states[o] \in StateRow /\ rows[o] \in RowType
               /\ states[o].status \in {state[a][o].status, "needs_review", "pending_evidence"}
               /\ \/ rows[o] = contributor[a][o]
                        /\ states[o].responsibility = state[a][o].responsibility
                  \/ ResolvedAt(states[o].responsibility, rows[o], o)
    PROVE  EngineMoves(a)
<1>1. states \in [Objectives -> StateRow] /\ rows \in [Objectives -> RowType]
  OBVIOUS
<1>2. /\ state' \in [Assessments -> [Objectives -> StateRow]]
      /\ contributor' \in [Assessments -> [Objectives -> RowType]]
      /\ state'[a] = states /\ contributor'[a] = rows
      /\ \A b \in Assessments : b # a => /\ state'[b] = state[b]
                                         /\ contributor'[b] = contributor[b]
  BY <1>1 DEF CovRows, TypeOK, StateRow, RowType
<1>3. assessment' = [assessment EXCEPT ![a] =
          [started |-> TRUE,
           score |-> compute_sprs([o \in Objectives |-> state'[a][o].status])]]
  BY RecomputeIs DEF CovRows
<1>4. \A o \in Objectives : RowMoves(a, o)
  BY <1>2 DEF RowMoves
<1> QED
  BY <1>2, <1>3, <1>4 DEF EngineMoves, RowsFollow

\* Deactivation: the product leaves what it contributed to.
LEMMA DeactivateMoves ==
    ASSUME CovRows, NEW a \in Assessments, NEW p \in Products, deactivate_org_product(a, p)
    PROVE  EngineMoves(a)
<1> DEFINE states == [o \in Objectives |->
                         IF o \in Sourced(a, p) THEN LostState(a, o, p) ELSE state[a][o]]
           rows == [o \in Objectives |-> [contributor[a][o] EXCEPT ![p] = 0]]
<1>1. /\ state' = [state EXCEPT ![a] = states] /\ assessment[a].started
      /\ contributor' = [contributor EXCEPT ![a] = rows]
      /\ recompute_sprs(a, states)
  BY DEF deactivate_org_product
<1>2. ASSUME NEW o \in Objectives
      PROVE  /\ states[o] \in StateRow /\ rows[o] \in RowType
             /\ states[o].status \in {state[a][o].status, "needs_review", "pending_evidence"}
             /\ \/ rows[o] = contributor[a][o]
                      /\ states[o].responsibility = state[a][o].responsibility
                \/ ResolvedAt(states[o].responsibility, rows[o], o)
  <2>1. contributor[a][o] \in RowType /\ state[a][o] \in StateRow
    BY DEF CovRows, TypeOK, RowType, StateRow
  <2>2. rows[o] \in RowType
    BY <2>1, BaselineAssumption DEF RowType
  <2>3. CASE o \in Sourced(a, p)
    BY <2>2, <2>3, LeaveMoves DEF CovRows
  <2>4. CASE o \notin Sourced(a, p)
    <3>1. contributor[a][o][p] = 0
      BY <2>4 DEF Sourced
    <3>2. rows[o] = contributor[a][o]
      BY <2>1, <3>1 DEF RowType
    <3> QED
      BY <2>1, <2>2, <2>4, <3>2
  <2> QED
    BY <2>3, <2>4
<1>3. states = [o \in Objectives |-> states[o]] /\ rows = [o \in Objectives |-> rows[o]]
  OBVIOUS
<1> HIDE DEF states, rows
<1> QED
  BY <1>1, <1>2, <1>3, MovesFrom

\* A version move: what the product leaves, joins, or claims otherwise.
LEMMA VersionMoves ==
    ASSUME CovRows, NEW a \in Assessments, NEW p \in Products, NEW v \in Versions,
           move_org_product_version(a, p, v)
    PROVE  EngineMoves(a)
<1> DEFINE states == [o \in Objectives |-> MovedState(a, o, p, v)]
           touched == Gained(a, p, v) \cup Reclassified(a, p, v)
           rows == [o \in Objectives |-> [contributor[a][o] EXCEPT ![p] =
                       IF o \in Dropped(a, p, v) THEN 0
                       ELSE IF o \in touched THEN v ELSE contributor[a][o][p]]]
<1>1. /\ state' = [state EXCEPT ![a] = states] /\ assessment[a].started
      /\ contributor' = [contributor EXCEPT ![a] = rows]
      /\ recompute_sprs(a, states)
  BY DEF move_org_product_version
<1>2. ASSUME NEW o \in Objectives
      PROVE  /\ states[o] \in StateRow /\ rows[o] \in RowType
             /\ states[o].status \in {state[a][o].status, "needs_review", "pending_evidence"}
             /\ \/ rows[o] = contributor[a][o]
                      /\ states[o].responsibility = state[a][o].responsibility
                \/ ResolvedAt(states[o].responsibility, rows[o], o)
  <2>1. contributor[a][o] \in RowType /\ state[a][o] \in StateRow /\ v \in 1..MaxVersion
    BY DEF CovRows, TypeOK, RowType, StateRow, Versions
  <2>2. rows[o] \in RowType
    BY <2>1, BaselineAssumption DEF RowType
  <2>0. /\ o \in Dropped(a, p, v) => o \notin Gained(a, p, v) /\ o \notin Reclassified(a, p, v)
        /\ o \in Gained(a, p, v) => o \notin Reclassified(a, p, v)
    BY DEF Dropped, Gained, Reclassified
  <2>3. CASE o \in Dropped(a, p, v)
    <3>1. MovedState(a, o, p, v) = LostState(a, o, p)
      BY <2>0, <2>3 DEF MovedState
    <3>2. rows[o] = [contributor[a][o] EXCEPT ![p] = 0]
      BY <2>3
    <3>3. states[o] = LostState(a, o, p)
      BY <3>1
    <3> HIDE DEF states, rows
    <3> QED
      BY <2>2, <3>2, <3>3, LeaveMoves DEF CovRows
  <2>4. CASE o \in Gained(a, p, v)
    <3>1. o \notin Dropped(a, p, v) /\ contributor[a][o][p] = 0 /\ o \in Joins(a, p, v)
      BY <2>4 DEF Gained, Dropped, Joins
    <3> DEFINE r == resolve_contributor_responsibility(
                        Classifications(a, o, Products) \cup {Classification(p, v, o)})
               s == contributor_added_status(state[a][o].status, Contributors(a, o) = {}, o \in {})
    <3>2. states[o] = LoopState(a, p, v, {})[o]
      <4>1. MovedState(a, o, p, v) = LoopState(a, p, v, {})[o]
        BY <2>0, <2>4 DEF MovedState
      <4> QED
        BY <4>1
    <3>3. states[o] = [status |-> s, responsibility |-> r]
      BY <3>1, <3>2 DEF LoopState
    <3>4. rows[o] = [contributor[a][o] EXCEPT ![p] = v]
      BY <2>4, <3>1
    <3>5. s \in {state[a][o].status, "needs_review", "pending_evidence"} /\ s \in Status
      <4>1. state[a][o].status \in Status
        BY <2>1 DEF StateRow
      <4> QED
        BY <4>1 DEF contributor_added_status, is_judgement_in_question, Status
    <3>6. r \in Responsibility /\ ResolvedAt(r, [contributor[a][o] EXCEPT ![p] = v], o)
      BY <2>1, <3>1, ResolvedIsTyped, JoinMoves DEF CovRows
    <3> HIDE DEF r, s, states, rows
    <3> QED
      BY <2>2, <3>3, <3>4, <3>5, <3>6 DEF StateRow
  <2>5. CASE o \in Reclassified(a, p, v) /\ o \notin Dropped(a, p, v) /\ o \notin Gained(a, p, v)
    <3> DEFINE claims == Classifications(a, o, Products \ {p}) \cup {Classification(p, v, o)}
               r == resolve_contributor_responsibility(claims)
    <3>1. states[o] = [status |-> "needs_review", responsibility |-> r]
      BY <2>5 DEF MovedState
    <3>2. rows[o] = [contributor[a][o] EXCEPT ![p] = v]
      BY <2>5
    <3>3. rows[o][p] = v /\ \A q \in Products \ {p} : rows[o][q] = contributor[a][o][q]
      BY <2>1, <3>2 DEF RowType
    <3> HIDE DEF rows, states
    <3> DEFINE old == contributor[a][o]
               new == rows[o]
    <3>4. Claims(new, o, Products)
              = Claims(old, o, Products \ {p}) \cup {Classification(p, v, o)}
      <4>1. /\ old \in [Products -> 0..MaxVersion]
            /\ new[p] = v /\ \A q \in Products \ {p} : new[q] = old[q]
        BY <2>1, <3>3 DEF RowType
      <4>2. v \in 1..MaxVersion
        BY <2>1
      <4> HIDE DEF old, new
      <4> QED
        BY <4>1, <4>2, ClaimsWith
    <3>5. Claims(rows[o], o, Products) = claims
      BY <3>4, ClaimsAre
    <3>6. r \in Responsibility /\ ResolvedAt(r, rows[o], o)
      BY <3>5, ResolvedIsTyped, ResolveIsRight
    <3> HIDE DEF r
    <3> QED
      BY <2>2, <3>1, <3>6 DEF StateRow, Status
  <2>6. CASE o \notin Reclassified(a, p, v) /\ o \notin Dropped(a, p, v) /\ o \notin Gained(a, p, v)
    <3>1. states[o] = state[a][o]
      BY <2>6 DEF MovedState
    <3>2. rows[o] = contributor[a][o]
      BY <2>1, <2>6 DEF RowType
    <3> QED
      BY <2>1, <2>2, <3>1, <3>2
  <2> QED
    BY <2>3, <2>4, <2>5, <2>6
<1>3. states = [o \in Objectives |-> states[o]] /\ rows = [o \in Objectives |-> rows[o]]
  OBVIOUS
<1> HIDE DEF states, rows, touched
<1> QED
  BY <1>1, <1>2, <1>3, MovesFrom

\* The start of an assessment.
LEMMA StartMoves ==
    ASSUME CovRows, NEW a \in Assessments, start_assessment(a)
    PROVE  EngineMoves(a)
<1> DEFINE claims(o) == {Classification(p, Pin(p), o) : p \in Covering(o)}
           states == StartState
           rows == StartContributor
           n == compute_sprs([o \in Objectives |-> states[o].status])
<1>1. /\ ~ assessment[a].started /\ state' = [state EXCEPT ![a] = states]
      /\ contributor' = [contributor EXCEPT ![a] = rows]
  BY DEF start_assessment
<1>2. assessment' = [assessment EXCEPT ![a] = [started |-> TRUE, score |-> n]]
  BY DEF start_assessment
<1>3. ASSUME NEW o \in Objectives
      PROVE  /\ states[o] \in StateRow /\ rows[o] \in RowType
             /\ states[o].status \in {state[a][o].status, "needs_review", "pending_evidence"}
             /\ ResolvedAt(states[o].responsibility, rows[o], o)
  <2>1. \A p \in Products : Pin(p) \in 0..MaxVersion
    BY DEF CovRows, TypeOK, Pin
  <2>2. rows[o] \in RowType
    BY <2>1, BaselineAssumption DEF RowType, StartContributor
  <2>3. \A p \in Covering(o) : p \in Products /\ Pin(p) # 0
    BY DEF Covering, Active, Pin, CovRows, PinsOK
  <2>4. Who(rows[o]) = Covering(o)
    BY <2>3 DEF Who, StartContributor
  <2>5. CASE Covering(o) = {}
    <3>1. states[o] = Seed /\ state[a][o] = Seed
      BY <1>1, <2>5 DEF CovRows, SeedsOK, StartState
    <3> QED
      BY <2>2, <2>4, <2>5, <3>1 DEF ResolvedAt, Seed, StateRow, Status, Responsibility
  <2>6. CASE Covering(o) # {}
    <3> DEFINE r == resolve_contributor_responsibility(claims(o))
    <3>1. states[o] = [status |-> "pending_evidence", responsibility |-> r]
      BY <2>6 DEF StartState
    <3>2. Claims(rows[o], o, Products) = claims(o)
      <4>1. Who(rows[o]) \cap Products = Covering(o)
        BY <2>3, <2>4
      <4>2. \A p \in Covering(o) : rows[o][p] = Pin(p)
        BY <2>3 DEF StartContributor
      <4> HIDE DEF rows
      <4> QED
        BY <4>1, <4>2 DEF Claims
    <3>3. r \in Responsibility
      BY ResolvedIsTyped
    <3> HIDE DEF states, rows, claims
    <3>4. ResolvedAt(r, rows[o], o)
      BY <3>2, ResolveIsRight
    <3> HIDE DEF r
    <3> QED
      BY <2>2, <3>1, <3>3, <3>4 DEF StateRow, Status
  <2> QED
    BY <2>5, <2>6
<1>4. states \in [Objectives -> StateRow] /\ rows \in [Objectives -> RowType]
  BY <1>3 DEF StartState, StartContributor
<1> HIDE DEF states, rows
<1>5. /\ state' \in [Assessments -> [Objectives -> StateRow]]
      /\ contributor' \in [Assessments -> [Objectives -> RowType]]
      /\ state'[a] = states /\ contributor'[a] = rows
      /\ \A b \in Assessments : b # a => /\ state'[b] = state[b]
                                         /\ contributor'[b] = contributor[b]
  BY <1>1, <1>4 DEF CovRows, TypeOK, StateRow, RowType
<1>6. \A o \in Objectives : RowMoves(a, o)
  BY <1>3, <1>5 DEF RowMoves
<1>7. assessment' = [assessment EXCEPT ![a] =
          [started |-> TRUE,
           score |-> compute_sprs([o \in Objectives |-> state'[a][o].status])]]
  BY <1>2, <1>5
<1> QED
  BY <1>3, <1>5, <1>6, <1>7 DEF EngineMoves, RowsFollow

-----------------------------------------------------------------------------
(* Tasks and links keep their types.                                       *)

\* The objectives of rows a version has are objectives.
LEMMA RowObjectives ==
    ASSUME NEW p \in Products, NEW v \in 0..MaxVersion, NEW S \in SUBSET Claimed(p, v)
    PROVE  UNION {Baseline[p][v][c].objectives : c \in S} \subseteq Objectives
<1>1. \A c \in S : Baseline[p][v][c].objectives \subseteq Objectives
  BY CoversAre DEF BaselineRow
<1> QED
  BY <1>1

\* A fan-out makes tasks of tasks.
LEMMA FanoutTyped ==
    ASSUME NEW tasks \in [Artifacts -> Task], NEW p \in Products, NEW v \in 0..MaxVersion,
           NEW S \in SUBSET Claimed(p, v)
    PROVE  fanout_evidence_tasks(tasks, p, v, S) \in [Artifacts -> Task]
<1> DEFINE For(k) == {c \in S : k \in Baseline[p][v][c].artifacts}
           New(k) == UNION {Baseline[p][v][c].objectives : c \in For(k)}
           after(k) == IF For(k) = {} THEN tasks[k]
                       ELSE IF tasks[k].status = "none"
                            THEN [status |-> "open", archived |-> FALSE,
                                  spec |-> <<p, v>>, objectives |-> New(k)]
                            ELSE [tasks[k] EXCEPT !.objectives = tasks[k].objectives \cup New(k)]
<1>1. ASSUME NEW k \in Artifacts PROVE after(k) \in Task
  <2>1. For(k) \in SUBSET Claimed(p, v)
    OBVIOUS
  <2>2. New(k) \subseteq Objectives
    <3> HIDE DEF For
    <3> QED
      BY <2>1, RowObjectives
  <2> HIDE DEF For, New
  <2>3. tasks[k] \in Task /\ <<p, v>> \in (Products \cup {NoProduct}) \X (0..MaxVersion)
    OBVIOUS
  <2>4. [tasks[k] EXCEPT !.objectives = tasks[k].objectives \cup New(k)] \in Task
    BY <2>2, <2>3 DEF Task
  <2> QED
    BY <2>2, <2>3, <2>4 DEF Task
<1>2. fanout_evidence_tasks(tasks, p, v, S) = [k \in Artifacts |-> after(k)]
  BY DEF fanout_evidence_tasks
<1> HIDE DEF after
<1> QED
  BY <1>1, <1>2

\* Tasks that come back with their product are tasks.
LEMMA RestoredTyped ==
    ASSUME TypeOK, NEW a \in Assessments, NEW p, NEW v
    PROVE  RestoredTasks(a, p, v) \in [Artifacts -> Task]
<1>1. ASSUME NEW k \in Artifacts
      PROVE  [task[a][k] EXCEPT !.archived = FALSE,
                 !.status = IF task[a][k].status = "na" THEN "open" ELSE task[a][k].status] \in Task
  <2>1. task[a][k] \in Task
    BY DEF TypeOK
  <2> QED
    BY <2>1 DEF Task
<1>2. \A k \in Artifacts : task[a][k] \in Task
  BY DEF TypeOK
<1> QED
  BY <1>1, <1>2 DEF RestoredTasks

\* Tasks that leave with it are.
LEMMA ArchivedTyped ==
    ASSUME TypeOK, NEW a \in Assessments, NEW p
    PROVE  ArchivedTasks(a, p) \in [Artifacts -> Task]
<1>1. ASSUME NEW k \in Artifacts
      PROVE  [task[a][k] EXCEPT !.archived = TRUE,
                 !.status = IF task[a][k].status = "open" THEN "na" ELSE task[a][k].status] \in Task
  <2>1. task[a][k] \in Task
    BY DEF TypeOK
  <2> QED
    BY <2>1 DEF Task
<1>2. \A k \in Artifacts : task[a][k] \in Task
  BY DEF TypeOK
<1> QED
  BY <1>1, <1>2 DEF ArchivedTasks

\* Those an assessment starts with are.
LEMMA SeededTyped ==
    ASSUME TypeOK, NEW k \in Artifacts, NEW p \in Active
    PROVE  Seeded(k, p) \in Task
<1>1. \A q \in Active : q \in Products /\ Pin(q) \in 0..MaxVersion
  BY DEF Active, Pin, TypeOK
<1>2. \A r \in Naming(k) : Baseline[r[1]][Pin(r[1])][r[2]].objectives \subseteq Objectives
  <2> TAKE r \in Naming(k)
  <2>1. r[1] \in Active /\ r[2] \in Claimed(r[1], Pin(r[1]))
    BY DEF Naming
  <2>2. Baseline[r[1]][Pin(r[1])][r[2]] \in BaselineRow
    BY <1>1, <2>1, CoversAre
  <2> QED
    BY <2>2 DEF BaselineRow
<1> DEFINE all == UNION {Baseline[r[1]][Pin(r[1])][r[2]].objectives : r \in Naming(k)}
<1>3. all \subseteq Objectives
  BY <1>2
<1>4. <<p, Pin(p)>> \in (Products \cup {NoProduct}) \X (0..MaxVersion)
  BY <1>1
<1>5. Seeded(k, p) = [status |-> "open", archived |-> FALSE, spec |-> <<p, Pin(p)>>,
                      objectives |-> all]
  BY DEF Seeded
<1> HIDE DEF all
<1> QED
  BY <1>3, <1>4, <1>5 DEF Task

\* Links: what there was, or one of the states a link can be in.
LEMMA LinkKinds ==
    /\ NoLink \in Link /\ LiveLink \in Link
    /\ \A p \in Products \cup {NoProduct} : [cause |-> "deactivation", by |-> p] \in Link
    /\ [cause |-> "detached", by |-> NoProduct] \in Link
    /\ LiveLink.cause = "live" /\ LiveLink.by = NoProduct
    /\ NoLink.cause = "unlinked" /\ NoLink.by = NoProduct
BY DEF NoLink, LiveLink, Link

\* No task is a task.
LEMMA NoTaskIsTyped == NoTask \in Task
<1>1. <<NoProduct, 0>> \in (Products \cup {NoProduct}) \X (0..MaxVersion)
  BY BaselineAssumption
<1> QED
  BY <1>1 DEF NoTask, Task

-----------------------------------------------------------------------------
(* The invariant.                                                          *)

\* It holds before the first request.
LEMMA CovInitInv == Init => CovInv /\ ContributorsAreCurrent /\ ArchivedLinksWaitForTheirProduct
<1> SUFFICES ASSUME Init
             PROVE  CovInv /\ ContributorsAreCurrent /\ ArchivedLinksWaitForTheirProduct
  OBVIOUS
<1>1. 0 \in 0..MaxVersion
  BY BaselineAssumption
<1>2. TypeOK
  BY <1>1, LinkKinds, NoTaskIsTyped DEF Init, TypeOK, Seed, Status, Responsibility, SPRS_MAX
<1>3. PinsOK
  BY DEF Init, PinsOK
<1>4. SeedsOK
  BY DEF Init, SeedsOK
<1>5. LinksOK /\ ArchivedLinksWaitForTheirProduct
  BY LinkKinds DEF Init, LinksOK, ArchivedLinksWaitForTheirProduct
<1>6. ResponsibilityIsResolved
  BY DEF Init, ResponsibilityIsResolved, Contributors
<1>7. ScoreIsCurrent /\ ContributorsAreCurrent
  BY DEF Init, ScoreIsCurrent, ContributorsAreCurrent
<1> QED
  BY <1>2, <1>3, <1>4, <1>5, <1>6, <1>7 DEF CovInv, CovRows

\* ResponsibilityIsResolved, row by row.
LEMMA ResolvedIs ==
    /\ ResponsibilityIsResolved <=>
           \A a \in Assessments, o \in Objectives :
               ResolvedAt(state[a][o].responsibility, contributor[a][o], o)
    /\ ResponsibilityIsResolved' <=>
           \A a \in Assessments, o \in Objectives :
               ResolvedAt(state'[a][o].responsibility, contributor'[a][o], o)
<1>1. ASSUME NEW a, NEW o
      PROVE  /\ Classifications(a, o, Products)' = Claims(contributor'[a][o], o, Products)
             /\ Contributors(a, o)' = Who(contributor'[a][o])
  BY DEF Classifications, Claims, Contributors, Who, Classification
<1>2. ResponsibilityIsResolved' <=>
          \A a \in Assessments, o \in Objectives :
              ResolvedAt(state'[a][o].responsibility, contributor'[a][o], o)
  BY <1>1 DEF ResponsibilityIsResolved, ResolvedAt
<1>3. ResponsibilityIsResolved <=>
          \A a \in Assessments, o \in Objectives :
              ResolvedAt(state[a][o].responsibility, contributor[a][o], o)
  BY ClaimsAre DEF ResponsibilityIsResolved, ResolvedAt
<1> QED
  BY <1>2, <1>3

\* Whatever moves the rows of an assessment so, its score and its responsibilities
\* follow from its rows.
LEMMA RowsKeep ==
    ASSUME CovInv, NEW a \in Assessments, RowsFollow(a),
           product' \in [Products -> [published : BOOLEAN, current : 0..MaxVersion]],
           orgProduct' \in [Products -> [status : {"absent", "active", "decommissioned"},
                                         pin : 0..MaxVersion]],
           link' \in [Assessments -> [Objectives -> [Evidence -> Link]]],
           task' \in [Assessments -> [Artifacts -> Task]],
           PinsOK', LinksOK'
    PROVE  CovInv'
<1> DEFINE n == compute_sprs([o \in Objectives |-> state'[a][o].status])
<1>1. n \in Int
  BY CovScoreIsInt
<1>2. /\ assessment' = [assessment EXCEPT ![a] = [started |-> TRUE, score |-> n]]
      /\ assessment \in [Assessments -> [started : BOOLEAN, score : Int]]
  BY DEF RowsFollow, CovInv, CovRows, TypeOK
<1> HIDE DEF n
<1>3. /\ assessment' \in [Assessments -> [started : BOOLEAN, score : Int]]
      /\ assessment'[a].started /\ assessment'[a].score = n
      /\ \A b \in Assessments : b # a => assessment'[b] = assessment[b]
  BY <1>1, <1>2
<1>4. TypeOK'
  BY <1>3 DEF RowsFollow, TypeOK, StateRow, RowType
<1>0. \A b \in Assessments : b # a => state'[b] = state[b] /\ contributor'[b] = contributor[b]
  BY DEF RowsFollow
<1>5. SeedsOK'
  <2>1. ASSUME NEW b \in Assessments, ~ assessment'[b].started, NEW o \in Objectives
        PROVE  state'[b][o] = Seed /\ \A p \in Products : contributor'[b][o][p] = 0
    <3>1. b # a
      BY <1>3, <2>1
    <3>2. ~ assessment[b].started
      BY <1>3, <2>1, <3>1
    <3>3. state[b][o] = Seed /\ \A p \in Products : contributor[b][o][p] = 0
      BY <2>1, <3>2 DEF SeedsOK, CovInv, CovRows
    <3> QED
      BY <1>0, <3>1, <3>3
  <2> QED
    BY <2>1 DEF SeedsOK, Seed
<1>6. ScoreIsCurrent'
  <2>1. ASSUME NEW b \in Assessments, assessment'[b].started
        PROVE  assessment'[b].score = compute_sprs([o \in Objectives |-> state'[b][o].status])
    <3>1. CASE b = a
      BY <1>3, <3>1 DEF n
    <3>2. CASE b # a
      <4>1. assessment[b].score = compute_sprs([o \in Objectives |-> state[b][o].status])
        BY <1>3, <2>1, <3>2 DEF CovInv, ScoreIsCurrent
      <4> QED
        BY <1>0, <1>3, <3>2, <4>1
    <3> QED
      BY <3>1, <3>2
  <2> QED
    BY <2>1 DEF ScoreIsCurrent
<1>7. ResponsibilityIsResolved'
  <2>1. ASSUME NEW b \in Assessments, NEW o \in Objectives
        PROVE  ResolvedAt(state'[b][o].responsibility, contributor'[b][o], o)
    <3>1. ResolvedAt(state[b][o].responsibility, contributor[b][o], o)
      BY ResolvedIs DEF CovInv
    <3>2. CASE b # a
      BY <3>1, <3>2 DEF RowsFollow
    <3>3. CASE b = a
      <4>1. RowMoves(a, o)
        BY DEF RowsFollow
      <4> QED
        BY <3>1, <3>3, <4>1 DEF RowMoves
    <3> QED
      BY <3>2, <3>3
  <2> QED
    BY <2>1, ResolvedIs
<1> QED
  BY <1>4, <1>5, <1>6, <1>7 DEF CovInv, CovRows

\* The types of what the engine's moves leave to the handlers.
LEMMA Parts ==
    ASSUME CovInv
    PROVE  /\ product \in [Products -> [published : BOOLEAN, current : 0..MaxVersion]]
           /\ orgProduct \in [Products -> [status : {"absent", "active", "decommissioned"},
                                           pin : 0..MaxVersion]]
           /\ link \in [Assessments -> [Objectives -> [Evidence -> Link]]]
           /\ task \in [Assessments -> [Artifacts -> Task]]
           /\ contributor \in [Assessments -> [Objectives -> RowType]]
           /\ PinsOK /\ LinksOK
BY DEF CovInv, CovRows, TypeOK, RowType

\* The start of an assessment keeps the invariant.
LEMMA StartKeeps ==
    ASSUME CovInv, NEW a \in Assessments, start_assessment(a)
    PROVE  CovInv'
<1>1. RowsFollow(a)
  BY StartMoves DEF CovInv, EngineMoves
<1>3. \A tasks \in SeededTasks : tasks \in [Artifacts -> Task]
  <2> DEFINE seed == {NoTask} \cup {Seeded(k, p) : k \in Artifacts, p \in Active}
  <2>1. \A t \in seed : t \in Task
    BY NoTaskIsTyped, SeededTyped DEF CovInv, CovRows
  <2>2. \A tasks \in SeededTasks : tasks \in [Artifacts -> seed]
    BY DEF SeededTasks
  <2> HIDE DEF seed
  <2> QED
    BY <2>1, <2>2
<1>4. PICK tasks \in SeededTasks : task' = [task EXCEPT ![a] = tasks]
  BY DEF start_assessment
<1>5. task' \in [Assessments -> [Artifacts -> Task]]
  BY <1>3, <1>4, Parts
<1>6. UNCHANGED <<product, orgProduct, link>>
  BY DEF start_assessment
<1>7. PinsOK' /\ LinksOK'
  BY <1>6, Parts DEF PinsOK, LinksOK
<1>8. /\ product' \in [Products -> [published : BOOLEAN, current : 0..MaxVersion]]
      /\ orgProduct' \in [Products -> [status : {"absent", "active", "decommissioned"},
                                       pin : 0..MaxVersion]]
      /\ link' \in [Assessments -> [Objectives -> [Evidence -> Link]]]
  BY <1>6, Parts
<1> QED
  BY <1>1, <1>5, <1>7, <1>8, RowsKeep

\* What activation pins, and the links it brings back.
LEMMA ActivateIs ==
    ASSUME CovInv, NEW a \in Assessments, NEW p \in Products, NEW keep,
           activate_org_product(a, p, keep)
    PROVE  \E v \in 1..MaxVersion :
               /\ v <= product[p].current /\ UNCHANGED product
               /\ orgProduct[p].pin # 0 => v = orgProduct[p].pin
               /\ orgProduct' = [orgProduct EXCEPT ![p] = [status |-> "active", pin |-> v]]
               /\ contributor' = [contributor EXCEPT ![a] = LoopContributor(a, p, v)]
               /\ task' = [task EXCEPT ![a] = LoopTask(RestoredTasks(a, p, v), p, v)]
               /\ link' = [link EXCEPT ![a] = [o \in Objectives |-> [e \in Evidence |->
                      IF <<o, e>> \in RestorableLinks(a, p) THEN LiveLink ELSE link[a][o][e]]]]
               /\ \A o \in Objectives :
                      /\ o \notin Joins(a, p, v) =>
                             state'[a][o].status \in
                                 {state[a][o].status}
                                     \cup IF state[a][o].status = "pending_evidence"
                                          THEN {"needs_review"} ELSE {}
                      /\ o \in Joins(a, p, v) /\ Contributors(a, o) # {} =>
                             state'[a][o].status \in
                                 {state[a][o].status}
                                     \cup IF state[a][o].status = "pending_evidence"
                                          THEN {"needs_review"} ELSE {}
                      /\ state[a][o].status \in JUDGED_STATUSES =>
                             state'[a][o].status \in {state[a][o].status, "needs_review"}
<1> DEFINE v == IF orgProduct[p].pin = 0 THEN product[p].current ELSE orgProduct[p].pin
           looped == LoopState(a, p, v, keep)
           regained(o) == \E e \in Evidence : <<o, e>> \in RestorableLinks(a, p)
           states == [o \in Objectives |->
                         IF looped[o].status = "pending_evidence" /\ regained(o)
                         THEN [looped[o] EXCEPT !.status = "needs_review"] ELSE looped[o]]
<1>1. /\ state' = [state EXCEPT ![a] = states] /\ UNCHANGED product
      /\ contributor' = [contributor EXCEPT ![a] = LoopContributor(a, p, v)]
      /\ orgProduct' = [orgProduct EXCEPT ![p] = [status |-> "active", pin |-> v]]
      /\ task' = [task EXCEPT ![a] = LoopTask(RestoredTasks(a, p, v), p, v)]
      /\ link' = [link EXCEPT ![a] = [o \in Objectives |-> [e \in Evidence |->
             IF <<o, e>> \in RestorableLinks(a, p) THEN LiveLink ELSE link[a][o][e]]]]
      /\ orgProduct[p].pin = 0 => product[p].current # 0
  BY DEF activate_org_product
<1>2. v \in 1..MaxVersion /\ v <= product[p].current
  BY <1>1, BaselineAssumption, Parts DEF PinsOK
<1>3. state'[a] = states
  BY <1>1 DEF CovInv, CovRows, TypeOK
<1>4. ASSUME NEW o \in Objectives
      PROVE  /\ \/ states[o].status = looped[o].status
                \/ looped[o].status = "pending_evidence" /\ states[o].status = "needs_review"
             /\ o \notin Joins(a, p, v) => looped[o].status = state[a][o].status
             /\ o \in Joins(a, p, v) => looped[o].status = contributor_added_status(
                    state[a][o].status, Contributors(a, o) = {}, o \in keep)
  <2>1. looped[o].status = "pending_evidence" =>
            [looped[o] EXCEPT !.status = "needs_review"].status = "needs_review"
    <3>1. looped[o] \in [status : {looped[o].status}, responsibility : {looped[o].responsibility}]
      <4>1. CASE o \in Joins(a, p, v)
        BY <4>1 DEF LoopState
      <4>2. CASE o \notin Joins(a, p, v)
        <5>1. looped[o] = state[a][o]
          BY <4>2 DEF LoopState
        <5>2. state[a][o] \in [status : Status, responsibility : Responsibility]
          BY DEF CovInv, CovRows, TypeOK
        <5> HIDE DEF looped
        <5> QED
          BY <5>1, <5>2
      <4> QED
        BY <4>1, <4>2
    <3> HIDE DEF looped
    <3> QED
      BY <3>1
  <2>2. \/ states[o].status = looped[o].status
        \/ looped[o].status = "pending_evidence" /\ states[o].status = "needs_review"
    <3> HIDE DEF looped, regained
    <3> QED
      BY <2>1
  <2>3. o \notin Joins(a, p, v) => looped[o].status = state[a][o].status
    BY DEF LoopState
  <2>4. o \in Joins(a, p, v) => looped[o].status = contributor_added_status(
            state[a][o].status, Contributors(a, o) = {}, o \in keep)
    BY DEF LoopState
  <2> QED
    BY <2>2, <2>3, <2>4
<1> HIDE DEF v, looped, states, regained
<1>5. ASSUME NEW o \in Objectives
      PROVE  /\ (o \notin Joins(a, p, v) \/ Contributors(a, o) # {}) =>
                    state'[a][o].status \in
                        {state[a][o].status}
                            \cup IF state[a][o].status = "pending_evidence"
                                 THEN {"needs_review"} ELSE {}
             /\ state[a][o].status \in JUDGED_STATUSES =>
                    state'[a][o].status \in {state[a][o].status, "needs_review"}
  BY <1>3, <1>4
     DEF contributor_added_status, is_judgement_in_question, JUDGED_STATUSES
<1> QED
  BY <1>1, <1>2, <1>5 DEF v

\* An evidence loop's fan-out makes tasks of tasks.
LEMMA LoopTaskTyped ==
    ASSUME NEW tasks \in [Artifacts -> Task], NEW p \in Products, NEW v \in 1..MaxVersion
    PROVE  LoopTask(tasks, p, v) \in [Artifacts -> Task]
<1>1. v \in 0..MaxVersion /\ Claimed(p, v) \in SUBSET Claimed(p, v)
  BY BaselineAssumption
<1>2. fanout_evidence_tasks(tasks, p, v, Claimed(p, v)) \in [Artifacts -> Task]
  BY <1>1, FanoutTyped
<1> QED
  BY <1>2 DEF LoopTask

\* An activation keeps the invariant.
LEMMA ActivateKeeps ==
    ASSUME CovInv, NEW a \in Assessments, NEW p \in Products, NEW keep,
           activate_org_product(a, p, keep)
    PROVE  CovInv'
<1>1. RowsFollow(a)
  BY ActivateMoves DEF CovInv, EngineMoves
<1>2. PICK v \in 1..MaxVersion :
          /\ v <= product[p].current /\ UNCHANGED product
          /\ orgProduct' = [orgProduct EXCEPT ![p] = [status |-> "active", pin |-> v]]
          /\ task' = [task EXCEPT ![a] = LoopTask(RestoredTasks(a, p, v), p, v)]
          /\ link' = [link EXCEPT ![a] = [o \in Objectives |-> [e \in Evidence |->
                 IF <<o, e>> \in RestorableLinks(a, p) THEN LiveLink ELSE link[a][o][e]]]]
  BY ActivateIs
<1>3. v \in 0..MaxVersion /\ v # 0
  BY BaselineAssumption
<1>4. /\ orgProduct' \in [Products -> [status : {"absent", "active", "decommissioned"},
                                       pin : 0..MaxVersion]]
      /\ orgProduct'[p].status = "active" /\ orgProduct'[p].pin = v
      /\ \A q \in Products : q # p => orgProduct'[q] = orgProduct[q]
  BY <1>2, <1>3, Parts
<1>5. task' \in [Assessments -> [Artifacts -> Task]]
  <2>1. RestoredTasks(a, p, v) \in [Artifacts -> Task]
    BY RestoredTyped DEF CovInv, CovRows
  <2>2. LoopTask(RestoredTasks(a, p, v), p, v) \in [Artifacts -> Task]
    BY <2>1, LoopTaskTyped
  <2> QED
    BY <1>2, <2>2, Parts
<1>6. /\ link' \in [Assessments -> [Objectives -> [Evidence -> Link]]]
      /\ \A b \in Assessments, o \in Objectives, e \in Evidence :
             link'[b][o][e] = link[b][o][e] \/ link'[b][o][e] = LiveLink
  <2> DEFINE links == [o \in Objectives |-> [e \in Evidence |->
                  IF <<o, e>> \in RestorableLinks(a, p) THEN LiveLink ELSE link[a][o][e]]]
  <2>1. links \in [Objectives -> [Evidence -> Link]]
    BY LinkKinds, Parts
  <2>2. \A o \in Objectives, e \in Evidence :
            links[o][e] = link[a][o][e] \/ links[o][e] = LiveLink
    OBVIOUS
  <2>3. link' = [link EXCEPT ![a] = links]
    BY <1>2
  <2> HIDE DEF links
  <2> QED
    BY <2>1, <2>2, <2>3, Parts
<1>7. PinsOK'
  BY <1>2, <1>3, <1>4, Parts DEF PinsOK
<1>8. LinksOK'
  <2>1. ASSUME NEW b \in Assessments, NEW o \in Objectives, NEW e \in Evidence,
               link'[b][o][e].cause \in {"live", "detached"}
        PROVE  link'[b][o][e].by = NoProduct
    <3>1. CASE link'[b][o][e] = LiveLink
      BY <3>1, LinkKinds
    <3>2. CASE link'[b][o][e] = link[b][o][e]
      <4>1. LinksOK
        BY Parts
      <4> QED
        BY <2>1, <3>2, <4>1 DEF LinksOK
    <3> QED
      BY <1>6, <3>1, <3>2
  <2> QED
    BY <2>1 DEF LinksOK, Evidence
<1>9. product' \in [Products -> [published : BOOLEAN, current : 0..MaxVersion]]
  BY <1>2, Parts
<1> QED
  BY <1>1, <1>4, <1>5, <1>6, <1>7, <1>8, <1>9, RowsKeep

\* What a deactivation does beside the states and the rows.
LEMMA DeactivateIs ==
    ASSUME CovInv, NEW a \in Assessments, NEW p \in Products, deactivate_org_product(a, p)
    PROVE  /\ UNCHANGED product /\ orgProduct[p].status = "active"
           /\ orgProduct' \in [Products -> [status : {"absent", "active", "decommissioned"},
                                            pin : 0..MaxVersion]]
           /\ orgProduct'[p].status = "decommissioned" /\ orgProduct'[p].pin = orgProduct[p].pin
           /\ \A q \in Products : q # p => orgProduct'[q] = orgProduct[q]
           /\ link' \in [Assessments -> [Objectives -> [Evidence -> Link]]]
           /\ \A b \in Assessments, o \in Objectives, e \in Evidence :
                  \/ link'[b][o][e] = link[b][o][e]
                  \/ link'[b][o][e] = [cause |-> "deactivation", by |-> p]
           /\ task' \in [Assessments -> [Artifacts -> Task]]
           /\ contributor' = [contributor EXCEPT ![a] =
                  [o \in Objectives |-> [contributor[a][o] EXCEPT ![p] = 0]]]
<1> DEFINE gone == [orgProduct[p] EXCEPT !.status = "decommissioned"]
<1>1. /\ UNCHANGED product /\ orgProduct[p].status = "active"
      /\ orgProduct' = [orgProduct EXCEPT ![p] = gone]
      /\ link' = [link EXCEPT ![a] = ArchivedLinks(a, p)]
      /\ task' = [task EXCEPT ![a] = ArchivedTasks(a, p)]
      /\ contributor' = [contributor EXCEPT ![a] =
             [o \in Objectives |-> [contributor[a][o] EXCEPT ![p] = 0]]]
  BY DEF deactivate_org_product
<1>2. /\ gone \in [status : {"absent", "active", "decommissioned"}, pin : 0..MaxVersion]
      /\ gone.status = "decommissioned" /\ gone.pin = orgProduct[p].pin
  BY Parts
<1> HIDE DEF gone
<1>3. ArchivedLinks(a, p) \in [Objectives -> [Evidence -> Link]]
  BY LinkKinds, Parts DEF ArchivedLinks
<1>4. \A o \in Objectives, e \in Evidence :
          \/ ArchivedLinks(a, p)[o][e] = link[a][o][e]
          \/ ArchivedLinks(a, p)[o][e] = [cause |-> "deactivation", by |-> p]
  BY DEF ArchivedLinks
<1>5. ArchivedTasks(a, p) \in [Artifacts -> Task]
  BY ArchivedTyped DEF CovInv, CovRows
<1>6. /\ orgProduct' \in [Products -> [status : {"absent", "active", "decommissioned"},
                                       pin : 0..MaxVersion]]
      /\ orgProduct'[p] = gone /\ \A q \in Products : q # p => orgProduct'[q] = orgProduct[q]
  BY <1>1, <1>2, Parts
<1>7. /\ link' \in [Assessments -> [Objectives -> [Evidence -> Link]]]
      /\ link'[a] = ArchivedLinks(a, p)
      /\ \A b \in Assessments : b # a => link'[b] = link[b]
  BY <1>1, <1>3, Parts
<1>8. task' \in [Assessments -> [Artifacts -> Task]]
  BY <1>1, <1>5, Parts
<1> QED
  BY <1>1, <1>2, <1>4, <1>6, <1>7, <1>8

\* A deactivation asks for a person where its product contributed.
LEMMA DeactivateAsks ==
    ASSUME CovInv, NEW a \in Assessments, NEW p \in Products, deactivate_org_product(a, p),
           NEW o \in Objectives
    PROVE  /\ contributor'[a][o][p] = 0
           /\ \/ state'[a][o] = state[a][o]
              \/ contributor[a][o][p] # 0 /\ state'[a][o].status = "needs_review"
<1> DEFINE states == [x \in Objectives |->
                         IF x \in Sourced(a, p) THEN LostState(a, x, p) ELSE state[a][x]]
<1>1. state' = [state EXCEPT ![a] = states]
  BY DEF deactivate_org_product
<1>2. state'[a][o] = states[o]
  BY <1>1 DEF CovInv, CovRows, TypeOK
<1>3. \/ states[o] = state[a][o]
      \/ contributor[a][o][p] # 0 /\ states[o].status = "needs_review"
  <2>1. o \in Sourced(a, p) => contributor[a][o][p] # 0
    BY DEF Sourced
  <2>2. LostState(a, o, p).status = "needs_review"
    BY DEF LostState
  <2>3. states[o] = IF o \in Sourced(a, p) THEN LostState(a, o, p) ELSE state[a][o]
    OBVIOUS
  <2> HIDE DEF states
  <2>4. CASE o \in Sourced(a, p)
    BY <2>1, <2>2, <2>3, <2>4
  <2>5. CASE o \notin Sourced(a, p)
    BY <2>3, <2>5
  <2> QED
    BY <2>4, <2>5
<1>4. contributor'[a][o][p] = 0
  <2>1. contributor \in [Assessments -> [Objectives -> RowType]]
    BY Parts
  <2> QED
    BY <2>1 DEF deactivate_org_product, RowType
<1> HIDE DEF states
<1> QED
  BY <1>2, <1>3, <1>4

\* A deactivation keeps the invariant.
LEMMA DeactivateKeeps ==
    ASSUME CovInv, NEW a \in Assessments, NEW p \in Products, deactivate_org_product(a, p)
    PROVE  CovInv'
<1>1. RowsFollow(a)
  BY DeactivateMoves DEF CovInv, EngineMoves
<1>0. /\ UNCHANGED product /\ orgProduct[p].status = "active"
      /\ orgProduct' \in [Products -> [status : {"absent", "active", "decommissioned"},
                                       pin : 0..MaxVersion]]
      /\ orgProduct'[p].status = "decommissioned" /\ orgProduct'[p].pin = orgProduct[p].pin
      /\ \A q \in Products : q # p => orgProduct'[q] = orgProduct[q]
      /\ link' \in [Assessments -> [Objectives -> [Evidence -> Link]]]
      /\ \A b \in Assessments, o \in Objectives, e \in Evidence :
             \/ link'[b][o][e] = link[b][o][e]
             \/ link'[b][o][e] = [cause |-> "deactivation", by |-> p]
      /\ task' \in [Assessments -> [Artifacts -> Task]]
  BY DeactivateIs
<1>2. PinsOK'
  <2>1. orgProduct[p].pin # 0
    BY <1>0, Parts DEF PinsOK
  <2> QED
    BY <1>0, <2>1, Parts DEF PinsOK
<1>3. LinksOK'
  <2>1. ASSUME NEW b \in Assessments, NEW o \in Objectives, NEW e \in Evidence,
               link'[b][o][e].cause \in {"live", "detached"}
        PROVE  link'[b][o][e].by = NoProduct
    <3>1. link'[b][o][e] = link[b][o][e]
      BY <1>0, <2>1
    <3>2. LinksOK
      BY Parts
    <3> QED
      BY <2>1, <3>1, <3>2 DEF LinksOK
  <2> QED
    BY <2>1 DEF LinksOK, Evidence
<1>4. product' \in [Products -> [published : BOOLEAN, current : 0..MaxVersion]]
  BY <1>0, Parts
<1> QED
  BY <1>0, <1>1, <1>2, <1>3, <1>4, RowsKeep

\* The controls of objectives a version covers are rows it claims.
LEMMA ControlsAreClaimed ==
    ASSUME NEW p \in Products, NEW v \in Versions, NEW S \in SUBSET Covers(p, v)
    PROVE  {ControlOf[o] : o \in S} \in SUBSET Claimed(p, v)
<1>1. ASSUME NEW o \in S PROVE ControlOf[o] \in Claimed(p, v)
  <2>1. PICK c \in Claimed(p, v) : o \in Baseline[p][v][c].objectives
    BY DEF Covers
  <2>2. c \in DOMAIN Baseline[p][v]
    BY DEF Claimed
  <2>3. ControlOf[o] = c
    BY <2>1, <2>2, BaselineAssumption
  <2> QED
    BY <2>3
<1> QED
  BY <1>1

\* A version move keeps the invariant.
LEMMA MoveKeeps ==
    ASSUME CovInv, NEW a \in Assessments, NEW p \in Products, NEW v \in Versions,
           move_org_product_version(a, p, v)
    PROVE  CovInv'
<1> DEFINE touched == Gained(a, p, v) \cup Reclassified(a, p, v)
           controls == {ControlOf[o] : o \in touched}
           moved == [orgProduct[p] EXCEPT !.pin = v]
<1>1. RowsFollow(a)
  BY VersionMoves DEF CovInv, EngineMoves
<1>2. /\ orgProduct[p].status = "active" /\ v \in 1..product[p].current
      /\ orgProduct' = [orgProduct EXCEPT ![p] = moved]
      /\ task' = [task EXCEPT ![a] = fanout_evidence_tasks(task[a], p, v, controls)]
      /\ UNCHANGED <<product, link>>
  BY DEF move_org_product_version
<1>3. v \in 1..MaxVersion /\ v \in 0..MaxVersion /\ v # 0 /\ v <= product[p].current
  BY <1>2, BaselineAssumption DEF Versions
<1>4. /\ moved \in [status : {"absent", "active", "decommissioned"}, pin : 0..MaxVersion]
      /\ moved.status = "active" /\ moved.pin = v
  BY <1>2, <1>3, Parts
<1>5. controls \in SUBSET Claimed(p, v)
  <2>1. touched \in SUBSET Covers(p, v)
    BY DEF Gained, Reclassified
  <2> HIDE DEF touched
  <2> QED
    BY <2>1, ControlsAreClaimed
<1>6. fanout_evidence_tasks(task[a], p, v, controls) \in [Artifacts -> Task]
  <2>1. task[a] \in [Artifacts -> Task]
    BY Parts
  <2> HIDE DEF controls
  <2> QED
    BY <1>3, <1>5, <2>1, FanoutTyped
<1> HIDE DEF moved, controls
<1>7. /\ orgProduct' \in [Products -> [status : {"absent", "active", "decommissioned"},
                                       pin : 0..MaxVersion]]
      /\ orgProduct'[p] = moved /\ \A q \in Products : q # p => orgProduct'[q] = orgProduct[q]
  BY <1>2, <1>4, Parts
<1>8. task' \in [Assessments -> [Artifacts -> Task]]
  BY <1>2, <1>6, Parts
<1>9. PinsOK'
  BY <1>2, <1>3, <1>4, <1>7, Parts DEF PinsOK
<1>10. LinksOK'
  <2>1. LinksOK
    BY Parts
  <2> QED
    BY <1>2, <2>1 DEF LinksOK
<1>11. /\ product' \in [Products -> [published : BOOLEAN, current : 0..MaxVersion]]
       /\ link' \in [Assessments -> [Objectives -> [Evidence -> Link]]]
  BY <1>2, Parts
<1> QED
  BY <1>1, <1>7, <1>8, <1>9, <1>10, <1>11, RowsKeep

\* A status a person sets moves no row.
LEMMA PatchFollows ==
    ASSUME CovInv, NEW a \in Assessments, NEW o \in Objectives, NEW s \in Status,
           patch_control_state(a, o, s)
    PROVE  RowsFollow(a) /\ UNCHANGED <<product, orgProduct, contributor, link, task>>
<1> DEFINE judged == [state[a][o] EXCEPT !.status = s]
           states == [state[a] EXCEPT ![o] = judged]
<1>1. /\ assessment[a].started /\ state' = [state EXCEPT ![a] = states]
      /\ recompute_sprs(a, states)
      /\ UNCHANGED <<product, orgProduct, contributor, link, task>>
  BY DEF patch_control_state
<1>2. state \in [Assessments -> [Objectives -> StateRow]]
  BY DEF CovInv, CovRows, TypeOK, StateRow
<1>3. judged \in StateRow /\ judged.responsibility = state[a][o].responsibility
  BY <1>2 DEF StateRow
<1>4. assessment' = [assessment EXCEPT ![a] =
          [started |-> TRUE,
           score |-> compute_sprs([x \in Objectives |-> state'[a][x].status])]]
  <2> HIDE DEF states
  <2> QED
    BY <1>1, RecomputeIs DEF CovInv, CovRows
<1> HIDE DEF judged
<1>5. /\ states \in [Objectives -> StateRow]
      /\ \A x \in Objectives : states[x].responsibility = state[a][x].responsibility
  BY <1>2, <1>3
<1> HIDE DEF states
<1>6. /\ state' \in [Assessments -> [Objectives -> StateRow]]
      /\ state'[a] = states
      /\ \A b \in Assessments : b # a => state'[b] = state[b]
  BY <1>1, <1>2, <1>5
<1>7. \A x \in Objectives : RowMoves(a, x)
  BY <1>1, <1>5, <1>6 DEF RowMoves
<1>8. contributor' \in [Assessments -> [Objectives -> RowType]]
  BY <1>1, Parts
<1> QED
  BY <1>1, <1>4, <1>6, <1>7, <1>8 DEF RowsFollow

\* Rows that nothing moved keep the invariant, whatever happens to evidence.
LEMMA EvidenceKeeps ==
    ASSUME CovInv, UNCHANGED <<assessment, state, contributor>>,
           product' \in [Products -> [published : BOOLEAN, current : 0..MaxVersion]],
           orgProduct' \in [Products -> [status : {"absent", "active", "decommissioned"},
                                         pin : 0..MaxVersion]],
           link' \in [Assessments -> [Objectives -> [Evidence -> Link]]],
           task' \in [Assessments -> [Artifacts -> Task]],
           PinsOK', LinksOK'
    PROVE  CovInv'
<1>1. TypeOK'
  BY DEF CovInv, CovRows, TypeOK
<1>2. SeedsOK'
  BY DEF CovInv, CovRows, SeedsOK
<1>3. ResponsibilityIsResolved'
  BY ResolvedIs DEF CovInv
<1>4. ScoreIsCurrent'
  BY DEF CovInv, ScoreIsCurrent
<1> QED
  BY <1>1, <1>2, <1>3, <1>4 DEF CovInv, CovRows

\* The person's actions keep the types of links and tasks, and LinksOK; a link
\* that changes no longer names a product.
LEMMA PersonMoves ==
    ASSUME CovInv, NEW a \in Assessments,
           \/ \E o \in Objectives :
                 \/ \E e \in Uploads : upload_evidence(a, o, e)
                 \/ \E e \in Records : link_record(a, o, e)
                 \/ \E e \in Evidence : detach_evidence(a, o, e)
           \/ \E k \in Artifacts :
                 \/ \E s \in {"open", "collected", "na"} : patch_evidence_task(a, k, s)
                 \/ \E e \in Uploads : collect_task_evidence(a, k, e)
    PROVE  /\ UNCHANGED <<product, orgProduct, assessment, state, contributor>>
           /\ link' \in [Assessments -> [Objectives -> [Evidence -> Link]]]
           /\ task' \in [Assessments -> [Artifacts -> Task]]
           /\ \A b \in Assessments, o \in Objectives, e \in Evidence :
                  \/ link'[b][o][e] = link[b][o][e]
                  \/ link'[b][o][e] = LiveLink
                  \/ link'[b][o][e] = [cause |-> "detached", by |-> NoProduct]
<1>2. ASSUME NEW k \in Artifacts, NEW s \in {"open", "collected", "na"},
             task' = [task EXCEPT ![a][k].status = s]
      PROVE  task' \in [Assessments -> [Artifacts -> Task]]
  <2> DEFINE done == [task[a][k] EXCEPT !.status = s]
  <2>1. task' = [task EXCEPT ![a] = [task[a] EXCEPT ![k] = done]]
    BY <1>2
  <2>2. done \in Task
    <3>1. task[a][k] \in Task
      BY Parts
    <3> QED
      BY <3>1 DEF Task
  <2> HIDE DEF done
  <2> QED
    BY <2>1, <2>2, Parts
<1>3. ASSUME NEW o \in Objectives,
             \/ \E e \in Uploads : upload_evidence(a, o, e)
             \/ \E e \in Records : link_record(a, o, e)
             \/ \E e \in Evidence : detach_evidence(a, o, e)
      PROVE  /\ UNCHANGED <<product, orgProduct, assessment, state, contributor, task>>
             /\ \E e \in Evidence, new \in {LiveLink, [cause |-> "detached", by |-> NoProduct]} :
                    link' = [link EXCEPT ![a][o][e] = new]
  BY <1>3 DEF upload_evidence, link_record, detach_evidence, Evidence
<1>4. CASE \E o \in Objectives :
              \/ \E e \in Uploads : upload_evidence(a, o, e)
              \/ \E e \in Records : link_record(a, o, e)
              \/ \E e \in Evidence : detach_evidence(a, o, e)
  <2>1. PICK o \in Objectives, e \in Evidence,
             new \in {LiveLink, [cause |-> "detached", by |-> NoProduct]} :
            /\ UNCHANGED <<product, orgProduct, assessment, state, contributor, task>>
            /\ link' = [link EXCEPT ![a][o][e] = new]
    BY <1>3, <1>4
  <2>2. new \in Link
    BY LinkKinds
  <2>3. /\ link' \in [Assessments -> [Objectives -> [Evidence -> Link]]]
        /\ \A b \in Assessments, x \in Objectives, y \in Evidence :
               link'[b][x][y] = link[b][x][y] \/ link'[b][x][y] = new
    <3> DEFINE row == [link[a][o] EXCEPT ![e] = new]
               rows == [link[a] EXCEPT ![o] = row]
    <3>1. link' = [link EXCEPT ![a] = rows]
      BY <2>1
    <3>2. /\ row \in [Evidence -> Link]
          /\ \A y \in Evidence : row[y] = link[a][o][y] \/ row[y] = new
      BY <2>2, Parts
    <3> HIDE DEF row
    <3>3. /\ rows \in [Objectives -> [Evidence -> Link]]
          /\ \A x \in Objectives, y \in Evidence :
                 rows[x][y] = link[a][x][y] \/ rows[x][y] = new
      BY <3>2, Parts
    <3> HIDE DEF rows
    <3> QED
      BY <3>1, <3>3, Parts
  <2> QED
    BY <2>1, <2>3, Parts
<1>5. CASE \E k \in Artifacts, s \in {"open", "collected", "na"} : patch_evidence_task(a, k, s)
  BY <1>2, <1>5, Parts DEF patch_evidence_task
<1>6. ASSUME NEW k \in Artifacts, NEW e \in Uploads, collect_task_evidence(a, k, e)
      PROVE  /\ UNCHANGED <<product, orgProduct, assessment, state, contributor>>
             /\ link' \in [Assessments -> [Objectives -> [Evidence -> Link]]]
             /\ task' \in [Assessments -> [Artifacts -> Task]]
             /\ \A b \in Assessments, x \in Objectives, y \in Evidence :
                    link'[b][x][y] = link[b][x][y] \/ link'[b][x][y] = LiveLink
  <2> DEFINE rows == [o \in Objectives |-> [link[a][o] EXCEPT ![e] =
                  IF o \in task[a][k].objectives THEN LiveLink ELSE link[a][o][e]]]
  <2>1. /\ UNCHANGED <<product, orgProduct, assessment, state, contributor>>
        /\ link' = [link EXCEPT ![a] = rows]
        /\ task' = [task EXCEPT ![a][k].status = "collected"]
    BY <1>6 DEF collect_task_evidence
  <2>2. /\ rows \in [Objectives -> [Evidence -> Link]]
        /\ \A x \in Objectives, y \in Evidence :
               rows[x][y] = link[a][x][y] \/ rows[x][y] = LiveLink
    <3>1. ASSUME NEW o \in Objectives, NEW n \in Link
          PROVE  [link[a][o] EXCEPT ![e] = n] \in [Evidence -> Link]
      BY Parts
    <3>2. ASSUME NEW o \in Objectives, NEW y \in Evidence
          PROVE  rows[o][y] = link[a][o][y] \/ rows[o][y] = LiveLink
      BY Parts
    <3>3. \A o \in Objectives :
              (IF o \in task[a][k].objectives THEN LiveLink ELSE link[a][o][e]) \in Link
      BY LinkKinds, Parts DEF Evidence
    <3> QED
      BY <3>1, <3>2, <3>3
  <2> HIDE DEF rows
  <2> QED
    BY <1>2, <2>1, <2>2, Parts
<1> QED
  BY <1>4, <1>5, <1>6

\* The library's steps move a product's versions up, and nothing else.
LEMMA LibraryMoves ==
    ASSUME CovInv, LibraryStep
    PROVE  /\ UNCHANGED <<orgProduct, assessment, state, contributor, link, task>>
           /\ product' \in [Products -> [published : BOOLEAN, current : 0..MaxVersion]]
           /\ \A p \in Products : product[p].current <= product'[p].current
<1>1. PICK p \in Products :
          \/ \E reset \in BOOLEAN : ImportBaseline(p, reset)
          \/ publish_product(p)
          \/ unpublish_product(p)
  BY DEF LibraryStep
<1>2. ASSUME NEW new \in [published : BOOLEAN, current : 0..MaxVersion],
             product[p].current <= new.current, product' = [product EXCEPT ![p] = new]
      PROVE  /\ product' \in [Products -> [published : BOOLEAN, current : 0..MaxVersion]]
             /\ \A q \in Products : product[q].current <= product'[q].current
  BY <1>2, BaselineAssumption, Parts
<1>3. ASSUME NEW b \in BOOLEAN, product' = [product EXCEPT ![p].published = b]
      PROVE  /\ product' \in [Products -> [published : BOOLEAN, current : 0..MaxVersion]]
             /\ \A q \in Products : product[q].current <= product'[q].current
  <2> DEFINE new == [product[p] EXCEPT !.published = b]
  <2>1. product' = [product EXCEPT ![p] = new]
    BY <1>3
  <2>2. new \in [published : BOOLEAN, current : 0..MaxVersion] /\ product[p].current <= new.current
    BY BaselineAssumption, Parts
  <2> HIDE DEF new
  <2> QED
    BY <1>2, <2>1, <2>2
<1>4. CASE \E reset \in BOOLEAN : ImportBaseline(p, reset)
  <2>1. PICK reset \in BOOLEAN : ImportBaseline(p, reset)
    BY <1>4
  <2> DEFINE was == product[p].published /\ ~(reset /\ product[p].current # 0)
             new == [current |-> product[p].current + 1, published |-> was]
  <2>2. /\ product[p].current < MaxVersion /\ product' = [product EXCEPT ![p] = new]
        /\ UNCHANGED <<orgProduct, assessment, state, contributor, link, task>>
    BY <2>1 DEF ImportBaseline
  <2>3. was \in BOOLEAN
    OBVIOUS
  <2> HIDE DEF was
  <2>4. new \in [published : BOOLEAN, current : 0..MaxVersion] /\ product[p].current <= new.current
    BY <2>2, <2>3, BaselineAssumption, Parts
  <2> HIDE DEF new
  <2> QED
    BY <1>2, <2>2, <2>4
<1>5. CASE publish_product(p) \/ unpublish_product(p)
  BY <1>3, <1>5 DEF publish_product, unpublish_product
<1> QED
  BY <1>1, <1>4, <1>5

\* Every request keeps the invariant, and so does nothing happening.
LEMMA CovStep == CovInv /\ [Next]_vars => CovInv'
<1> SUFFICES ASSUME CovInv, [Next]_vars PROVE CovInv'
  OBVIOUS
<1>1. CASE LibraryStep
  <2>1. /\ UNCHANGED <<orgProduct, assessment, state, contributor, link, task>>
        /\ product' \in [Products -> [published : BOOLEAN, current : 0..MaxVersion]]
        /\ \A p \in Products : product[p].current <= product'[p].current
    BY <1>1, LibraryMoves
  <2>2. PinsOK'
    <3>1. \A p \in Products : /\ orgProduct[p].pin \in Int /\ product[p].current \in Int
                              /\ product'[p].current \in Int
      BY <2>1, BaselineAssumption, Parts
    <3> QED
      BY <2>1, <3>1, Parts DEF PinsOK
  <2>3. LinksOK'
    <3>1. LinksOK
      BY Parts
    <3> QED
      BY <2>1, <3>1 DEF LinksOK
  <2>4. /\ orgProduct' \in [Products -> [status : {"absent", "active", "decommissioned"},
                                         pin : 0..MaxVersion]]
        /\ link' \in [Assessments -> [Objectives -> [Evidence -> Link]]]
        /\ task' \in [Assessments -> [Artifacts -> Task]]
    BY <2>1, Parts
  <2> QED
    BY <2>1, <2>2, <2>3, <2>4, EvidenceKeeps
<1>2. CASE EngineStep
  BY <1>2, StartKeeps, ActivateKeeps, DeactivateKeeps, MoveKeeps DEF EngineStep
<1>3. ASSUME NEW a \in Assessments, NEW o \in Objectives, NEW s \in PatchStatuses,
             patch_control_state(a, o, s)
      PROVE  CovInv'
  <2>1. s \in Status
    BY BaselineAssumption
  <2>2. RowsFollow(a) /\ UNCHANGED <<product, orgProduct, contributor, link, task>>
    BY <1>3, <2>1, PatchFollows
  <2>3. PinsOK'
    BY <2>2, Parts DEF PinsOK
  <2>4. LinksOK'
    <3>1. LinksOK
      BY Parts
    <3> QED
      BY <2>2, <3>1 DEF LinksOK
  <2>5. /\ product' \in [Products -> [published : BOOLEAN, current : 0..MaxVersion]]
        /\ orgProduct' \in [Products -> [status : {"absent", "active", "decommissioned"},
                                         pin : 0..MaxVersion]]
        /\ link' \in [Assessments -> [Objectives -> [Evidence -> Link]]]
        /\ task' \in [Assessments -> [Artifacts -> Task]]
    BY <2>2, Parts
  <2> QED
    BY <2>2, <2>3, <2>4, <2>5, RowsKeep
<1>4. ASSUME NEW a \in Assessments,
             \/ \E o \in Objectives :
                   \/ \E e \in Uploads : upload_evidence(a, o, e)
                   \/ \E e \in Records : link_record(a, o, e)
                   \/ \E e \in Evidence : detach_evidence(a, o, e)
             \/ \E k \in Artifacts :
                   \/ \E s \in {"open", "collected", "na"} : patch_evidence_task(a, k, s)
                   \/ \E e \in Uploads : collect_task_evidence(a, k, e)
      PROVE  CovInv'
  <2>1. /\ UNCHANGED <<product, orgProduct, assessment, state, contributor>>
        /\ link' \in [Assessments -> [Objectives -> [Evidence -> Link]]]
        /\ task' \in [Assessments -> [Artifacts -> Task]]
        /\ \A b \in Assessments, o \in Objectives, e \in Evidence :
               \/ link'[b][o][e] = link[b][o][e]
               \/ link'[b][o][e] = LiveLink
               \/ link'[b][o][e] = [cause |-> "detached", by |-> NoProduct]
    BY <1>4, PersonMoves
  <2>2. LinksOK'
    <3>1. ASSUME NEW b \in Assessments, NEW o \in Objectives, NEW e \in Evidence,
                 link'[b][o][e].cause \in {"live", "detached"}
          PROVE  link'[b][o][e].by = NoProduct
      <4>1. CASE link'[b][o][e] = link[b][o][e]
        <5>1. LinksOK
          BY Parts
        <5> QED
          BY <3>1, <4>1, <5>1 DEF LinksOK
      <4>2. CASE \/ link'[b][o][e] = LiveLink
                 \/ link'[b][o][e] = [cause |-> "detached", by |-> NoProduct]
        BY <4>2, LinkKinds
      <4> QED
        BY <2>1, <4>1, <4>2
    <3> QED
      BY <3>1 DEF LinksOK, Evidence
  <2>3. PinsOK'
    BY <2>1, Parts DEF PinsOK
  <2>4. /\ product' \in [Products -> [published : BOOLEAN, current : 0..MaxVersion]]
        /\ orgProduct' \in [Products -> [status : {"absent", "active", "decommissioned"},
                                         pin : 0..MaxVersion]]
    BY <2>1, Parts
  <2> QED
    BY <2>1, <2>2, <2>3, <2>4, EvidenceKeeps
<1>5. CASE PersonStep
  BY <1>3, <1>4, <1>5 DEF PersonStep
<1>6. CASE UNCHANGED vars
  <2>1. UNCHANGED <<product, orgProduct, assessment, state, contributor, link, task>>
    BY <1>6 DEF vars
  <2>2. PinsOK'
    BY <2>1, Parts DEF PinsOK
  <2>3. LinksOK'
    <3>1. LinksOK
      BY Parts
    <3> QED
      BY <2>1, <3>1 DEF LinksOK
  <2>4. /\ product' \in [Products -> [published : BOOLEAN, current : 0..MaxVersion]]
        /\ orgProduct' \in [Products -> [status : {"absent", "active", "decommissioned"},
                                         pin : 0..MaxVersion]]
        /\ link' \in [Assessments -> [Objectives -> [Evidence -> Link]]]
        /\ task' \in [Assessments -> [Artifacts -> Task]]
    BY <2>1, Parts
  <2> QED
    BY <2>1, <2>2, <2>3, <2>4, EvidenceKeeps
<1> QED
  BY <1>1, <1>2, <1>5, <1>6 DEF Next

\* CoverageTypes: the tables keep their types, whatever requests come
\* (start_assessment, activate_org_product, deactivate_org_product,
\* move_org_product_version, patch_control_state, the evidence handlers).
THEOREM CoverageTypes == Spec => []TypeOK
<1>1. CovInv => TypeOK
  BY DEF CovInv, CovRows
<1>2. Init => CovInv
  BY CovInitInv
<1> QED
  BY <1>1, <1>2, CovStep, PTL DEF Spec

\* DerivedColumnsFollow: with any number of assessments, responsibilities follow
\* from contributors and the cached score from the states (_run_loop,
\* _remove_contributor, recompute_sprs).
THEOREM DerivedColumnsFollow == Spec => [](ResponsibilityIsResolved /\ ScoreIsCurrent)
<1>1. CovInv => ResponsibilityIsResolved /\ ScoreIsCurrent
  BY DEF CovInv
<1>2. Init => CovInv
  BY CovInitInv
<1> QED
  BY <1>1, <1>2, CovStep, PTL DEF Spec

-----------------------------------------------------------------------------
(* With one assessment: contributors and archived links follow products.   *)

\* A contributor row that is what the product's row asks for.
RowIsCurrent(row, org, o) ==
    \A p \in Products :
        /\ row[p] # 0 <=> org[p].status = "active" /\ o \in Covers(p, org[p].pin)
        /\ row[p] # 0 => Classification(p, row[p], o) = Classification(p, org[p].pin, o)

\* ContributorsAreCurrent, row by row.
LEMMA CurrentIs ==
    /\ ContributorsAreCurrent <=>
           \A a \in Assessments : assessment[a].started =>
               \A o \in Objectives : RowIsCurrent(contributor[a][o], orgProduct, o)
    /\ ContributorsAreCurrent' <=>
           \A a \in Assessments : assessment'[a].started =>
               \A o \in Objectives : RowIsCurrent(contributor'[a][o], orgProduct', o)
<1>1. \A p, v : Covers(p, v)' = Covers(p, v)
  BY DEF Covers, Claimed
<1>2. \A p, v, o : Classification(p, v, o)' = Classification(p, v, o)
  BY DEF Classification
<1> QED
  BY DEF ContributorsAreCurrent, RowIsCurrent, Covers, Claimed, Classification

\* A row that only one product's entry of differs, with that product's own row.
LEMMA CurrentWith ==
    ASSUME NEW row, NEW org, NEW new, NEW neworg, NEW o, NEW p \in Products,
           RowIsCurrent(row, org, o),
           \A q \in Products : q # p => new[q] = row[q] /\ neworg[q] = org[q],
           new[p] # 0 <=> neworg[p].status = "active" /\ o \in Covers(p, neworg[p].pin),
           new[p] # 0 => Classification(p, new[p], o) = Classification(p, neworg[p].pin, o)
    PROVE  RowIsCurrent(new, neworg, o)
<1>1. ASSUME NEW q \in Products
      PROVE  /\ new[q] # 0 <=> neworg[q].status = "active" /\ o \in Covers(q, neworg[q].pin)
             /\ new[q] # 0 => Classification(q, new[q], o) = Classification(q, neworg[q].pin, o)
  <2>1. CASE q = p
    BY <2>1
  <2>2. CASE q # p
    <3>1. new[q] = row[q] /\ neworg[q] = org[q]
      BY <2>2
    <3>2. /\ row[q] # 0 <=> org[q].status = "active" /\ o \in Covers(q, org[q].pin)
          /\ row[q] # 0 => Classification(q, row[q], o) = Classification(q, org[q].pin, o)
      BY DEF RowIsCurrent
    <3> QED
      BY <3>1, <3>2
  <2> QED
    BY <2>1, <2>2
<1> QED
  BY <1>1 DEF RowIsCurrent

\* The start of an assessment makes its contributors those of the active products.
LEMMA StartIsCurrent ==
    ASSUME CovOneInv, NEW a \in Assessments, start_assessment(a)
    PROVE  ContributorsAreCurrent' /\ ArchivedLinksWaitForTheirProduct'
<1>1. /\ contributor' = [contributor EXCEPT ![a] = StartContributor]
      /\ UNCHANGED <<orgProduct, link>>
  BY DEF start_assessment
<1>2. assessment' = [assessment EXCEPT ![a] =
          [started |-> TRUE,
           score |-> compute_sprs([o \in Objectives |-> StartState[o].status])]]
  BY DEF start_assessment
<1>3. \A b \in Assessments : b # a => assessment'[b] = assessment[b]
                                      /\ contributor'[b] = contributor[b]
  BY <1>1, <1>2 DEF CovOneInv, CovInv, CovRows, TypeOK
<1>4. contributor'[a] = StartContributor
  BY <1>1 DEF CovOneInv, CovInv, CovRows, TypeOK
<1>5. ASSUME NEW o \in Objectives PROVE RowIsCurrent(StartContributor[o], orgProduct, o)
  <2>1. ASSUME NEW p \in Products
        PROVE  /\ StartContributor[o][p] # 0 <=>
                      orgProduct[p].status = "active" /\ o \in Covers(p, orgProduct[p].pin)
               /\ StartContributor[o][p] # 0 => StartContributor[o][p] = orgProduct[p].pin
    <3>1. StartContributor[o][p] = IF p \in Covering(o) THEN orgProduct[p].pin ELSE 0
      BY DEF StartContributor, Pin
    <3>2. p \in Covering(o) <=>
              orgProduct[p].status = "active" /\ o \in Covers(p, orgProduct[p].pin)
      BY DEF Covering, Active, Pin
    <3>3. orgProduct[p].status = "active" => orgProduct[p].pin # 0
      BY DEF CovOneInv, CovInv, CovRows, PinsOK
    <3> QED
      BY <3>1, <3>2, <3>3
  <2> QED
    BY <2>1 DEF RowIsCurrent
<1>6. ASSUME NEW b \in Assessments, assessment'[b].started, NEW o \in Objectives
      PROVE  RowIsCurrent(contributor'[b][o], orgProduct', o)
  <2>1. CASE b = a
    BY <1>1, <1>4, <1>5, <2>1
  <2>2. CASE b # a
    <3>1. RowIsCurrent(contributor[b][o], orgProduct, o)
      BY <1>3, <1>6, <2>2, CurrentIs DEF CovOneInv
    <3> QED
      BY <1>1, <1>3, <2>2, <3>1
  <2> QED
    BY <2>1, <2>2
<1>7. ContributorsAreCurrent'
  BY <1>6, CurrentIs
<1>8. ArchivedLinksWaitForTheirProduct'
  BY <1>1 DEF CovOneInv, ArchivedLinksWaitForTheirProduct, NoProduct
<1> QED
  BY <1>7, <1>8

\* An activation makes its product's contributors current, and leaves no link of it.
LEMMA ActivateIsCurrent ==
    ASSUME OneAssessment, CovOneInv, NEW a \in Assessments, NEW p \in Products, NEW keep,
           activate_org_product(a, p, keep)
    PROVE  ContributorsAreCurrent' /\ ArchivedLinksWaitForTheirProduct'
<1>0. CovInv /\ ContributorsAreCurrent /\ ArchivedLinksWaitForTheirProduct
  BY DEF CovOneInv
<1>1. PICK v \in 1..MaxVersion :
          /\ orgProduct[p].pin # 0 => v = orgProduct[p].pin
          /\ orgProduct' = [orgProduct EXCEPT ![p] = [status |-> "active", pin |-> v]]
          /\ contributor' = [contributor EXCEPT ![a] = LoopContributor(a, p, v)]
          /\ link' = [link EXCEPT ![a] = [o \in Objectives |-> [e \in Evidence |->
                 IF <<o, e>> \in RestorableLinks(a, p) THEN LiveLink ELSE link[a][o][e]]]]
  BY <1>0, ActivateIs
<1>2. v # 0 /\ assessment[a].started
  BY BaselineAssumption DEF activate_org_product
<1>3. /\ orgProduct'[p].status = "active" /\ orgProduct'[p].pin = v
      /\ \A q \in Products : q # p => orgProduct'[q] = orgProduct[q]
      /\ contributor'[a] = LoopContributor(a, p, v)
  BY <1>0, <1>1, Parts
<1>4. ASSUME NEW o \in Objectives PROVE RowIsCurrent(contributor'[a][o], orgProduct', o)
  <2> DEFINE row == contributor[a][o]
             new == contributor'[a][o]
  <2>1. RowIsCurrent(row, orgProduct, o)
    BY <1>0, <1>2, CurrentIs
  <2>2. row \in RowType
    BY <1>0, Parts
  <2>3. /\ row[p] # 0 <=> orgProduct[p].status = "active" /\ o \in Covers(p, orgProduct[p].pin)
        /\ row[p] # 0 => Classification(p, row[p], o) = Classification(p, orgProduct[p].pin, o)
    BY <2>1 DEF RowIsCurrent
  <2>4. orgProduct[p].status = "active" => orgProduct[p].pin = v
    <3>1. orgProduct[p].status = "active" => orgProduct[p].pin # 0
      BY <1>0, Parts DEF PinsOK
    <3> QED
      BY <1>1, <3>1
  <2>5. o \in Joins(a, p, v) <=> o \in Covers(p, v) /\ row[p] = 0
    BY DEF Joins
  <2>6. new = IF o \in Joins(a, p, v) THEN [row EXCEPT ![p] = v] ELSE row
    BY <1>3 DEF LoopContributor
  <2>7. /\ new[p] = IF o \in Joins(a, p, v) THEN v ELSE row[p]
        /\ \A q \in Products : q # p => new[q] = row[q]
    BY <2>2, <2>6 DEF RowType
  <2> HIDE DEF row, new
  <2>8. /\ new[p] # 0 <=> orgProduct'[p].status = "active" /\ o \in Covers(p, orgProduct'[p].pin)
        /\ new[p] # 0 => Classification(p, new[p], o) = Classification(p, orgProduct'[p].pin, o)
    BY <1>2, <1>3, <2>3, <2>4, <2>5, <2>7
  <2>9. RowIsCurrent(new, orgProduct', o)
    <3>1. \A q \in Products : q # p => new[q] = row[q] /\ orgProduct'[q] = orgProduct[q]
      BY <1>3, <2>7
    <3> QED
      BY <2>1, <2>8, <3>1, CurrentWith
  <2> QED
    BY <2>9 DEF new
<1>5. ContributorsAreCurrent'
  BY <1>4, CurrentIs DEF OneAssessment
<1>6. ASSUME NEW b \in Assessments, NEW o \in Objectives, NEW e \in Evidence,
             link'[b][o][e].by # NoProduct
      PROVE  orgProduct'[link'[b][o][e].by].status = "decommissioned"
  <2>1. b = a
    BY DEF OneAssessment
  <2>2. link'[b][o][e] = IF <<o, e>> \in RestorableLinks(a, p) THEN LiveLink ELSE link[a][o][e]
    BY <1>0, <1>1, <2>1, Parts
  <2>3. <<o, e>> \notin RestorableLinks(a, p) /\ link'[b][o][e] = link[a][o][e]
    BY <1>6, <2>2, LinkKinds
  <2>4. orgProduct[link[a][o][e].by].status = "decommissioned" /\ link[a][o][e] \in Link
    BY <1>0, <1>6, <2>3, Parts DEF ArchivedLinksWaitForTheirProduct
  <2>5. link[a][o][e].cause # "live"
    <3>1. LinksOK
      BY <1>0, Parts
    <3> QED
      BY <1>6, <2>3, <3>1 DEF LinksOK
  <2>6. link[a][o][e].by # p
    BY <2>3, <2>5 DEF RestorableLinks
  <2>7. link[a][o][e].by \in Products
    BY <1>6, <2>3, <2>4 DEF Link
  <2> QED
    BY <1>3, <2>3, <2>4, <2>6, <2>7
<1>7. ArchivedLinksWaitForTheirProduct'
  BY <1>6 DEF ArchivedLinksWaitForTheirProduct, NoProduct, Evidence
<1> QED
  BY <1>5, <1>7

\* A deactivation takes its product's contributors away; the links it archives
\* wait for it.
LEMMA DeactivateIsCurrent ==
    ASSUME OneAssessment, CovOneInv, NEW a \in Assessments, NEW p \in Products,
           deactivate_org_product(a, p)
    PROVE  ContributorsAreCurrent' /\ ArchivedLinksWaitForTheirProduct'
<1>0. CovInv /\ ContributorsAreCurrent /\ ArchivedLinksWaitForTheirProduct
  BY DEF CovOneInv
<1>1. /\ orgProduct'[p].status = "decommissioned"
      /\ \A q \in Products : q # p => orgProduct'[q] = orgProduct[q]
      /\ \A b \in Assessments, o \in Objectives, e \in Evidence :
             \/ link'[b][o][e] = link[b][o][e]
             \/ link'[b][o][e] = [cause |-> "deactivation", by |-> p]
      /\ link' \in [Assessments -> [Objectives -> [Evidence -> Link]]]
      /\ contributor' = [contributor EXCEPT ![a] =
             [o \in Objectives |-> [contributor[a][o] EXCEPT ![p] = 0]]]
  BY <1>0, DeactivateIs
<1>2. assessment[a].started
  BY DEF deactivate_org_product
<1>3. contributor'[a] = [o \in Objectives |-> [contributor[a][o] EXCEPT ![p] = 0]]
  BY <1>0, <1>1, Parts
<1>4. ASSUME NEW o \in Objectives PROVE RowIsCurrent(contributor'[a][o], orgProduct', o)
  <2> DEFINE row == contributor[a][o]
             new == contributor'[a][o]
  <2>1. RowIsCurrent(row, orgProduct, o)
    BY <1>0, <1>2, CurrentIs
  <2>2. row \in RowType /\ new = [row EXCEPT ![p] = 0]
    BY <1>0, <1>3, Parts
  <2>3. new[p] = 0 /\ \A q \in Products : q # p => new[q] = row[q]
    BY <2>2 DEF RowType
  <2> HIDE DEF row, new
  <2>4. \A q \in Products : q # p => new[q] = row[q] /\ orgProduct'[q] = orgProduct[q]
    BY <1>1, <2>3
  <2>5. /\ new[p] # 0 <=> orgProduct'[p].status = "active" /\ o \in Covers(p, orgProduct'[p].pin)
        /\ new[p] # 0 => Classification(p, new[p], o) = Classification(p, orgProduct'[p].pin, o)
    BY <1>1, <2>3
  <2>6. RowIsCurrent(new, orgProduct', o)
    BY <2>1, <2>4, <2>5, CurrentWith
  <2> QED
    BY <2>6 DEF new
<1>5. ContributorsAreCurrent'
  BY <1>4, CurrentIs DEF OneAssessment
<1>6. ASSUME NEW b \in Assessments, NEW o \in Objectives, NEW e \in Evidence,
             link'[b][o][e].by # NoProduct
      PROVE  orgProduct'[link'[b][o][e].by].status = "decommissioned"
  <2>1. CASE link'[b][o][e].by = p
    BY <1>1, <2>1
  <2>2. CASE link'[b][o][e].by # p
    <3>1. link'[b][o][e] = link[b][o][e] /\ link'[b][o][e] \in Link
      BY <1>1, <2>2
    <3>2. orgProduct[link[b][o][e].by].status = "decommissioned"
      BY <1>0, <1>6, <3>1 DEF ArchivedLinksWaitForTheirProduct
    <3>3. link'[b][o][e].by \in Products
      BY <1>6, <3>1 DEF Link
    <3> QED
      BY <1>1, <2>2, <3>1, <3>2, <3>3
  <2> QED
    BY <2>1, <2>2
<1>7. ArchivedLinksWaitForTheirProduct'
  BY <1>6 DEF ArchivedLinksWaitForTheirProduct, NoProduct, Evidence
<1> QED
  BY <1>5, <1>7

\* What a version move does to a contributor row.
LEMMA MoveIs ==
    ASSUME CovInv, NEW a \in Assessments, NEW p \in Products, NEW v \in Versions,
           move_org_product_version(a, p, v)
    PROVE  /\ assessment[a].started /\ orgProduct[p].status = "active" /\ v # 0
           /\ orgProduct'[p].status = "active" /\ orgProduct'[p].pin = v
           /\ \A q \in Products : q # p => orgProduct'[q] = orgProduct[q]
           /\ \A q \in Products : orgProduct'[q].status = orgProduct[q].status
           /\ UNCHANGED link
           /\ \A o \in Objectives :
                  /\ contributor'[a][o][p] =
                         IF o \in Dropped(a, p, v) THEN 0
                         ELSE IF o \in Gained(a, p, v) \/ o \in Reclassified(a, p, v) THEN v
                         ELSE contributor[a][o][p]
                  /\ \A q \in Products : q # p => contributor'[a][o][q] = contributor[a][o][q]
                  /\ state'[a][o] = MovedState(a, o, p, v)
<1> DEFINE moved == [orgProduct[p] EXCEPT !.pin = v]
           entry(o) == IF o \in Dropped(a, p, v) THEN 0
                       ELSE IF o \in Gained(a, p, v) \cup Reclassified(a, p, v) THEN v
                       ELSE contributor[a][o][p]
           rows == [o \in Objectives |-> [contributor[a][o] EXCEPT ![p] = entry(o)]]
           states == [o \in Objectives |-> MovedState(a, o, p, v)]
<1>1. /\ assessment[a].started /\ orgProduct[p].status = "active" /\ v \in 1..product[p].current
      /\ orgProduct' = [orgProduct EXCEPT ![p] = moved] /\ UNCHANGED link
      /\ contributor' = [contributor EXCEPT ![a] = rows]
      /\ state' = [state EXCEPT ![a] = states]
  BY DEF move_org_product_version
<1>2. v # 0
  BY BaselineAssumption DEF Versions
<1>3. /\ orgProduct'[p] = moved /\ moved.status = orgProduct[p].status /\ moved.pin = v
      /\ \A q \in Products : q # p => orgProduct'[q] = orgProduct[q]
  BY <1>1, Parts
<1>4. ASSUME NEW o \in Objectives
      PROVE  /\ rows[o][p] = entry(o)
             /\ \A q \in Products : q # p => rows[o][q] = contributor[a][o][q]
  <2>1. contributor[a][o] \in RowType
    BY Parts
  <2> HIDE DEF entry
  <2> QED
    BY <2>1 DEF RowType
<1>5. state'[a] = states /\ contributor'[a] = rows
  BY <1>1 DEF CovInv, CovRows, TypeOK
<1>6. \A o \in Objectives : states[o] = MovedState(a, o, p, v)
  OBVIOUS
<1> HIDE DEF moved, rows, states
<1> QED
  BY <1>1, <1>2, <1>3, <1>4, <1>5, <1>6

\* A version move makes its product's contributors those of the new version: a
\* row both versions make alike stays, and claims the same.
LEMMA MoveIsCurrent ==
    ASSUME OneAssessment, CovOneInv, NEW a \in Assessments, NEW p \in Products,
           NEW v \in Versions, move_org_product_version(a, p, v)
    PROVE  ContributorsAreCurrent' /\ ArchivedLinksWaitForTheirProduct'
<1>0. CovInv /\ ContributorsAreCurrent /\ ArchivedLinksWaitForTheirProduct
  BY DEF CovOneInv
<1>1. /\ assessment[a].started /\ orgProduct[p].status = "active" /\ v # 0
      /\ orgProduct'[p].status = "active" /\ orgProduct'[p].pin = v
      /\ \A q \in Products : q # p => orgProduct'[q] = orgProduct[q]
      /\ \A q \in Products : orgProduct'[q].status = orgProduct[q].status
      /\ UNCHANGED link
      /\ \A o \in Objectives :
             /\ contributor'[a][o][p] =
                    IF o \in Dropped(a, p, v) THEN 0
                    ELSE IF o \in Gained(a, p, v) \/ o \in Reclassified(a, p, v) THEN v
                    ELSE contributor[a][o][p]
             /\ \A q \in Products : q # p => contributor'[a][o][q] = contributor[a][o][q]
  BY <1>0, MoveIs
<1>2. ASSUME NEW o \in Objectives PROVE RowIsCurrent(contributor'[a][o], orgProduct', o)
  <2> DEFINE row == contributor[a][o]
             new == contributor'[a][o]
             pin == orgProduct[p].pin
  <2>1. RowIsCurrent(row, orgProduct, o)
    BY <1>0, <1>1, CurrentIs
  <2>2. /\ row[p] # 0 <=> o \in Covers(p, pin)
        /\ row[p] # 0 => Classification(p, row[p], o) = Classification(p, pin, o)
    BY <1>1, <2>1 DEF RowIsCurrent
  <2>3. /\ o \in Dropped(a, p, v) <=> o \in Covers(p, pin) /\ o \notin Covers(p, v) /\ row[p] # 0
        /\ o \in Gained(a, p, v) <=> o \in Covers(p, v) /\ o \notin Covers(p, pin) /\ row[p] = 0
        /\ o \in Reclassified(a, p, v) <=>
               /\ o \in Covers(p, v) /\ o \in Covers(p, pin) /\ row[p] # 0
               /\ Classification(p, pin, o) # Classification(p, v, o)
    BY DEF Dropped, Gained, Reclassified
  <2>4. new[p] = IF o \in Dropped(a, p, v) THEN 0
                 ELSE IF o \in Gained(a, p, v) \/ o \in Reclassified(a, p, v) THEN v
                 ELSE row[p]
    BY <1>1
  <2>5. \A q \in Products : q # p => new[q] = row[q] /\ orgProduct'[q] = orgProduct[q]
    BY <1>1
  <2> HIDE DEF row, new, pin
  <2>6. /\ new[p] # 0 <=> o \in Covers(p, v)
        /\ new[p] # 0 => Classification(p, new[p], o) = Classification(p, v, o)
    BY <1>1, <2>2, <2>3, <2>4
  <2>7. /\ new[p] # 0 <=> orgProduct'[p].status = "active" /\ o \in Covers(p, orgProduct'[p].pin)
        /\ new[p] # 0 => Classification(p, new[p], o) = Classification(p, orgProduct'[p].pin, o)
    BY <1>1, <2>6
  <2>8. RowIsCurrent(new, orgProduct', o)
    BY <2>1, <2>5, <2>7, CurrentWith DEF row
  <2> QED
    BY <2>8 DEF new
<1>3. ContributorsAreCurrent'
  BY <1>2, CurrentIs DEF OneAssessment
<1>4. ASSUME NEW b \in Assessments, NEW o \in Objectives, NEW e \in Evidence,
             link'[b][o][e].by # NoProduct
      PROVE  orgProduct'[link'[b][o][e].by].status = "decommissioned"
  <2>1. link'[b][o][e] = link[b][o][e] /\ link[b][o][e] \in Link
    BY <1>0, <1>1, Parts
  <2>2. orgProduct[link[b][o][e].by].status = "decommissioned"
    BY <1>0, <1>4, <2>1 DEF ArchivedLinksWaitForTheirProduct
  <2>3. link[b][o][e].by \in Products
    BY <1>4, <2>1 DEF Link
  <2> QED
    BY <1>1, <2>1, <2>2, <2>3
<1>5. ArchivedLinksWaitForTheirProduct'
  BY <1>4 DEF ArchivedLinksWaitForTheirProduct, NoProduct, Evidence
<1> QED
  BY <1>3, <1>5

\* What a person or the library does leaves contributors and products' rows, and a
\* link that changes names no product.
LEMMA OthersAreCurrent ==
    ASSUME CovOneInv, UNCHANGED <<orgProduct, contributor>>,
           \A a \in Assessments : assessment'[a].started => assessment[a].started,
           \A b \in Assessments, o \in Objectives, e \in Evidence :
               link'[b][o][e] = link[b][o][e] \/ link'[b][o][e].by = NoProduct
    PROVE  ContributorsAreCurrent' /\ ArchivedLinksWaitForTheirProduct'
<1>0. ContributorsAreCurrent /\ ArchivedLinksWaitForTheirProduct
  BY DEF CovOneInv
<1>1. ContributorsAreCurrent'
  BY <1>0, CurrentIs
<1>2. ASSUME NEW b \in Assessments, NEW o \in Objectives, NEW e \in Evidence,
             link'[b][o][e].by # NoProduct
      PROVE  orgProduct'[link'[b][o][e].by].status = "decommissioned"
  <2>1. link'[b][o][e] = link[b][o][e]
    BY <1>2
  <2> QED
    BY <1>0, <1>2, <2>1 DEF ArchivedLinksWaitForTheirProduct
<1>3. ArchivedLinksWaitForTheirProduct'
  BY <1>2 DEF ArchivedLinksWaitForTheirProduct, NoProduct, Evidence
<1> QED
  BY <1>1, <1>3

\* With one assessment, every request keeps the whole invariant.
LEMMA CovOneStep == OneAssessment => (CovOneInv /\ [Next]_vars => CovOneInv')
<1> SUFFICES ASSUME OneAssessment, CovOneInv, [Next]_vars PROVE CovOneInv'
  OBVIOUS
<1>0. CovInv /\ CovInv'
  BY CovStep DEF CovOneInv
<1> DEFINE Goal == ContributorsAreCurrent' /\ ArchivedLinksWaitForTheirProduct'
<1> SUFFICES Goal
  BY <1>0 DEF CovOneInv
<1>1. CASE LibraryStep
  <2>1. UNCHANGED <<orgProduct, assessment, contributor, link>>
    BY <1>0, <1>1, LibraryMoves
  <2>2. /\ \A a \in Assessments : assessment'[a].started => assessment[a].started
        /\ \A b \in Assessments, o \in Objectives, e \in Evidence :
               link'[b][o][e] = link[b][o][e] \/ link'[b][o][e].by = NoProduct
    BY <2>1
  <2> QED
    BY <2>1, <2>2, OthersAreCurrent
<1>2. CASE EngineStep
  BY <1>2, StartIsCurrent, ActivateIsCurrent, DeactivateIsCurrent, MoveIsCurrent DEF EngineStep
<1>3. ASSUME NEW a \in Assessments, NEW o \in Objectives, NEW s \in PatchStatuses,
             patch_control_state(a, o, s)
      PROVE  Goal
  <2>1. s \in Status
    BY BaselineAssumption
  <2>2. RowsFollow(a) /\ UNCHANGED <<orgProduct, contributor, link>>
    BY <1>0, <1>3, <2>1, PatchFollows
  <2> DEFINE n == compute_sprs([x \in Objectives |-> state'[a][x].status])
  <2>3. /\ assessment[a].started
        /\ assessment' = [assessment EXCEPT ![a] = [started |-> TRUE, score |-> n]]
        /\ assessment \in [Assessments -> [started : BOOLEAN, score : Int]]
    BY <1>0, <1>3, <2>2 DEF RowsFollow, patch_control_state, CovInv, CovRows, TypeOK
  <2> HIDE DEF n
  <2>4. /\ \A b \in Assessments : assessment'[b].started => assessment[b].started
        /\ \A b \in Assessments, x \in Objectives, e \in Evidence :
               link'[b][x][e] = link[b][x][e] \/ link'[b][x][e].by = NoProduct
    BY <2>2, <2>3
  <2> QED
    BY <2>2, <2>4, OthersAreCurrent
<1>4. ASSUME NEW a \in Assessments,
             \/ \E o \in Objectives :
                   \/ \E e \in Uploads : upload_evidence(a, o, e)
                   \/ \E e \in Records : link_record(a, o, e)
                   \/ \E e \in Evidence : detach_evidence(a, o, e)
             \/ \E k \in Artifacts :
                   \/ \E s \in {"open", "collected", "na"} : patch_evidence_task(a, k, s)
                   \/ \E e \in Uploads : collect_task_evidence(a, k, e)
      PROVE  Goal
  <2>1. /\ UNCHANGED <<orgProduct, assessment, contributor>>
        /\ \A b \in Assessments, o \in Objectives, e \in Evidence :
               \/ link'[b][o][e] = link[b][o][e]
               \/ link'[b][o][e] = LiveLink
               \/ link'[b][o][e] = [cause |-> "detached", by |-> NoProduct]
    BY <1>0, <1>4, PersonMoves
  <2>2. /\ \A b \in Assessments : assessment'[b].started => assessment[b].started
        /\ \A b \in Assessments, o \in Objectives, e \in Evidence :
               link'[b][o][e] = link[b][o][e] \/ link'[b][o][e].by = NoProduct
    <3>1. \A b \in Assessments, o \in Objectives, e \in Evidence :
              link'[b][o][e] = link[b][o][e] \/ link'[b][o][e].by = NoProduct
      BY <2>1, LinkKinds
    <3> QED
      BY <2>1, <3>1
  <2> QED
    BY <2>1, <2>2, OthersAreCurrent
<1>5. CASE PersonStep
  BY <1>3, <1>4, <1>5 DEF PersonStep
<1>6. CASE UNCHANGED vars
  <2>1. UNCHANGED <<orgProduct, assessment, contributor, link>>
    BY <1>6 DEF vars
  <2>2. /\ \A a \in Assessments : assessment'[a].started => assessment[a].started
        /\ \A b \in Assessments, o \in Objectives, e \in Evidence :
               link'[b][o][e] = link[b][o][e] \/ link'[b][o][e].by = NoProduct
    BY <2>1
  <2> QED
    BY <2>1, <2>2, OthersAreCurrent
<1> QED
  BY <1>1, <1>2, <1>5, <1>6 DEF Next

\* DerivedAlwaysFollow: with one assessment, contributors are the active products'
\* and what they cover, responsibilities follow from them and the score from the
\* states, after any requests (start_assessment, activate_org_product,
\* deactivate_org_product, move_org_product_version, recompute_sprs).
THEOREM DerivedAlwaysFollow == OneAssessment /\ Spec => []DerivedRowsFollow
<1>1. CovOneInv => DerivedRowsFollow
  BY DEF CovOneInv, CovInv, DerivedRowsFollow
<1>2. Init => CovOneInv
  BY CovInitInv DEF CovOneInv
<1>3. CASE OneAssessment
  <2>1. CovOneInv /\ [Next]_vars => CovOneInv'
    BY <1>3, CovOneStep
  <2> QED
    BY <1>1, <1>2, <2>1, PTL DEF Spec
<1>4. CASE ~ OneAssessment
  BY <1>4, PTL
<1> QED
  BY <1>3, <1>4

\* ArchivedLinksAlwaysWait: with one assessment, a link a deactivation archived
\* names a product that is off, so that its return brings the link back
\* (deactivate_org_product, activate_org_product, detach_evidence).
THEOREM ArchivedLinksAlwaysWait == OneAssessment /\ Spec => []ArchivedLinksWaitForTheirProduct
<1>1. CovOneInv => ArchivedLinksWaitForTheirProduct
  BY DEF CovOneInv
<1>2. Init => CovOneInv
  BY CovInitInv DEF CovOneInv
<1>3. CASE OneAssessment
  <2>1. CovOneInv /\ [Next]_vars => CovOneInv'
    BY <1>3, CovOneStep
  <2> QED
    BY <1>1, <1>2, <2>1, PTL DEF Spec
<1>4. CASE ~ OneAssessment
  BY <1>4, PTL
<1> QED
  BY <1>3, <1>4

\* The task can be worked on.
Workable(t) == t.status # "none" /\ ~t.archived

\* What can be worked on was asked for by a product, which is active.
TasksServe ==
    \A a \in Assessments, k \in Artifacts :
        Workable(task[a][k]) =>
            /\ task[a][k].spec[1] \in Products
            /\ orgProduct[task[a][k].spec[1]].status = "active"

\* A fan-out makes no archived task workable, and its new tasks are its product's.
LEMMA FanoutServes ==
    ASSUME NEW tasks \in [Artifacts -> Task], NEW p, NEW v, NEW controls,
           NEW k \in Artifacts, Workable(fanout_evidence_tasks(tasks, p, v, controls)[k])
    PROVE  LET new == fanout_evidence_tasks(tasks, p, v, controls)[k]
           IN  \/ Workable(tasks[k]) /\ new.spec = tasks[k].spec
               \/ new.spec[1] = p
BY DEF fanout_evidence_tasks, Workable, Task

\* A request that leaves the tasks of other assessments alone, and no product's
\* status but p's, keeps what the tasks of its own serve.
LEMMA ServeStep ==
    ASSUME OneAssessment, TypeOK, TasksServe, NEW a \in Assessments, NEW p \in Products,
           \A q \in Products : q # p => orgProduct'[q].status = orgProduct[q].status,
           \A k \in Artifacts : Workable(task'[a][k]) =>
               \/ /\ Workable(task[a][k]) /\ task'[a][k].spec = task[a][k].spec
                  /\ task[a][k].spec[1] = p => orgProduct'[p].status = orgProduct[p].status
               \/ task'[a][k].spec[1] = p /\ orgProduct'[p].status = "active"
    PROVE  TasksServe'
<1> SUFFICES ASSUME NEW b \in Assessments, NEW k \in Artifacts, Workable(task'[b][k])
             PROVE  /\ task'[b][k].spec[1] \in Products
                    /\ orgProduct'[task'[b][k].spec[1]].status = "active"
  BY DEF TasksServe, Workable
<1>1. b = a
  BY DEF OneAssessment
<1>2. CASE task'[a][k].spec[1] = p /\ orgProduct'[p].status = "active"
  BY <1>1, <1>2
<1>3. CASE /\ Workable(task[a][k]) /\ task'[a][k].spec = task[a][k].spec
           /\ task[a][k].spec[1] = p => orgProduct'[p].status = orgProduct[p].status
  <2>1. /\ task[a][k].spec[1] \in Products
        /\ orgProduct[task[a][k].spec[1]].status = "active"
    BY <1>3 DEF TasksServe
  <2> QED
    BY <1>1, <1>3, <2>1
<1> QED
  BY <1>1, <1>2, <1>3

\* With one assessment, every request keeps the tasks with active products.
LEMMA TasksServeStep == OneAssessment => (TypeOK /\ TasksServe /\ [Next]_vars => TasksServe')
<1> SUFFICES ASSUME OneAssessment, TypeOK, TasksServe, [Next]_vars PROVE TasksServe'
  OBVIOUS
<1>0. task \in [Assessments -> [Artifacts -> Task]]
  BY DEF TypeOK
<1>1. CASE UNCHANGED <<orgProduct, task>>
  BY <1>1 DEF TasksServe, Workable
<1>2. ASSUME NEW a \in Assessments, start_assessment(a) PROVE TasksServe'
  <2>1. PICK tasks \in SeededTasks : task' = [task EXCEPT ![a] = tasks]
    BY <1>2 DEF start_assessment
  <2>2. task'[a] = tasks /\ orgProduct' = orgProduct
    BY <1>0, <1>2, <2>1 DEF start_assessment
  <2>3. ASSUME NEW k \in Artifacts, Workable(tasks[k])
        PROVE  tasks[k].spec[1] \in Products /\ orgProduct[tasks[k].spec[1]].status = "active"
    <3>1. PICK r \in Naming(k) : tasks[k] = Seeded(k, r[1])
      BY <2>3 DEF SeededTasks, NoTask, Workable
    <3>2. r[1] \in Active /\ tasks[k].spec[1] = r[1]
      BY <3>1 DEF Naming, Seeded
    <3> QED
      BY <3>2 DEF Active
  <2> SUFFICES ASSUME NEW b \in Assessments, NEW k \in Artifacts, Workable(task'[b][k])
               PROVE  /\ task'[b][k].spec[1] \in Products
                      /\ orgProduct'[task'[b][k].spec[1]].status = "active"
    BY DEF TasksServe, Workable
  <2>4. b = a
    BY DEF OneAssessment
  <2> QED
    BY <2>2, <2>3, <2>4
<1>3. ASSUME NEW a \in Assessments, NEW p \in Products, NEW keep,
             activate_org_product(a, p, keep)
      PROVE  TasksServe'
  <2> DEFINE v == IF orgProduct[p].pin = 0 THEN product[p].current ELSE orgProduct[p].pin
             back == RestoredTasks(a, p, v)
             all == LoopTask(back, p, v)
  <2>1. /\ orgProduct' = [orgProduct EXCEPT ![p] = [status |-> "active", pin |-> v]]
        /\ task' = [task EXCEPT ![a] = all]
    BY <1>3 DEF activate_org_product
  <2>2. /\ orgProduct'[p].status = "active"
        /\ \A q \in Products : q # p => orgProduct'[q] = orgProduct[q]
        /\ task'[a] = all
    <3> HIDE DEF v, all
    <3> QED
      BY <1>0, <2>1 DEF TypeOK
  <2>3. back \in [Artifacts -> Task]
    BY RestoredTyped
  <2>4. ASSUME NEW k \in Artifacts, Workable(back[k])
        PROVE  \/ Workable(task[a][k]) /\ back[k].spec = task[a][k].spec
               \/ back[k].spec[1] = p
    BY <1>0, <2>4 DEF RestoredTasks, Workable, Task
  <2> HIDE DEF back, v
  <2>5. ASSUME NEW k \in Artifacts, Workable(all[k])
        PROVE  \/ Workable(back[k]) /\ all[k].spec = back[k].spec
               \/ all[k].spec[1] = p
    BY <2>3, <2>5, FanoutServes DEF LoopTask
  <2> HIDE DEF all
  <2>6. ASSUME NEW k \in Artifacts, Workable(task'[a][k])
        PROVE  \/ Workable(task[a][k]) /\ task'[a][k].spec = task[a][k].spec
               \/ task'[a][k].spec[1] = p
    BY <2>2, <2>4, <2>5, <2>6
  <2>7. ASSUME NEW k \in Artifacts, Workable(task'[a][k])
        PROVE  \/ /\ Workable(task[a][k]) /\ task'[a][k].spec = task[a][k].spec
                  /\ task[a][k].spec[1] = p => orgProduct'[p].status = orgProduct[p].status
               \/ task'[a][k].spec[1] = p /\ orgProduct'[p].status = "active"
    BY <2>2, <2>6, <2>7
  <2> QED
    BY <2>2, <2>7, ServeStep
<1>4. ASSUME NEW a \in Assessments, NEW p \in Products, deactivate_org_product(a, p)
      PROVE  TasksServe'
  <2>1. /\ orgProduct' = [orgProduct EXCEPT ![p].status = "decommissioned"]
        /\ task' = [task EXCEPT ![a] = ArchivedTasks(a, p)]
    BY <1>4 DEF deactivate_org_product
  <2>2. /\ \A q \in Products : q # p => orgProduct'[q] = orgProduct[q]
        /\ task'[a] = ArchivedTasks(a, p)
    BY <1>0, <2>1 DEF TypeOK
  <2>3. ASSUME NEW k \in Artifacts, Workable(task'[a][k])
        PROVE  /\ Workable(task[a][k]) /\ task'[a][k].spec = task[a][k].spec
               /\ task[a][k].spec[1] # p
    <3> DEFINE old == task[a][k]
               archived == [old EXCEPT !.archived = TRUE,
                                       !.status = IF @ = "open" THEN "na" ELSE @]
    <3>1. task'[a][k] = IF ~old.archived /\ old.spec[1] = p THEN archived ELSE old
      BY <2>2 DEF ArchivedTasks
    <3>2. archived.archived = TRUE
      BY <1>0 DEF Task
    <3> QED
      BY <2>3, <3>1, <3>2 DEF Workable
  <2> QED
    BY <2>2, <2>3, ServeStep
<1>5. ASSUME NEW a \in Assessments, NEW p \in Products, NEW v \in Versions,
             move_org_product_version(a, p, v)
      PROVE  TasksServe'
  <2> DEFINE touched == {ControlOf[o] : o \in Gained(a, p, v) \cup Reclassified(a, p, v)}
             all == fanout_evidence_tasks(task[a], p, v, touched)
  <2>1. /\ orgProduct' = [orgProduct EXCEPT ![p].pin = v] /\ orgProduct[p].status = "active"
        /\ task' = [task EXCEPT ![a] = all]
    BY <1>5 DEF move_org_product_version
  <2> HIDE DEF touched
  <2>2. /\ \A q \in Products : orgProduct'[q].status = orgProduct[q].status
        /\ task'[a] = all
    <3> HIDE DEF all
    <3> QED
      BY <1>0, <2>1 DEF TypeOK
  <2>3. ASSUME NEW k \in Artifacts, Workable(all[k])
        PROVE  \/ Workable(task[a][k]) /\ all[k].spec = task[a][k].spec
               \/ all[k].spec[1] = p
    BY <1>0, <2>3, FanoutServes
  <2> HIDE DEF all
  <2>4. ASSUME NEW k \in Artifacts, Workable(task'[a][k])
        PROVE  \/ /\ Workable(task[a][k]) /\ task'[a][k].spec = task[a][k].spec
                  /\ task[a][k].spec[1] = p => orgProduct'[p].status = orgProduct[p].status
               \/ task'[a][k].spec[1] = p /\ orgProduct'[p].status = "active"
    BY <2>1, <2>2, <2>3, <2>4
  <2> QED
    BY <2>2, <2>4, ServeStep
<1>6. ASSUME NEW a \in Assessments, NEW k \in Artifacts,
             \/ \E s \in {"open", "collected", "na"} : patch_evidence_task(a, k, s)
             \/ \E e \in Uploads : collect_task_evidence(a, k, e)
      PROVE  TasksServe'
  <2>1. /\ orgProduct' = orgProduct /\ Workable(task[a][k])
        /\ \E s : task' = [task EXCEPT ![a][k].status = s]
    BY <1>6 DEF patch_evidence_task, collect_task_evidence, Workable
  <2>2. \A b \in Assessments, j \in Artifacts :
            Workable(task'[b][j]) => Workable(task[b][j]) /\ task'[b][j].spec = task[b][j].spec
    BY <1>0, <2>1 DEF Workable, Task
  <2> QED
    BY <2>1, <2>2 DEF TasksServe, Workable
<1>7. CASE LibraryStep
  BY <1>1, <1>7 DEF LibraryStep, ImportBaseline, publish_product, unpublish_product
<1>8. CASE EngineStep
  BY <1>2, <1>3, <1>4, <1>5, <1>8 DEF EngineStep
<1>9. CASE PersonStep
  BY <1>1, <1>6, <1>9
  DEF PersonStep, patch_control_state, upload_evidence, link_record, detach_evidence
<1>10. CASE UNCHANGED vars
  BY <1>1, <1>10 DEF vars
<1> QED
  BY <1>7, <1>8, <1>9, <1>10 DEF Next

\* WorkAlwaysFollows: with one assessment, what is archived waits for a product
\* that is off and what can be worked on serves one that is on
\* (activate_org_product, deactivate_org_product, move_org_product_version).
THEOREM WorkAlwaysFollows == OneAssessment /\ Spec => []WorkFollowsProducts
<1>1. TasksServe => LiveTasksServeActiveProducts
  BY DEF TasksServe, Workable, LiveTasksServeActiveProducts
<1>2. Init => TasksServe
  BY DEF Init, TasksServe, Workable, NoTask
<1>3. CASE OneAssessment
  <2>1. TypeOK /\ TasksServe /\ [Next]_vars => TasksServe'
    BY <1>3, TasksServeStep
  <2>2. Spec => []TypeOK
    BY CoverageTypes
  <2>3. Spec => []ArchivedLinksWaitForTheirProduct
    BY <1>3, ArchivedLinksAlwaysWait
  <2> QED
    BY <1>1, <1>2, <2>1, <2>2, <2>3, PTL DEF Spec, WorkFollowsProducts
<1>4. CASE ~ OneAssessment
  BY <1>4, PTL
<1> QED
  BY <1>3, <1>4

-----------------------------------------------------------------------------
(* What a person decided stands.                                           *)

\* The engine's steps and the person's, one by one: what each does to a status, a
\* row, and the score.
Kept(a, o) ==
    \/ state'[a][o].status = state[a][o].status
    \/ \E s \in PatchStatuses : patch_control_state(a, o, s)
    \/ /\ state'[a][o].status = "needs_review"
       /\ \/ Contributors(a, o) = {}
          \/ \E p \in Contributors(a, o) :
                \/ contributor'[a][o][p] = 0
                \/ contributor'[a][o][p] # contributor[a][o][p]

\* A version move asks again only where its product's claim goes or changes: a row
\* that is current claims what the pinned version claims, so a claim that differs
\* from the pinned one is a row of another version.
LEMMA MoveKeepsJudgements ==
    ASSUME CovOneInv, NEW a \in Assessments, NEW p \in Products, NEW v \in Versions,
           move_org_product_version(a, p, v),
           NEW o \in Objectives, state[a][o].status \in JUDGED_STATUSES
    PROVE  Kept(a, o)
<1>0. CovInv /\ ContributorsAreCurrent
  BY DEF CovOneInv
<1>1. /\ assessment[a].started
      /\ contributor'[a][o][p] =
             IF o \in Dropped(a, p, v) THEN 0
             ELSE IF o \in Gained(a, p, v) \/ o \in Reclassified(a, p, v) THEN v
             ELSE contributor[a][o][p]
      /\ state'[a][o] = MovedState(a, o, p, v)
  BY <1>0, MoveIs
<1>2. /\ o \in Dropped(a, p, v) => o \notin Gained(a, p, v) /\ o \notin Reclassified(a, p, v)
                                   /\ p \in Contributors(a, o)
      /\ o \in Gained(a, p, v) => o \notin Reclassified(a, p, v) /\ o \in Joins(a, p, v)
      /\ o \in Reclassified(a, p, v) =>
             /\ p \in Contributors(a, o) /\ contributor[a][o][p] # 0
             /\ Classification(p, orgProduct[p].pin, o) # Classification(p, v, o)
  BY DEF Dropped, Gained, Reclassified, Joins, Contributors
<1>3. CASE o \in Dropped(a, p, v)
  <2>1. MovedState(a, o, p, v) = LostState(a, o, p)
    BY <1>2, <1>3 DEF MovedState
  <2>2. state'[a][o].status = "needs_review"
    BY <1>1, <2>1 DEF LostState
  <2> QED
    BY <1>1, <1>2, <1>3, <2>2 DEF Kept
<1>4. CASE o \in Gained(a, p, v)
  <2>1. MovedState(a, o, p, v) = LoopState(a, p, v, {})[o]
    BY <1>2, <1>4 DEF MovedState
  <2>2. state'[a][o].status
            = contributor_added_status(state[a][o].status, Contributors(a, o) = {}, o \in {})
    BY <1>1, <1>2, <1>4, <2>1 DEF LoopState
  <2>3. \/ state'[a][o].status = state[a][o].status
        \/ state'[a][o].status = "needs_review" /\ Contributors(a, o) = {}
    BY <2>2 DEF contributor_added_status, is_judgement_in_question, JUDGED_STATUSES
  <2> QED
    BY <2>3 DEF Kept
<1>5. CASE o \in Reclassified(a, p, v)
  <2>1. /\ p \in Contributors(a, o) /\ contributor[a][o][p] # 0
        /\ Classification(p, orgProduct[p].pin, o) # Classification(p, v, o)
        /\ o \notin Dropped(a, p, v) /\ o \notin Gained(a, p, v)
    BY <1>2, <1>5
  <2>2. state'[a][o].status = "needs_review"
    BY <1>1, <1>5, <2>1 DEF MovedState
  <2>3. RowIsCurrent(contributor[a][o], orgProduct, o)
    BY <1>0, <1>1, CurrentIs
  <2>4. Classification(p, contributor[a][o][p], o) = Classification(p, orgProduct[p].pin, o)
    BY <2>1, <2>3 DEF RowIsCurrent
  <2>5. contributor[a][o][p] # v
    BY <2>1, <2>4
  <2> QED
    BY <1>1, <1>5, <2>1, <2>2, <2>5 DEF Kept
<1>6. CASE o \notin Dropped(a, p, v) /\ o \notin Gained(a, p, v) /\ o \notin Reclassified(a, p, v)
  <2>1. MovedState(a, o, p, v) = state[a][o]
    BY <1>6 DEF MovedState
  <2> QED
    BY <1>1, <2>1 DEF Kept
<1> QED
  BY <1>3, <1>4, <1>5, <1>6

\* The engine keeps what people judged.
LEMMA EngineKeepsJudgements ==
    ASSUME CovOneInv, EngineStep, NEW a \in Assessments, NEW o \in Objectives,
           state[a][o].status \in JUDGED_STATUSES
    PROVE  Kept(a, o)
<1>0. CovInv /\ CovRows
  BY DEF CovOneInv, CovInv
<1>1. PICK b \in Assessments :
          \/ start_assessment(b)
          \/ \E p \in Products :
                \/ \E keep \in SUBSET Objectives : activate_org_product(b, p, keep)
                \/ deactivate_org_product(b, p)
                \/ \E v \in Versions : move_org_product_version(b, p, v)
  BY DEF EngineStep
<1>2. EngineMoves(b)
  BY <1>0, <1>1, StartMoves, ActivateMoves, DeactivateMoves, VersionMoves
<1>3. CASE a # b
  BY <1>2, <1>3 DEF EngineMoves, RowsFollow, Kept
<1>4. CASE a = b
  <2>1. CASE start_assessment(b)
    <3>1. state[a][o] = Seed
      BY <1>0, <1>4, <2>1 DEF CovRows, SeedsOK, start_assessment
    <3> QED
      BY <3>1 DEF Seed, JUDGED_STATUSES
  <2>2. ASSUME NEW p \in Products, NEW keep \in SUBSET Objectives,
               activate_org_product(b, p, keep)
        PROVE  Kept(a, o)
    <3>1. PICK v \in 1..MaxVersion :
              /\ (o \notin Joins(a, p, v) \/ Contributors(a, o) # {}) =>
                     state'[a][o].status \in
                         {state[a][o].status}
                             \cup IF state[a][o].status = "pending_evidence"
                                  THEN {"needs_review"} ELSE {}
              /\ state'[a][o].status \in {state[a][o].status, "needs_review"}
      BY <1>0, <1>4, <2>2, ActivateIs
    <3> QED
      BY <3>1 DEF Kept, JUDGED_STATUSES
  <2>3. ASSUME NEW p \in Products, deactivate_org_product(b, p)
        PROVE  Kept(a, o)
    <3>0. deactivate_org_product(a, p)
      BY <1>4, <2>3
    <3>1. /\ contributor'[a][o][p] = 0
          /\ \/ state'[a][o] = state[a][o]
             \/ contributor[a][o][p] # 0 /\ state'[a][o].status = "needs_review"
      BY <1>0, <3>0, DeactivateAsks
    <3>3. contributor[a][o][p] # 0 => p \in Contributors(a, o)
      BY DEF Contributors
    <3> QED
      BY <3>1, <3>3 DEF Kept
  <2>4. ASSUME NEW p \in Products, NEW v \in Versions, move_org_product_version(b, p, v)
        PROVE  Kept(a, o)
    BY <1>4, <2>4, MoveKeepsJudgements
  <2> QED
    BY <1>1, <2>1, <2>2, <2>3, <2>4
<1> QED
  BY <1>3, <1>4

\* A person's edit of an objective changes no other status.
LEMMA PatchIs ==
    ASSUME CovInv, NEW b \in Assessments, NEW x \in Objectives, NEW s \in PatchStatuses,
           patch_control_state(b, x, s),
           NEW a \in Assessments, NEW o \in Objectives
    PROVE  /\ state'[a][o].status # state[a][o].status => a = b /\ o = x
           /\ a # b => assessment'[a] = assessment[a]
<1> DEFINE states == [state[b] EXCEPT ![x].status = s]
<1>1. /\ state' = [state EXCEPT ![b] = states] /\ recompute_sprs(b, states)
  BY DEF patch_control_state
<1>2. a # b => state'[a] = state[a] /\ assessment'[a] = assessment[a]
  BY <1>1 DEF recompute_sprs, CovInv, CovRows, TypeOK
<1>3. a = b /\ o # x => state'[a][o] = state[a][o]
  BY <1>1 DEF CovInv, CovRows, TypeOK
<1> QED
  BY <1>2, <1>3

\* Every request, and nothing happening, keeps what people judged.
LEMMA JudgementsStep ==
    ASSUME CovOneInv, [Next]_vars, NEW a \in Assessments, NEW o \in Objectives,
           state[a][o].status \in JUDGED_STATUSES
    PROVE  Kept(a, o)
<1>0. CovInv
  BY DEF CovOneInv
<1>1. CASE LibraryStep
  <2>1. UNCHANGED state
    BY <1>0, <1>1, LibraryMoves
  <2> QED
    BY <2>1 DEF Kept
<1>2. CASE EngineStep
  BY <1>2, EngineKeepsJudgements
<1>3. ASSUME NEW b \in Assessments, NEW x \in Objectives, NEW s \in PatchStatuses,
             patch_control_state(b, x, s)
      PROVE  Kept(a, o)
  BY <1>0, <1>3, PatchIs DEF Kept
<1>4. ASSUME NEW b \in Assessments,
             \/ \E x \in Objectives :
                   \/ \E e \in Uploads : upload_evidence(b, x, e)
                   \/ \E e \in Records : link_record(b, x, e)
                   \/ \E e \in Evidence : detach_evidence(b, x, e)
             \/ \E k \in Artifacts :
                   \/ \E s \in {"open", "collected", "na"} : patch_evidence_task(b, k, s)
                   \/ \E e \in Uploads : collect_task_evidence(b, k, e)
      PROVE  Kept(a, o)
  <2>1. UNCHANGED state
    BY <1>0, <1>4, PersonMoves
  <2> QED
    BY <2>1 DEF Kept
<1>5. CASE PersonStep
  BY <1>3, <1>4, <1>5 DEF PersonStep
<1>6. CASE UNCHANGED vars
  BY <1>6 DEF vars, Kept
<1> QED
  BY <1>1, <1>2, <1>5, <1>6 DEF Next

\* The points of a score that follows from its states are gained by people alone.
LEMMA ScoreStep ==
    ASSUME CovInv, [Next]_vars, NEW a \in Assessments, assessment[a].started,
           assessment'[a].score > assessment[a].score
    PROVE  \E o \in Objectives, s \in PatchStatuses : patch_control_state(a, o, s)
<1>0. assessment[a].score \in Int
  BY DEF CovInv, CovRows, TypeOK
<1>1. CASE LibraryStep
  <2>1. UNCHANGED assessment
    BY <1>1, LibraryMoves
  <2> QED
    BY <1>0, <2>1
<1>2. CASE EngineStep
  <2>1. PICK b \in Assessments : EngineMoves(b)
    BY <1>2, StartMoves, ActivateMoves, DeactivateMoves, VersionMoves DEF EngineStep, CovInv
  <2> DEFINE was == [o \in Objectives |-> state[a][o].status]
             is == [o \in Objectives |-> state'[a][o].status]
             score == compute_sprs([o \in Objectives |-> state'[b][o].status])
  <2>2. /\ assessment' = [assessment EXCEPT ![b] = [started |-> TRUE, score |-> score]]
        /\ assessment \in [Assessments -> [started : BOOLEAN, score : Int]]
    BY <2>1 DEF EngineMoves, RowsFollow, CovInv, CovRows, TypeOK
  <2>3. CASE a # b
    <3> HIDE DEF score
    <3>1. assessment'[a] = assessment[a]
      BY <2>2, <2>3
    <3> QED
      BY <1>0, <3>1
  <2>4. CASE a = b
    <3>1. \A o \in Objectives : was[o] \notin {"met", "inherited"}
                                  => is[o] \notin {"met", "inherited"}
      BY <2>1, <2>4 DEF EngineMoves
    <3>2. assessment[a].score = compute_sprs(was)
      BY DEF CovInv, ScoreIsCurrent
    <3>3. score = compute_sprs(is)
      BY <2>4
    <3> HIDE DEF was, is, score
    <3>4. assessment'[a].score = score
      BY <2>2, <2>4
    <3>5. compute_sprs(is) <= compute_sprs(was)
      BY <3>1, CovScoreFalls
    <3>6. compute_sprs(is) \in Int /\ compute_sprs(was) \in Int
      BY CovScoreIsInt
    <3> QED
      BY <3>2, <3>3, <3>4, <3>5, <3>6
  <2> QED
    BY <2>3, <2>4
<1>3. ASSUME NEW b \in Assessments, NEW x \in Objectives, NEW s \in PatchStatuses,
             patch_control_state(b, x, s)
      PROVE  \E o \in Objectives, t \in PatchStatuses : patch_control_state(a, o, t)
  <2>1. CASE a = b
    BY <1>3, <2>1
  <2>2. CASE a # b
    <3>1. assessment'[a] = assessment[a]
      BY <1>3, <2>2, PatchIs
    <3> QED
      BY <1>0, <3>1
  <2> QED
    BY <2>1, <2>2
<1>4. ASSUME NEW b \in Assessments,
             \/ \E x \in Objectives :
                   \/ \E e \in Uploads : upload_evidence(b, x, e)
                   \/ \E e \in Records : link_record(b, x, e)
                   \/ \E e \in Evidence : detach_evidence(b, x, e)
             \/ \E k \in Artifacts :
                   \/ \E s \in {"open", "collected", "na"} : patch_evidence_task(b, k, s)
                   \/ \E e \in Uploads : collect_task_evidence(b, k, e)
      PROVE  FALSE
  <2>1. UNCHANGED assessment
    BY <1>4, PersonMoves
  <2> QED
    BY <1>0, <2>1
<1>5. CASE PersonStep
  BY <1>3, <1>4, <1>5 DEF PersonStep
<1>6. CASE UNCHANGED vars
  BY <1>0, <1>6 DEF vars
<1> QED
  BY <1>1, <1>2, <1>5, <1>6 DEF Next

\* Nothing but a person's link makes a link live that a person took off: a detached
\* link waits for no product, and an upload is new.
LEMMA DetachedStep ==
    ASSUME CovInv, [Next]_vars,
           NEW a \in Assessments, NEW o \in Objectives, NEW e \in Evidence,
           link[a][o][e].cause = "detached", link'[a][o][e].cause = "live"
    PROVE  e \in Records /\ link_record(a, o, e)
<1>0. link \in [Assessments -> [Objectives -> [Evidence -> Link]]] /\ link[a][o][e].by = NoProduct
  <2>1. LinksOK
    BY Parts
  <2> QED
    BY <2>1, Parts DEF LinksOK
<1>1. CASE LibraryStep
  BY <1>1, LibraryMoves
<1>2. CASE EngineStep
  <2>1. PICK b \in Assessments :
            \/ start_assessment(b)
            \/ \E p \in Products :
                  \/ \E keep \in SUBSET Objectives : activate_org_product(b, p, keep)
                  \/ deactivate_org_product(b, p)
                  \/ \E v \in Versions : move_org_product_version(b, p, v)
    BY <1>2 DEF EngineStep
  <2>2. CASE \/ start_assessment(b)
             \/ \E p \in Products, v \in Versions : move_org_product_version(b, p, v)
    <3>1. UNCHANGED link
      BY <2>2 DEF start_assessment, move_org_product_version
    <3> QED
      BY <3>1
  <2>3. ASSUME NEW p \in Products, NEW keep \in SUBSET Objectives,
               activate_org_product(b, p, keep)
        PROVE  link'[a][o][e] = link[a][o][e]
    <3>1. link' = [link EXCEPT ![b] = [x \in Objectives |-> [y \in Evidence |->
              IF <<x, y>> \in RestorableLinks(b, p) THEN LiveLink ELSE link[b][x][y]]]]
      BY <2>3 DEF activate_org_product
    <3>2. CASE a # b
      BY <1>0, <3>1, <3>2
    <3>3. CASE a = b
      <4>1. <<o, e>> \notin RestorableLinks(b, p)
        BY <1>0, <3>3, BaselineAssumption DEF RestorableLinks
      <4> QED
        BY <1>0, <3>1, <3>3, <4>1
    <3> QED
      BY <3>2, <3>3
  <2>4. ASSUME NEW p \in Products, deactivate_org_product(b, p)
        PROVE  FALSE
    <3>1. \/ link'[a][o][e] = link[a][o][e]
          \/ link'[a][o][e] = [cause |-> "deactivation", by |-> p]
      BY <2>4, DeactivateIs
    <3> QED
      BY <3>1
  <2> QED
    BY <2>1, <2>2, <2>3, <2>4
<1>3. ASSUME NEW b \in Assessments, NEW x \in Objectives, NEW y \in Evidence, NEW new,
             link' = [link EXCEPT ![b][x][y] = new], <<a, o, e>> # <<b, x, y>>
      PROVE  FALSE
  <2>1. link'[a][o][e] = link[a][o][e]
    BY <1>0, <1>3
  <2> QED
    BY <2>1
<1>4. ASSUME NEW b \in Assessments, NEW x \in Objectives, NEW y \in Records, link_record(b, x, y)
      PROVE  e \in Records /\ link_record(a, o, e)
  <2>1. link' = [link EXCEPT ![b][x][y] = LiveLink] /\ y \in Evidence
    BY <1>4 DEF link_record, Evidence
  <2>2. <<a, o, e>> = <<b, x, y>>
    BY <1>3, <2>1
  <2> QED
    BY <1>4, <2>2
<1>5. ASSUME NEW b \in Assessments, NEW x \in Objectives, NEW y \in Uploads,
             upload_evidence(b, x, y)
      PROVE  FALSE
  <2>1. /\ link' = [link EXCEPT ![b][x][y] = LiveLink] /\ y \in Evidence
        /\ Fresh(y)
    BY <1>5 DEF upload_evidence, Evidence
  <2>2. e = y
    BY <1>3, <2>1
  <2>3. link[a][o][e] = NoLink
    BY <2>1, <2>2 DEF Fresh
  <2> QED
    BY <2>3, LinkKinds
<1>6. ASSUME NEW b \in Assessments, NEW x \in Objectives, NEW y \in Evidence,
             detach_evidence(b, x, y)
      PROVE  FALSE
  <2> DEFINE off == [cause |-> "detached", by |-> NoProduct]
  <2>1. link' = [link EXCEPT ![b][x][y] = off]
    BY <1>6 DEF detach_evidence
  <2>2. link'[a][o][e] \in {link[a][o][e], off} /\ off.cause = "detached"
    BY <1>0, <2>1
  <2> QED
    BY <2>2
<1>7. ASSUME NEW b \in Assessments, NEW k \in Artifacts, NEW y \in Uploads,
             collect_task_evidence(b, k, y)
      PROVE  FALSE
  <2>1. /\ Fresh(y) /\ y \in Evidence
        /\ link' = [link EXCEPT ![b] = [x \in Objectives |-> [link[b][x] EXCEPT ![y] =
               IF x \in task[b][k].objectives THEN LiveLink ELSE link[b][x][y]]]]
    BY <1>7 DEF collect_task_evidence, Evidence
  <2>2. e # y
    BY <2>1, LinkKinds DEF Fresh
  <2>3. link'[a][o][e] = link[a][o][e]
    BY <1>0, <2>1, <2>2
  <2> QED
    BY <2>3
<1>8. ASSUME NEW b \in Assessments, NEW k \in Artifacts, NEW s, patch_evidence_task(b, k, s)
      PROVE  FALSE
  BY <1>8 DEF patch_evidence_task
<1>9. ASSUME NEW b \in Assessments, NEW x \in Objectives, NEW s, patch_control_state(b, x, s)
      PROVE  FALSE
  BY <1>9 DEF patch_control_state
<1>10. CASE PersonStep
  BY <1>4, <1>5, <1>6, <1>7, <1>8, <1>9, <1>10 DEF PersonStep
<1>11. CASE UNCHANGED vars
  BY <1>11 DEF vars
<1> QED
  BY <1>1, <1>2, <1>10, <1>11 DEF Next

\* ScoreIsPeoples: with any number of assessments, no product's coming, leaving or
\* moving raises a score (recompute_sprs closes every handler, and the engine sets
\* no status but needs_review and pending_evidence).
THEOREM ScoreIsPeoples == Spec => OnlyPeopleRaiseTheScore
<1>1. CovInv /\ [Next]_vars => [\A a \in Assessments :
          (assessment[a].started /\ assessment'[a].score > assessment[a].score) =>
             \E o \in Objectives, s \in PatchStatuses : patch_control_state(a, o, s)]_vars
  BY ScoreStep
<1>2. Init => CovInv
  BY CovInitInv
<1> QED
  BY <1>1, <1>2, CovStep, PTL DEF Spec, OnlyPeopleRaiseTheScore

\* DetachedStays: with any number of assessments, detached evidence comes back by a
\* person's link alone (activate_org_product restores what names the product).
THEOREM DetachedStays == Spec => DetachedStaysDetached
<1>1. CovInv /\ [Next]_vars =>
          [\A a \in Assessments, o \in Objectives, e \in Evidence :
              (link[a][o][e].cause = "detached" /\ link'[a][o][e].cause = "live") =>
                 e \in Records /\ link_record(a, o, e)]_vars
  BY DetachedStep
<1>2. Init => CovInv
  BY CovInitInv
<1> QED
  BY <1>1, <1>2, CovStep, PTL DEF Spec, DetachedStaysDetached

\* PeoplesWorkAlwaysStands: with one assessment, a judgement too is replaced by a
\* person's own edit or by needs_review alone, and only where a product's claim
\* came first, left or changed (contributor_added_status, _remove_contributor,
\* move_org_product_version).
THEOREM PeoplesWorkAlwaysStands == OneAssessment /\ Spec => PeoplesWorkStands
<1>1. CovOneInv /\ [Next]_vars =>
          [\A a \in Assessments, o \in Objectives :
          (/\ state[a][o].status \in JUDGED_STATUSES
           /\ state'[a][o].status # state[a][o].status) =>
             \/ \E s \in PatchStatuses : patch_control_state(a, o, s)
             \/ /\ state'[a][o].status = "needs_review"
                /\ \/ Contributors(a, o) = {}
                   \/ \E p \in Contributors(a, o) :
                         \/ contributor'[a][o][p] = 0
                         \/ contributor'[a][o][p] # contributor[a][o][p]]_vars
  BY JudgementsStep DEF Kept
<1>2. Init => CovOneInv
  BY CovInitInv DEF CovOneInv
<1>3. CASE OneAssessment
  <2>1. CovOneInv /\ [Next]_vars => CovOneInv'
    BY <1>3, CovOneStep
  <2>2. Spec => JudgementsAreKept
    BY <1>1, <1>2, <2>1, PTL DEF Spec, JudgementsAreKept
  <2> QED
    BY <2>2, ScoreIsPeoples, DetachedStays, PTL DEF PeoplesWorkStands
<1>4. CASE ~ OneAssessment
  BY <1>4, PTL
<1> QED
  BY <1>3, <1>4
=============================================================================
