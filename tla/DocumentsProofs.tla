--------------------------- MODULE DocumentsProofs ---------------------------
(***************************************************************************)
(* For any number of versions, objectives, contacts and requests: a        *)
(* document's versions, evidence and links hang together, and what was     *)
(* published stays published, however its requests overlap or one after    *)
(* the other.                                                              *)
(*                                                                         *)
(* DocumentsAreSound is not inductive.  It needs that versions are         *)
(* numbered up to the current one, that evidence, links and the initial    *)
(* approval of a version come and go together, what a request in flight    *)
(* may still rely on of what it read, and, where requests do not overlap,  *)
(* that it may rely on all of it; DocInv says so.                          *)
(*                                                                         *)
(* And for any template, workbook, practices and number of requests:       *)
(* evidence rests on entered rows however requests overlap; one after the  *)
(* other, no import, update, tag removal or link loses a person's entries  *)
(* or leaves evidence without its tag.  What ListsKeepWork needs besides   *)
(* itself is that versions and link rows are only added, so that what a    *)
(* request in flight read is there still, and, where requests do not       *)
(* overlap, that it is all of what there is (ListsInv).                    *)
(***************************************************************************)
EXTENDS Documents, Lists, SetLemmas

Published == {"approved", "superseded"}

\* Versions are numbered from 1 to the current one.
NumberedInv == versions \in [1..current -> VersionRow]

\* A version that was published has its initial approval and its evidence, and
\* a link has been made only to such a version.
RowsInv ==
    /\ initial \subseteq 1..current
    /\ \A v \in DocNumbers :
          /\ evidence[v] \in {0, 1}
          /\ evidence[v] > 0 => v \in initial
          /\ \A o \in Objectives : docLinks[<<v, o>>] # DocNone => evidence[v] > 0
    /\ \A v \in 1..current : Status(v) \in Published => evidence[v] > 0

\* A version starts from an earlier one, without overlap from the one before it.
SaveOrder == \A v \in Saved : versions[v].base < v /\ (~ docOverlap => versions[v].base = v - 1)

\* What still holds of what a request in flight read, whatever the others did:
\* the numbers it read are in use, the version it publishes has no approval yet
\* and the version it links has one.
TxnOK(t) ==
    /\ t.op \in {"idle", "save", "numbered", "status", "publish", "flushed", "delete", "untag",
                 "link"}
    /\ IF t.op = "idle" THEN t = DocIdle ELSE current # 0
    /\ t.op = "save" => t.base \in 1..current
    /\ t.op = "numbered" => t.top \in 1..current /\ t.top < MaxVersions /\ t.base \in 1..t.top
    /\ t.op \in {"status", "publish", "flushed"} => t.version \in 1..current
    /\ t.op = "status" => t.to \in Manual
    /\ t.op \in {"publish", "flushed"} => t.by \in Contacts
    /\ t.op = "flushed" => /\ t.version \notin initial
                           /\ t.tags \in SUBSET Objectives
                           /\ \A v \in t.others : v \in 1..current /\ evidence[v] > 0
    /\ t.op = "untag" => t.objective \in Objectives
    /\ t.op = "link" => /\ t.objective \in Objectives /\ t.version \in initial
                        /\ \A v \in t.old : v \in 1..current /\ evidence[v] > 0

RequestsInv ==
    /\ docTxn = [r \in DocRequests |-> docTxn[r]]
    /\ \A r \in DocRequests : TxnOK(docTxn[r])
    /\ \A q, r \in DocRequests :
          /\ docTxn[q].op = "flushed" /\ docTxn[r].op = "flushed"
          /\ docTxn[q].version = docTxn[r].version
          => q = r

\* What a request alone may rely on: all of what it read.
Fresh(t) ==
    /\ t.op = "save" => t.base = current
    /\ t.op = "numbered" => t.top = current /\ t.base = t.top
    /\ t.op \in {"status", "publish", "flushed"} => Status(t.version) \in Manual
    /\ t.op = "flushed" => t.tags = tags /\ t.others = Approved
    /\ t.op = "untag" => DocLiveAt(t.objective) = {}
    /\ t.op = "link" => /\ t.objective \in tags /\ t.version \in Approved
                        /\ t.old = DocLiveAt(t.objective)

OneApproved == \A v, w \in Approved : v = w

LinksRest ==
    \A o \in Objectives :
        /\ DocLiveAt(o) # {} => o \in tags
        /\ \A v \in DocLiveAt(o) : Status(v) \in Published
        /\ \A v, w \in DocLiveAt(o) : v = w

\* Without overlap one request at most is in flight, one version at most is
\* approved, and an objective's live link is the only one, on a published
\* version, and tagged.
AloneInv ==
    ~ docOverlap =>
        /\ \A q, r \in DocRequests : docTxn[q] # DocIdle /\ docTxn[r] # DocIdle => q = r
        /\ \A r \in DocRequests : Fresh(docTxn[r])
        /\ OneApproved
        /\ LinksRest

OpsKnown ==
    \A r \in DocRequests :
        docTxn[r].op \in {"idle", "save", "numbered", "status", "publish", "flushed", "delete",
                         "untag", "link"}

\* What is left once a request has ended or taken its only step: the others,
\* and without overlap none.
Ended ==
    /\ RequestsInv
    /\ ~ docOverlap => \A q \in DocRequests : docTxn[q] = DocIdle
    /\ OpsKnown

DocInv ==
    /\ DocTypeOK
    /\ NumberedInv
    /\ RowsInv
    /\ SaveOrder
    /\ RequestsInv
    /\ AloneInv

-----------------------------------------------------------------------------
(* Rows and requests.                                                      *)

\* The versions saved, and the highest number among them.
LEMMA SavedNumbers ==
    ASSUME DocTypeOK, NumberedInv
    PROVE  /\ current \in 0..MaxVersions
           /\ Saved = 1..current /\ Saved \subseteq DocNumbers
           /\ Top = current
           /\ \A v \in Saved : versions[v] \in VersionRow
           /\ Approved \subseteq Saved
<1>1. current \in 0..MaxVersions /\ MaxVersions \in Nat
  BY DocumentsAssumption DEF DocTypeOK
<1>2. Saved = 1..current
  BY DEF NumberedInv, Saved
<1>3. Cardinality(1..current) = current
  BY <1>1, FS_Interval
<1> QED
  BY <1>1, <1>2, <1>3 DEF Top, DocNumbers, NumberedInv, Approved

\* A request that stands where it stood still has what it may rely on, as long
\* as numbers stay in use and approvals and evidence are only added.
LEMMA StillOK ==
    ASSUME DocTypeOK, NEW r \in DocRequests, TxnOK(docTxn[r]), docTxn'[r] = docTxn[r],
           current' \in Nat, current <= current', initial \subseteq initial',
           docTxn[r].op = "flushed" => docTxn[r].version \notin initial',
           \A v \in 1..current : evidence[v] > 0 => evidence'[v] > 0
    PROVE  TxnOK(docTxn[r])'
<1>1. current \in Nat
  BY DocumentsAssumption DEF DocTypeOK
<1>2. 1..current \subseteq 1..current'
  BY <1>1
<1> QED
  BY <1>1, <1>2 DEF TxnOK

\* A request not in flight relies on nothing.
LEMMA IdleOK == TxnOK(DocIdle) /\ Fresh(DocIdle)
BY DEF TxnOK, Fresh, DocIdle

\* A request that begins: t is what it read.
LEMMA BeginStep ==
    ASSUME DocInv, NEW r \in DocRequests, NEW t, DocStart(r, t),
           UNCHANGED <<docRows, digest, now, docOverlap>>,
           TxnOK(t), t.op # "flushed", ~ docOverlap => Fresh(t)
    PROVE  DocInv'
<1> USE DEF DocInv, OpsKnown
<1>1. /\ docTxn' = [docTxn EXCEPT ![r] = t] /\ docTxn[r] = DocIdle
      /\ docOverlap \/ \A q \in DocRequests : docTxn[q] = DocIdle
  BY DEF DocStart, DocReady
<1>2. docTxn'[r] = t /\ \A q \in DocRequests : q # r => docTxn'[q] = docTxn[q]
  BY <1>1 DEF RequestsInv
<1>3. UNCHANGED <<current, cadence, versions, tags, initial, latest, evidence, docLinks,
                  digest, now, docOverlap>>
  BY DEF docRows
<1>4. RequestsInv'
  <2>1. docTxn' = [q \in DocRequests |-> docTxn'[q]]
    BY <1>1 DEF RequestsInv
  <2>2. \A q \in DocRequests : TxnOK(docTxn[q])'
    BY <1>2, <1>3 DEF RequestsInv, TxnOK
  <2>3. \A q \in DocRequests : docTxn'[q].op = "flushed" => q # r
    BY <1>2
  <2> QED
    BY <1>2, <2>1, <2>2, <2>3 DEF RequestsInv
<1>5. DocTypeOK'
  <2>1. OpsKnown'
    BY <1>4 DEF RequestsInv, TxnOK
  <2> QED
    BY <1>3, <2>1 DEF DocTypeOK
<1>6. NumberedInv' /\ RowsInv' /\ SaveOrder'
  BY <1>3 DEF NumberedInv, RowsInv, SaveOrder, Saved, Status
<1>7. AloneInv'
  <2> SUFFICES ASSUME ~ docOverlap PROVE AloneInv'
    BY <1>3 DEF AloneInv
  <2>1. \A q \in DocRequests : q # r => docTxn'[q] = DocIdle
    BY <1>1, <1>2
  <2>2. Fresh(t)'
    BY <1>3 DEF Fresh, Status, DocLiveAt, Approved, Saved
  <2>3. \A q \in DocRequests : Fresh(docTxn[q])'
    BY <1>2, <2>1, <2>2 DEF Fresh, DocIdle
  <2> QED
    BY <1>3, <2>1, <2>3
    DEF AloneInv, OneApproved, LinksRest, Approved, Saved, Status, DocLiveAt
<1> QED
  BY <1>4, <1>5, <1>6, <1>7

-----------------------------------------------------------------------------
(* Initial states, and each operation.                                     *)

\* Before the first document.
LEMMA InitInv == DocInit => DocInv
<1> SUFFICES ASSUME DocInit PROVE DocInv
  OBVIOUS
<1> USE DEF DocInit
<1>1. DocTypeOK
  <2>1. versions \in [1..0 -> VersionRow] /\ 0 \in 0..MaxVersions
    BY DocumentsAssumption
  <2>2. /\ evidence \in [DocNumbers -> 0..2]
        /\ digest \in [Contacts -> DigestOutcome]
        /\ now \in 0..MaxTime
    BY DocumentsAssumption DEF DigestOutcome
  <2>3. docLinks \in [DocNumbers \X Objectives -> LinkState]
    BY DEF LinkState
  <2>4. \A r \in DocRequests : docTxn[r].op = "idle"
    BY DEF DocIdle
  <2> QED
    BY <2>1, <2>2, <2>3, <2>4, DocumentsAssumption DEF DocTypeOK, DocIdle, LinkState, DigestOutcome
<1>2. NumberedInv
  BY DEF NumberedInv
<1>3. RowsInv
  <2>1. \A v \in DocNumbers, o \in Objectives : docLinks[<<v, o>>] = DocNone
    OBVIOUS
  <2>2. 1..current = {} /\ initial = {}
    OBVIOUS
  <2>3. \A v \in DocNumbers : evidence[v] = 0
    OBVIOUS
  <2> HIDE DEF DocInit
  <2> QED
    BY <2>1, <2>2, <2>3 DEF RowsInv
<1>4. SaveOrder
  BY DEF SaveOrder, Saved
<1>5. RequestsInv
  BY IdleOK DEF RequestsInv, DocIdle
<1>6. AloneInv
  BY IdleOK DEF AloneInv, OneApproved, LinksRest, Approved, Saved, DocLiveAt
<1> QED
  BY <1>1, <1>2, <1>3, <1>4, <1>5, <1>6 DEF DocInv

\* The requests that read first: what each read holds when it begins.
LEMMA BeginInv ==
    ASSUME DocInv, NEW r \in DocRequests,
           \/ DeleteBegin(r)
           \/ \E base \in DocNumbers : SaveBegin(r, base)
           \/ \E s \in Manual : StatusBegin(r, s)
           \/ \E o \in Objectives : DocRemoveTagBegin(r, o)
           \/ \E c \in Contacts : PublishBegin(r, c)
           \/ \E o \in Objectives : DocLinkBegin(r, o) \/ DocMoveForwardBegin(r, o)
    PROVE  DocInv'
<1>1. /\ Saved = 1..current /\ Top = current /\ current \in 0..MaxVersions
      /\ Saved \subseteq DocNumbers
  BY SavedNumbers DEF DocInv
<1>2. CASE DeleteBegin(r)
  <2>1. TxnOK([op |-> "delete"]) /\ Fresh([op |-> "delete"])
    BY <1>2 DEF DeleteBegin, Exists, TxnOK, Fresh
  <2> QED
    BY <1>2, <2>1, BeginStep DEF DeleteBegin
<1>3. ASSUME NEW base \in DocNumbers, SaveBegin(r, base) PROVE DocInv'
  <2> DEFINE t == [op |-> "save", base |-> base]
  <2>1. current \in Nat /\ current # 0 /\ base = current
    BY <1>1, <1>3, DocumentsAssumption DEF SaveBegin, Exists
  <2>2. TxnOK(t) /\ Fresh(t)
    BY <1>1, <2>1 DEF TxnOK, Fresh
  <2> QED
    BY <1>3, <2>2, BeginStep DEF SaveBegin
<1>4. ASSUME NEW s \in Manual, StatusBegin(r, s) PROVE DocInv'
  <2> DEFINE t == [op |-> "status", version |-> current, to |-> s]
  <2>1. TxnOK(t) /\ Fresh(t)
    BY <1>1, <1>4 DEF StatusBegin, Exists, TxnOK, Fresh
  <2> QED
    BY <1>4, <2>1, BeginStep DEF StatusBegin
<1>5. ASSUME NEW o \in Objectives, DocRemoveTagBegin(r, o) PROVE DocInv'
  <2> DEFINE t == [op |-> "untag", objective |-> o]
  <2>1. TxnOK(t) /\ Fresh(t)
    BY <1>5 DEF DocRemoveTagBegin, RestingLinks, Exists, TxnOK, Fresh
  <2> QED
    BY <1>5, <2>1, BeginStep DEF DocRemoveTagBegin
<1>6. ASSUME NEW c \in Contacts, PublishBegin(r, c) PROVE DocInv'
  <2> DEFINE t == [op |-> "publish", version |-> current, by |-> c]
  <2>1. TxnOK(t) /\ Fresh(t)
    BY <1>1, <1>6 DEF PublishBegin, Exists, TxnOK, Fresh
  <2> QED
    BY <1>6, <2>1, BeginStep DEF PublishBegin
<1>7. ASSUME NEW o \in Objectives, DocLinkBegin(r, o) \/ DocMoveForwardBegin(r, o)
      PROVE  DocInv'
  <2> DEFINE t == [op |-> "link", objective |-> o, version |-> OfferedVersion,
                   old |-> DocLiveAt(o)]
  <2>1. DocOffered(o) /\ DocStart(r, t) /\ UNCHANGED <<docRows, digest, now, docOverlap>>
    BY <1>7 DEF DocLinkBegin, DocMoveForwardBegin
  <2>2. OfferedVersion \in Approved
    <3>1. Approved \in SUBSET Int /\ Approved # {} /\ IsFiniteSet(Approved)
      <4>1. Approved \in SUBSET (1..current)
        BY <1>1 DEF Approved
      <4>2. IsFiniteSet(1..current)
        BY <1>1, FS_Interval
      <4>3. IsFiniteSet(Approved)
        BY <4>1, <4>2, FS_Subset
      <4> QED
        BY <2>1, <4>1, <4>3 DEF DocOffered
    <3> QED
      BY <3>1, MaxIsAMember DEF OfferedVersion
  <2>3. OfferedVersion \in initial
    BY <2>2, <1>1 DEF DocInv, RowsInv, Approved, Published
  <2>4. \A v \in DocLiveAt(o) : v \in 1..current /\ evidence[v] > 0
    BY <1>1 DEF DocInv, RowsInv, DocLiveAt, DocNone
  <2>5. TxnOK(t) /\ Fresh(t)
    <3>1. /\ t.op = "link" /\ t.objective = o /\ t.version = OfferedVersion
          /\ t.old = DocLiveAt(o)
      OBVIOUS
    <3> HIDE DEF t
    <3> QED
      BY <2>1, <2>2, <2>3, <2>4, <3>1 DEF DocOffered, Exists, TxnOK, Fresh
  <2> QED
    BY <2>1, <2>5, BeginStep
<1> QED
  BY <1>2, <1>3, <1>4, <1>5, <1>6, <1>7

\* Without overlap nothing is in flight after such a step, and the rows are all
\* that is left to look at.
LEMMA AllIdle ==
    ASSUME Ended', ~ docOverlap, UNCHANGED docOverlap, OneApproved', LinksRest'
    PROVE  AloneInv'
<1>1. \A q \in DocRequests : docTxn'[q] = DocIdle
  BY DEF Ended
<1> QED
  BY <1>1, IdleOK DEF AloneInv, Fresh, DocIdle

\* A request ends: the others keep what they rely on, and without overlap there
\* are none.
LEMMA EndStep ==
    ASSUME DocInv, NEW r \in DocRequests, docTxn[r] # DocIdle, DocDone(r),
           UNCHANGED docOverlap,
           current' \in Nat, current <= current', initial \subseteq initial',
           \A q \in DocRequests : q # r /\ docTxn[q].op = "flushed"
                                    => docTxn[q].version \notin initial',
           \A v \in 1..current : evidence[v] > 0 => evidence'[v] > 0
    PROVE  Ended'
<1> USE DEF DocInv
<1>1. docTxn' = [docTxn EXCEPT ![r] = DocIdle]
  BY DEF DocDone
<1>2. docTxn'[r] = DocIdle /\ \A q \in DocRequests : q # r => docTxn'[q] = docTxn[q]
  BY <1>1 DEF RequestsInv
<1>3. \A q \in DocRequests : TxnOK(docTxn[q])'
  <2> SUFFICES ASSUME NEW q \in DocRequests PROVE TxnOK(docTxn[q])'
    OBVIOUS
  <2>1. CASE q = r
    BY <2>1, <1>2 DEF TxnOK, DocIdle
  <2>2. CASE q # r
    BY <2>2, <1>2, StillOK DEF RequestsInv
  <2> QED
    BY <2>1, <2>2
<1>4. RequestsInv'
  <2>1. docTxn' = [q \in DocRequests |-> docTxn'[q]]
    BY <1>1 DEF RequestsInv
  <2>2. docTxn'[r].op # "flushed"
    BY <1>2 DEF DocIdle
  <2> QED
    BY <1>2, <1>3, <2>1, <2>2 DEF RequestsInv
<1>5. ~ docOverlap => \A q \in DocRequests : docTxn'[q] = DocIdle
  BY <1>2 DEF AloneInv
<1>6. OpsKnown'
  BY <1>3 DEF TxnOK, OpsKnown
<1> QED
  BY <1>4, <1>5, <1>6 DEF Ended

\* A request that takes one step: the others keep what they rely on, and
\* without overlap there are none.
LEMMA WholeStep ==
    ASSUME DocInv, DocReady, UNCHANGED <<docTxn, docOverlap>>,
           current' \in Nat, current <= current', initial' = initial,
           \A v \in 1..current : evidence[v] > 0 => evidence'[v] > 0
    PROVE  Ended'
<1> USE DEF DocInv
<1>1. \A q \in DocRequests : TxnOK(docTxn[q])'
  <2> SUFFICES ASSUME NEW q \in DocRequests PROVE TxnOK(docTxn[q])'
    OBVIOUS
  <2>1. docTxn[q].op = "flushed" => docTxn[q].version \notin initial'
    BY DEF RequestsInv, TxnOK
  <2> QED
    BY <2>1, StillOK DEF RequestsInv
<1>2. RequestsInv'
  BY <1>1 DEF RequestsInv
<1>3. ~ docOverlap => \A q \in DocRequests : docTxn'[q] = DocIdle
  BY DEF DocReady
<1> QED
  BY <1>1, <1>2, <1>3 DEF TxnOK, Ended, OpsKnown

\* A document is created with its first draft.
LEMMA CreateInv ==
    ASSUME DocInv, NEW n \in Cadences, CreateDocument(n)
    PROVE  DocInv'
<1> USE DEF DocInv
<1> DEFINE first == [status |-> "draft", base |-> 0, published |-> {}]
<1>1. /\ current = 0 /\ current' = 1 /\ cadence' = n /\ DocReady
      /\ versions' = <<first>>
      /\ UNCHANGED <<tags, initial, latest, evidence, docLinks, digest, docTxn, now, docOverlap>>
  BY DEF CreateDocument, Exists
<1>2. Saved = {} /\ MaxVersions \in Nat \ {0}
  BY <1>1, SavedNumbers, DocumentsAssumption
<1>3. versions' \in [1..1 -> VersionRow] /\ versions'[1] = first /\ Saved' = {1}
  <2>1. first \in VersionRow
    BY <1>2 DEF VersionRow, Statuses
  <2>2. 0 \in 0..MaxVersions
    BY <1>2
  <2>3. <<first>> = [v \in 1..1 |-> first]
    OBVIOUS
  <2> HIDE DEF first
  <2> QED
    BY <1>1, <2>1, <2>3 DEF Saved
<1>4. Ended'
  BY <1>1, WholeStep
<1>5. DocTypeOK'
  <2>1. 1 \in 0..MaxVersions /\ n # 0
    BY <1>2, DocumentsAssumption
  <2> QED
    BY <1>1, <1>3, <1>4, <2>1 DEF DocTypeOK, Ended, OpsKnown
<1>6. NumberedInv'
  BY <1>1, <1>3 DEF NumberedInv
<1>7. \A v \in DocNumbers : evidence[v] = 0 /\ \A o \in Objectives : docLinks[<<v, o>>] = DocNone
  <2>1. initial = {}
    BY <1>1 DEF RowsInv
  <2> QED
    BY <2>1 DEF RowsInv
<1>8. RowsInv'
  <2>1. \A v \in 1..1 : Status(v)' \notin Published
    BY <1>3 DEF Status, Published
  <2> QED
    BY <1>1, <2>1 DEF RowsInv
<1>9. SaveOrder'
  BY <1>3 DEF SaveOrder
<1>10. AloneInv'
  <2> SUFFICES ASSUME ~ docOverlap PROVE AloneInv'
    BY <1>1 DEF AloneInv
  <2>1. OneApproved'
    BY <1>3 DEF OneApproved, Approved, Status
  <2>2. LinksRest'
    <3>1. 1 \in DocNumbers
      BY <1>2 DEF DocNumbers
    <3>2. \A o \in Objectives : DocLiveAt(o)' = {}
      BY <1>1, <1>3, <1>7, <3>1 DEF DocLiveAt, DocNone
    <3> QED
      BY <3>2 DEF LinksRest
  <2> QED
    BY <1>1, <1>4, <2>1, <2>2, AllIdle
<1> QED
  BY <1>4, <1>5, <1>6, <1>8, <1>9, <1>10 DEF Ended

\* A change of cadence, the clock and the digest leave the rows alone.
LEMMA QuietInv ==
    ASSUME DocInv, \/ \E n \in Cadences : PatchDocument(n)
                   \/ \E sent \in SUBSET Contacts : Digest(sent)
                   \/ Tick
    PROVE  DocInv'
<1> USE DEF DocInv
<1>1. UNCHANGED <<current, versions, tags, initial, latest, evidence, docLinks, docTxn, docOverlap>>
  BY DEF PatchDocument, Digest, Tick, docRows
<1>2. DocTypeOK'
  <2>1. CASE \E n \in Cadences : PatchDocument(n)
    BY <2>1, <1>1 DEF PatchDocument, Exists, DocTypeOK
  <2>2. ASSUME NEW sent \in SUBSET Contacts, Digest(sent) PROVE DocTypeOK'
    BY <2>2, <1>1 DEF Digest, docRows, DocTypeOK, DigestOutcome
  <2>3. CASE Tick
    <3>1. now \in 0..MaxTime /\ now < MaxTime /\ now' = now + 1
          /\ UNCHANGED <<docRows, digest>>
      BY <2>3 DEF Tick, DocTypeOK
    <3>2. now' \in 0..MaxTime
      BY <3>1, DocumentsAssumption
    <3> QED
      BY <1>1, <3>1, <3>2 DEF docRows, DocTypeOK
  <2> QED
    BY <2>1, <2>2, <2>3
<1>3. NumberedInv' /\ RowsInv' /\ SaveOrder' /\ RequestsInv'
  BY <1>1 DEF NumberedInv, RowsInv, SaveOrder, Saved, Status, RequestsInv, TxnOK
<1>4. AloneInv'
  BY <1>1 DEF AloneInv, Fresh, OneApproved, LinksRest, Approved, Saved, Status, DocLiveAt
<1> QED
  BY <1>2, <1>3, <1>4 DEF Ended

\* The newest approval's row has the type of one.
LEMMA LatestOK ==
    ASSUME DocTypeOK, NEW c \in Contacts, NEW a \in LatestAfter(c)
    PROVE  a \in {{}} \cup {{x} : x \in ApprovalRow}
<1>1. [at |-> now, by |-> c] \in ApprovalRow
  BY DEF DocTypeOK, ApprovalRow
<1>2. \A x \in latest : x \in ApprovalRow
  BY DEF DocTypeOK
<1> QED
  BY <1>1, <1>2 DEF LatestAfter

\* A document is deleted, with everything below it, or kept for its evidence.
LEMMA DeleteInv ==
    ASSUME DocInv, NEW r \in DocRequests, DeleteCommit(r)
    PROVE  DocInv'
<1> USE DEF DocInv
<1>1. docTxn[r].op = "delete" /\ docTxn[r] # DocIdle
  BY DEF DeleteCommit, DocIdle
<1>2. UNCHANGED <<digest, now, docOverlap>>
  BY DEF DeleteCommit
<1>3. CASE \E v \in Saved : evidence[v] > 0
  <2>1. DocDone(r) /\ UNCHANGED <<current, cadence, versions, tags, initial, latest,
                                  evidence, docLinks>>
    BY <1>3 DEF DeleteCommit, docRows
  <2>2. Ended'
    <3>1. current \in Nat
      BY DocumentsAssumption DEF DocTypeOK
    <3>2. \A q \in DocRequests : docTxn[q].op = "flushed" => docTxn[q].version \notin initial'
      BY <2>1 DEF RequestsInv, TxnOK
    <3> QED
      BY <1>1, <1>2, <2>1, <3>1, <3>2, EndStep
  <2>3. DocTypeOK'
    BY <1>2, <2>1, <2>2 DEF DocTypeOK, Ended, OpsKnown
  <2>4. NumberedInv' /\ RowsInv' /\ SaveOrder'
    BY <1>2, <2>1 DEF NumberedInv, RowsInv, SaveOrder, Saved, Status
  <2>5. AloneInv'
    <3> SUFFICES ASSUME ~ docOverlap PROVE AloneInv'
      BY <1>2 DEF AloneInv
    <3>1. OneApproved' /\ LinksRest'
      BY <2>1 DEF AloneInv, OneApproved, LinksRest, Approved, Saved, Status, DocLiveAt
    <3> QED
      BY <1>2, <2>2, <3>1, AllIdle
  <2> QED
    BY <2>2, <2>3, <2>4, <2>5 DEF Ended
<1>4. CASE ~ \E v \in Saved : evidence[v] > 0
  <2>1. /\ current' = 0 /\ cadence' = 0 /\ versions' = <<>>
        /\ tags' = {} /\ initial' = {} /\ latest' = {}
        /\ docTxn' = [q \in DocRequests |-> DocIdle]
        /\ UNCHANGED <<evidence, docLinks>>
    BY <1>4 DEF DeleteCommit
  <2>2. \A q \in DocRequests : docTxn'[q] = DocIdle
    BY <2>1
  <2>3. /\ versions' \in [1..0 -> VersionRow] /\ DOMAIN versions' = {} /\ 0 \in 0..MaxVersions
    BY <2>1, DocumentsAssumption
  <2>4. \A v \in DocNumbers : evidence[v] = 0
    <3>1. \A v \in Saved : ~ (evidence[v] > 0)
      BY <1>4
    <3>2. initial \subseteq Saved
      BY SavedNumbers DEF RowsInv
    <3>3. \A v \in DocNumbers : evidence[v] \in {0, 1} /\ (evidence[v] > 0 => v \in initial)
      BY DEF RowsInv
    <3> QED
      BY <3>1, <3>2, <3>3
  <2>5. \A v \in DocNumbers, o \in Objectives : docLinks[<<v, o>>] = DocNone
    <3>1. \A v \in DocNumbers : ~ (evidence[v] > 0)
      BY <2>4
    <3> QED
      BY <3>1 DEF RowsInv
  <2>6. DocTypeOK'
    BY <1>2, <2>1, <2>2, <2>3 DEF DocTypeOK, DocIdle
  <2>7. NumberedInv'
    BY <2>1, <2>3 DEF NumberedInv
  <2>8. RowsInv'
    BY <2>1, <2>4, <2>5 DEF RowsInv
  <2>9. SaveOrder'
    BY <2>3 DEF SaveOrder, Saved
  <2>10. RequestsInv'
    <3>1. \A q \in DocRequests : TxnOK(docTxn[q])'
      BY <2>2 DEF TxnOK, DocIdle
    <3>2. \A q \in DocRequests : docTxn'[q].op # "flushed"
      BY <2>2 DEF DocIdle
    <3> QED
      BY <2>1, <3>1, <3>2 DEF RequestsInv
  <2>11. AloneInv'
    <3>1. Saved' = {}
      BY <2>3 DEF Saved
    <3>2. OneApproved' /\ LinksRest'
      BY <3>1 DEF OneApproved, LinksRest, Approved, DocLiveAt
    <3>3. Ended'
      BY <2>2, <2>10 DEF Ended, OpsKnown, DocIdle
    <3>4. CASE docOverlap
      BY <3>4, <1>2 DEF AloneInv
    <3>5. CASE ~ docOverlap
      BY <3>5, <1>2, <3>2, <3>3, AllIdle
    <3> QED
      BY <3>4, <3>5
  <2> QED
    BY <2>6, <2>7, <2>8, <2>9, <2>10, <2>11
<1> QED
  BY <1>3, <1>4 DEF Ended

\* A save reads the highest number, and starts from no later one.
LEMMA NumberInv ==
    ASSUME DocInv, NEW r \in DocRequests, SaveNumber(r)
    PROVE  DocInv'
<1> USE DEF DocInv
<1> DEFINE t == docTxn[r]
           u == [op |-> "numbered", base |-> t.base, top |-> Top]
<1>1. /\ t.op = "save" /\ t # DocIdle /\ DocRoom
      /\ docTxn' = [docTxn EXCEPT ![r] = u]
      /\ UNCHANGED <<current, cadence, versions, tags, initial, latest, evidence, docLinks,
                     digest, now, docOverlap>>
  BY DEF SaveNumber, docRows, DocIdle
<1>2. docTxn'[r] = u /\ \A q \in DocRequests : q # r => docTxn'[q] = docTxn[q]
  BY <1>1 DEF RequestsInv
<1>3. /\ Top = current /\ current \in Nat /\ current < MaxVersions
      /\ t.base \in 1..current /\ current # 0
  <2>1. Top = current /\ current \in 0..MaxVersions
    BY SavedNumbers
  <2>2. t.base \in 1..current
    BY <1>1 DEF RequestsInv, TxnOK
  <2> HIDE DEF DocInv
  <2> QED
    BY <1>1, <2>1, <2>2, DocumentsAssumption DEF DocRoom
<1>4. /\ u.op = "numbered" /\ u.top = current /\ u.base = t.base
  BY <1>3
<1> HIDE DEF u
<1>5. \A q \in DocRequests : TxnOK(docTxn[q])'
  <2> SUFFICES ASSUME NEW q \in DocRequests PROVE TxnOK(docTxn[q])'
    OBVIOUS
  <2>1. CASE q = r
    BY <2>1, <1>1, <1>2, <1>3, <1>4 DEF TxnOK
  <2>2. CASE q # r
    BY <2>2, <1>1, <1>2 DEF RequestsInv, TxnOK
  <2> QED
    BY <2>1, <2>2
<1>6. RequestsInv'
  <2>1. docTxn' = [q \in DocRequests |-> docTxn'[q]]
    BY <1>1 DEF RequestsInv
  <2>2. \A q \in DocRequests : docTxn'[q].op = "flushed" => q # r
    BY <1>2, <1>4
  <2> QED
    BY <1>2, <1>5, <2>1, <2>2 DEF RequestsInv
<1>7. DocTypeOK'
  <2>1. OpsKnown'
    BY <1>5 DEF TxnOK, OpsKnown
  <2> QED
    BY <1>1, <2>1 DEF DocTypeOK, OpsKnown
<1>8. NumberedInv' /\ RowsInv' /\ SaveOrder'
  BY <1>1 DEF NumberedInv, RowsInv, SaveOrder, Saved, Status
<1>9. AloneInv'
  <2> SUFFICES ASSUME ~ docOverlap PROVE AloneInv'
    BY <1>1 DEF AloneInv
  <2>1. \A q \in DocRequests : q # r => docTxn'[q] = DocIdle
    BY <1>1, <1>2 DEF AloneInv
  <2>2. t.base = current
    BY <1>1 DEF AloneInv, Fresh
  <2>3. Fresh(docTxn[r])'
    BY <1>1, <1>2, <1>4, <2>2 DEF Fresh
  <2>4. \A q \in DocRequests : Fresh(docTxn[q])'
    BY <2>1, <2>3, IdleOK DEF Fresh, DocIdle
  <2>5. OneApproved' /\ LinksRest'
    BY <1>1 DEF AloneInv, OneApproved, LinksRest, Approved, Saved, Status, DocLiveAt
  <2> QED
    BY <2>1, <2>4, <2>5 DEF AloneInv
<1> QED
  BY <1>6, <1>7, <1>8, <1>9

\* A version is saved, or its number is taken and nothing is.
LEMMA SaveInv ==
    ASSUME DocInv, NEW r \in DocRequests, SaveCommit(r)
    PROVE  DocInv'
<1> USE DEF DocInv
<1> DEFINE t == docTxn[r]
           n == t.top + 1
           draft == [status |-> "draft", base |-> t.base, published |-> {}]
<1>1. /\ t.op = "numbered" /\ t # DocIdle /\ DocDone(r)
      /\ UNCHANGED <<cadence, tags, initial, latest, evidence, docLinks, digest, now, docOverlap>>
  BY DEF SaveCommit, DocIdle
<1>2. /\ t.top \in 1..current /\ t.top < MaxVersions /\ t.base \in 1..t.top
      /\ ~ docOverlap => t.base = t.top
  BY <1>1 DEF RequestsInv, TxnOK, AloneInv, Fresh
<1>3. /\ current \in Nat /\ current \in 0..MaxVersions /\ Saved = 1..current
      /\ MaxVersions \in Nat /\ \A v \in Saved : versions[v] \in VersionRow
  BY SavedNumbers, DocumentsAssumption
<1>4. \/ UNCHANGED <<current, versions>>
      \/ /\ t.top = current /\ current' = current + 1
         /\ versions' = [v \in 1..(current + 1) |-> IF v = current + 1 THEN draft
                                                    ELSE versions[v]]
  <2>1. CASE n \in Saved
    BY <2>1 DEF SaveCommit
  <2>2. CASE n \notin Saved
    <3>1. t.top = current
      BY <1>2, <1>3, <2>2
    <3> QED
      BY <2>2, <3>1 DEF SaveCommit
  <2> QED
    BY <2>1, <2>2
<1>5. draft \in VersionRow
  BY <1>2, <1>3 DEF VersionRow, Statuses
<1>6. /\ current' \in 0..MaxVersions /\ current' \in Nat /\ current <= current'
      /\ current # 0 /\ current' # 0
      /\ versions' \in [1..current' -> VersionRow]
      /\ \A v \in 1..current : versions'[v] = versions[v]
      /\ \A v \in 1..current' : v \notin 1..current => versions'[v] = draft /\ v = current + 1
                                                       /\ t.top = current
  <2>1. CASE UNCHANGED <<current, versions>>
    BY <1>2, <1>3, <2>1 DEF NumberedInv
  <2>2. CASE /\ t.top = current /\ current' = current + 1
             /\ versions' = [v \in 1..(current + 1) |-> IF v = current + 1 THEN draft
                                                        ELSE versions[v]]
    <3> HIDE DEF draft
    <3>1. \A v \in 1..(current + 1) : v # current + 1 => v \in 1..current
      BY <1>3
    <3>2. versions' \in [1..current' -> VersionRow]
      BY <1>3, <1>5, <2>2, <3>1
    <3> QED
      BY <1>2, <1>3, <2>2, <3>1, <3>2
  <2> QED
    BY <1>4, <2>1, <2>2
<1>7. Saved' = 1..current'
  BY <1>6 DEF Saved
<1>8. Ended'
  <2>1. \A q \in DocRequests : docTxn[q].op = "flushed" => docTxn[q].version \notin initial'
    BY <1>1 DEF RequestsInv, TxnOK
  <2> QED
    BY <1>1, <1>6, <2>1, EndStep
<1>9. DocTypeOK'
  BY <1>1, <1>6, <1>8 DEF DocTypeOK, Ended, OpsKnown
<1>10. NumberedInv'
  BY <1>6 DEF NumberedInv
<1>11. RowsInv'
  <2>1. initial' \subseteq 1..current'
    BY <1>1, <1>3, <1>6 DEF RowsInv
  <2>2. \A v \in 1..current' : Status(v)' \in Published => evidence'[v] > 0
    <3> SUFFICES ASSUME NEW v \in 1..current', versions'[v].status \in Published
                 PROVE  evidence'[v] > 0
      BY DEF Status
    <3>1. v \in 1..current
      BY <1>6 DEF Published
    <3>2. versions[v].status \in Published
      BY <1>6, <3>1
    <3> QED
      BY <1>1, <3>1, <3>2 DEF RowsInv, Status
  <2> QED
    BY <1>1, <2>1, <2>2 DEF RowsInv
<1>12. SaveOrder'
  <2> SUFFICES ASSUME NEW v \in 1..current'
               PROVE  /\ versions'[v].base < v
                      /\ ~ docOverlap => versions'[v].base = v - 1
    BY <1>1, <1>7 DEF SaveOrder
  <2>1. CASE v \in 1..current
    BY <1>3, <1>6, <2>1 DEF SaveOrder
  <2>2. CASE v \notin 1..current
    BY <1>2, <1>3, <1>6, <2>2
  <2> QED
    BY <2>1, <2>2
<1>13. AloneInv'
  <2> SUFFICES ASSUME ~ docOverlap PROVE AloneInv'
    BY <1>1 DEF AloneInv
  <2>1. Approved' = Approved
    <3>1. \A v \in 1..current' : versions'[v].status = "approved" =>
                                    v \in 1..current /\ versions[v].status = "approved"
      BY <1>6
    <3>2. \A v \in 1..current : v \in 1..current'
      BY <1>3, <1>6
    <3> QED
      BY <1>3, <1>6, <1>7, <3>1, <3>2 DEF Approved, Status
  <2>2. \A o \in Objectives : DocLiveAt(o)' = DocLiveAt(o)
    <3> SUFFICES ASSUME NEW o \in Objectives PROVE DocLiveAt(o)' = DocLiveAt(o)
      OBVIOUS
    <3>1. \A v \in 1..current' : docLinks[<<v, o>>] = "live" => v \in 1..current
      <4> SUFFICES ASSUME NEW v \in 1..current', docLinks[<<v, o>>] = "live"
                   PROVE  v \in 1..current
        OBVIOUS
      <4>1. v \in DocNumbers
        BY <1>3, <1>6 DEF DocNumbers
      <4>2. v \in initial
        BY <4>1 DEF RowsInv, DocNone
      <4> QED
        BY <4>2 DEF RowsInv
    <3>2. \A v \in 1..current : v \in 1..current'
      BY <1>3, <1>6
    <3> QED
      BY <1>1, <1>3, <1>7, <3>1, <3>2 DEF DocLiveAt
  <2>3. OneApproved'
    BY <2>1 DEF AloneInv, OneApproved
  <2>4. LinksRest'
    <3>1. \A o \in Objectives : \A v \in DocLiveAt(o) : Status(v)' = Status(v)
      BY <1>3, <1>6 DEF DocLiveAt, Status
    <3> QED
      BY <1>1, <2>2, <3>1 DEF AloneInv, LinksRest
  <2> QED
    BY <1>1, <1>8, <2>3, <2>4, AllIdle
<1> QED
  BY <1>8, <1>9, <1>10, <1>11, <1>12, <1>13 DEF Ended

\* A status set by hand is written, whatever the version has become.
LEMMA StatusInv ==
    ASSUME DocInv, NEW r \in DocRequests, StatusCommit(r)
    PROVE  DocInv'
<1> USE DEF DocInv
<1> DEFINE n == docTxn[r].version
           s == docTxn[r].to
<1>1. /\ docTxn[r].op = "status" /\ docTxn[r] # DocIdle /\ DocDone(r)
      /\ versions' = [versions EXCEPT ![n].status = s]
      /\ UNCHANGED <<current, cadence, tags, initial, latest, evidence, docLinks, digest,
                     now, docOverlap>>
  BY DEF StatusCommit, DocIdle
<1>2. n \in 1..current /\ s \in Manual
  BY <1>1 DEF RequestsInv, TxnOK
<1>3. /\ current \in Nat /\ Saved = 1..current /\ Saved \subseteq DocNumbers
      /\ \A v \in Saved : versions[v] \in VersionRow
      /\ versions \in [1..current -> VersionRow]
  BY SavedNumbers, DocumentsAssumption DEF NumberedInv
<1>4. [versions[n] EXCEPT !.status = s] \in VersionRow
  BY <1>2, <1>3 DEF VersionRow, Statuses, Manual
<1>5. /\ versions' \in [1..current -> VersionRow]
      /\ versions'[n].status = s /\ versions'[n].base = versions[n].base
      /\ \A v \in 1..current : v # n => versions'[v] = versions[v]
  <2>1. /\ [versions[n] EXCEPT !.status = s].status = s
        /\ [versions[n] EXCEPT !.status = s].base = versions[n].base
    BY <1>2, <1>3 DEF VersionRow
  <2>2. versions' = [versions EXCEPT ![n] = [versions[n] EXCEPT !.status = s]]
    BY <1>1
  <2> HIDE DEF s
  <2> QED
    BY <1>2, <1>3, <1>4, <2>1, <2>2
<1>6. Saved' = 1..current
  BY <1>5 DEF Saved
<1>7. Ended'
  <2>1. \A q \in DocRequests : docTxn[q].op = "flushed" => docTxn[q].version \notin initial'
    BY <1>1 DEF RequestsInv, TxnOK
  <2> QED
    BY <1>1, <1>3, <2>1, EndStep
<1>8. DocTypeOK'
  <2>1. \E k \in 0..MaxVersions : versions' \in [1..k -> VersionRow]
    BY <1>5 DEF DocTypeOK
  <2> QED
    BY <1>1, <1>7, <2>1 DEF DocTypeOK, Ended, OpsKnown
<1>9. NumberedInv'
  BY <1>1, <1>5 DEF NumberedInv
<1>10. RowsInv'
  <2>1. \A v \in 1..current : Status(v)' \in Published => v # n /\ Status(v) \in Published
    BY <1>2, <1>5 DEF Status, Published, Manual
  <2> QED
    BY <1>1, <2>1 DEF RowsInv
<1>11. SaveOrder'
  BY <1>1, <1>3, <1>5, <1>6 DEF SaveOrder
<1>12. AloneInv'
  <2> SUFFICES ASSUME ~ docOverlap PROVE AloneInv'
    BY <1>1 DEF AloneInv
  <2>1. Status(n) \in Manual
    BY <1>1 DEF AloneInv, Fresh
  <2>2. Approved' = Approved
    BY <1>2, <1>3, <1>5, <1>6, <2>1 DEF Approved, Status, Manual
  <2>3. OneApproved'
    BY <2>2 DEF AloneInv, OneApproved
  <2>4. LinksRest'
    <3>1. \A o \in Objectives : DocLiveAt(o)' = DocLiveAt(o)
      BY <1>1, <1>3, <1>6 DEF DocLiveAt
    <3>2. \A o \in Objectives : \A v \in DocLiveAt(o) : v # n
      BY <2>1 DEF AloneInv, LinksRest, Published, Manual
    <3>3. \A o \in Objectives : \A v \in DocLiveAt(o) : Status(v)' = Status(v)
      BY <1>3, <1>5, <3>2 DEF DocLiveAt, Status
    <3> QED
      BY <1>1, <3>1, <3>3 DEF AloneInv, LinksRest
  <2> QED
    BY <1>1, <1>7, <2>3, <2>4, AllIdle
<1> QED
  BY <1>7, <1>8, <1>9, <1>10, <1>11, <1>12 DEF Ended

\* Objectives are tagged.
LEMMA TagInv ==
    ASSUME DocInv, NEW wanted \in TagKeys, AddObjectiveTag(wanted)
    PROVE  DocInv'
<1> USE DEF DocInv
<1>1. /\ DocReady /\ tags' = tags \cup wanted /\ wanted \subseteq Objectives
      /\ UNCHANGED <<current, cadence, versions, initial, latest, evidence, docLinks, digest,
                     docTxn, now, docOverlap>>
  BY DEF AddObjectiveTag, TagKeys
<1>2. Ended'
  BY <1>1, WholeStep, SavedNumbers, DocumentsAssumption
<1>3. DocTypeOK'
  BY <1>1 DEF DocTypeOK, Ended, OpsKnown
<1>4. NumberedInv' /\ RowsInv' /\ SaveOrder'
  BY <1>1 DEF NumberedInv, RowsInv, SaveOrder, Saved, Status
<1>5. AloneInv'
  <2> SUFFICES ASSUME ~ docOverlap PROVE AloneInv'
    BY <1>1 DEF AloneInv
  <2>1. OneApproved' /\ LinksRest'
    BY <1>1 DEF AloneInv, OneApproved, LinksRest, Approved, Saved, Status, DocLiveAt
  <2> QED
    BY <1>1, <1>2, <2>1, AllIdle
<1> QED
  BY <1>2, <1>3, <1>4, <1>5 DEF Ended

\* A tag is removed.
LEMMA UntagInv ==
    ASSUME DocInv, NEW r \in DocRequests, DocRemoveTagCommit(r)
    PROVE  DocInv'
<1> USE DEF DocInv
<1>1. /\ docTxn[r].op = "untag" /\ docTxn[r] # DocIdle /\ DocDone(r)
      /\ tags' = tags \ {docTxn[r].objective}
      /\ UNCHANGED <<current, cadence, versions, initial, latest, evidence, docLinks, digest,
                     now, docOverlap>>
  BY DEF DocRemoveTagCommit, DocIdle
<1>2. Ended'
  <2>1. \A q \in DocRequests : docTxn[q].op = "flushed" => docTxn[q].version \notin initial'
    BY <1>1 DEF RequestsInv, TxnOK
  <2> QED
    BY <1>1, <2>1, EndStep, SavedNumbers, DocumentsAssumption
<1>3. DocTypeOK'
  BY <1>1, <1>2 DEF DocTypeOK, Ended, OpsKnown
<1>4. NumberedInv' /\ RowsInv' /\ SaveOrder'
  BY <1>1 DEF NumberedInv, RowsInv, SaveOrder, Saved, Status
<1>5. AloneInv'
  <2> SUFFICES ASSUME ~ docOverlap PROVE AloneInv'
    BY <1>1 DEF AloneInv
  <2>1. DocLiveAt(docTxn[r].objective) = {}
    BY <1>1 DEF AloneInv, Fresh
  <2>2. \A o \in Objectives : DocLiveAt(o)' = DocLiveAt(o)
    BY <1>1 DEF DocLiveAt, Saved
  <2>3. OneApproved' /\ LinksRest'
    BY <1>1, <2>1, <2>2 DEF AloneInv, OneApproved, LinksRest, Approved, Saved, Status
  <2> QED
    BY <1>1, <1>2, <2>3, AllIdle
<1> QED
  BY <1>2, <1>3, <1>4, <1>5 DEF Ended

\* A document is reaffirmed.
LEMMA ReaffirmInv ==
    ASSUME DocInv, NEW c \in Contacts, Reaffirm(c)
    PROVE  DocInv'
<1> USE DEF DocInv
<1>1. /\ DocReady /\ latest' \in LatestAfter(c)
      /\ UNCHANGED <<current, cadence, versions, tags, initial, evidence, docLinks, digest,
                     docTxn, now, docOverlap>>
  BY DEF Reaffirm
<1>2. Ended'
  BY <1>1, WholeStep, SavedNumbers, DocumentsAssumption
<1>3. DocTypeOK'
  BY <1>1, LatestOK DEF DocTypeOK, Ended, OpsKnown
<1>4. NumberedInv' /\ RowsInv' /\ SaveOrder'
  BY <1>1 DEF NumberedInv, RowsInv, SaveOrder, Saved, Status
<1>5. AloneInv'
  <2> SUFFICES ASSUME ~ docOverlap PROVE AloneInv'
    BY <1>1 DEF AloneInv
  <2>1. OneApproved' /\ LinksRest'
    BY <1>1 DEF AloneInv, OneApproved, LinksRest, Approved, Saved, Status, DocLiveAt
  <2> QED
    BY <1>1, <1>2, <2>1, AllIdle
<1> QED
  BY <1>2, <1>3, <1>4, <1>5 DEF Ended

\* An objective's live links are detached.
LEMMA UnlinkInv ==
    ASSUME DocInv, NEW o \in Objectives, DocUnlink(o)
    PROVE  DocInv'
<1> USE DEF DocInv
<1>1. /\ DocReady
      /\ docLinks' = [x \in DOMAIN docLinks |->
                        IF x[2] = o /\ x[1] \in DocLiveAt(o) THEN "detached" ELSE docLinks[x]]
      /\ UNCHANGED <<current, cadence, versions, tags, initial, latest, evidence, digest,
                     docTxn, now, docOverlap>>
  BY DEF DocUnlink
<1>2. Ended'
  BY <1>1, WholeStep, SavedNumbers, DocumentsAssumption
<1>3. /\ docLinks \in [DocNumbers \X Objectives -> LinkState]
      /\ docLinks' \in [DocNumbers \X Objectives -> LinkState]
  BY <1>1 DEF DocTypeOK, LinkState
<1>4. \A v \in DocNumbers, p \in Objectives :
         docLinks'[<<v, p>>] = IF p = o /\ v \in DocLiveAt(o) THEN "detached"
                               ELSE docLinks[<<v, p>>]
  BY <1>1, <1>3
<1>5. DocTypeOK'
  BY <1>1, <1>3 DEF DocTypeOK, Ended, OpsKnown
<1>6. Saved \subseteq DocNumbers
  BY SavedNumbers
<1>7. NumberedInv' /\ SaveOrder'
  BY <1>1 DEF NumberedInv, SaveOrder, Saved
<1>8. RowsInv'
  <2>1. \A v \in DocNumbers, p \in Objectives :
           docLinks'[<<v, p>>] # DocNone => docLinks[<<v, p>>] # DocNone
    BY <1>4 DEF DocLiveAt, DocNone
  <2> QED
    BY <1>1, <2>1 DEF RowsInv, Status
<1>9. AloneInv'
  <2> SUFFICES ASSUME ~ docOverlap PROVE AloneInv'
    BY <1>1 DEF AloneInv
  <2>1. OneApproved'
    BY <1>1 DEF AloneInv, OneApproved, Approved, Saved, Status
  <2>2. LinksRest'
    <3>1. Saved' = Saved
      BY <1>1 DEF Saved
    <3>2. \A p \in Objectives : DocLiveAt(p)' \subseteq DocLiveAt(p)
      BY <1>4, <1>6, <3>1 DEF DocLiveAt
    <3> QED
      BY <1>1, <3>2 DEF AloneInv, LinksRest, Status
  <2> QED
    BY <1>1, <1>2, <2>1, <2>2, AllIdle
<1> QED
  BY <1>2, <1>5, <1>7, <1>8, <1>9 DEF Ended

\* A publication writes its version and keeps it locked, or finds that it has
\* its initial approval and fails.
LEMMA FlushInv ==
    ASSUME DocInv, NEW r \in DocRequests, PublishFlush(r)
    PROVE  DocInv'
<1> USE DEF DocInv
<1> DEFINE t == docTxn[r]
           u == [op |-> "flushed", version |-> t.version, by |-> t.by, tags |-> tags,
                 others |-> Approved \ {t.version}]
<1>1. /\ t.op = "publish" /\ t # DocIdle /\ ~ Locked(t.version)
      /\ UNCHANGED <<current, cadence, versions, tags, initial, latest, evidence, docLinks,
                     digest, now, docOverlap>>
  BY DEF PublishFlush, docRows, DocIdle
<1>2. /\ Approved \subseteq 1..current /\ 1..current \subseteq DocNumbers
      /\ tags \in SUBSET Objectives /\ current \in Nat
  <2>1. /\ Saved = 1..current /\ Saved \subseteq DocNumbers /\ Approved \subseteq Saved
        /\ current \in 0..MaxVersions
    BY SavedNumbers
  <2>2. tags \in SUBSET Objectives
    BY DEF DocTypeOK
  <2> HIDE DEF DocInv
  <2> QED
    BY <2>1, <2>2, DocumentsAssumption
<1>3. NumberedInv' /\ RowsInv' /\ SaveOrder'
  BY <1>1 DEF NumberedInv, RowsInv, SaveOrder, Saved, Status
<1>4. ~ docOverlap => OneApproved' /\ LinksRest'
  BY <1>1 DEF AloneInv, OneApproved, LinksRest, Approved, Saved, Status, DocLiveAt
<1>5. CASE t.version \in initial
  <2>1. DocDone(r)
    BY <1>5 DEF PublishFlush
  <2>2. Ended'
    <3>1. \A q \in DocRequests : docTxn[q].op = "flushed" => docTxn[q].version \notin initial'
      BY <1>1 DEF RequestsInv, TxnOK
    <3> QED
      BY <1>1, <1>2, <2>1, <3>1, EndStep
  <2>3. DocTypeOK'
    BY <1>1, <2>2 DEF DocTypeOK, Ended, OpsKnown
  <2>4. AloneInv'
    <3>1. CASE docOverlap
      BY <3>1, <1>1 DEF AloneInv
    <3>2. CASE ~ docOverlap
      BY <3>2, <1>1, <1>4, <2>2, AllIdle
    <3> QED
      BY <3>1, <3>2
  <2> QED
    BY <1>3, <2>2, <2>3, <2>4 DEF Ended
<1>6. CASE t.version \notin initial
  <2>1. docTxn' = [docTxn EXCEPT ![r] = u]
    BY <1>6 DEF PublishFlush
  <2>2. docTxn'[r] = u /\ \A q \in DocRequests : q # r => docTxn'[q] = docTxn[q]
    BY <2>1 DEF RequestsInv
  <2>3. /\ t.version \in 1..current /\ t.by \in Contacts /\ current # 0
    BY <1>1 DEF RequestsInv, TxnOK
  <2>4. \A v \in Approved : v \in 1..current /\ evidence[v] > 0
    BY <1>2 DEF RowsInv, Approved, Published
  <2>5. /\ docTxn'[r].op = "flushed" /\ docTxn'[r].version = t.version
        /\ docTxn'[r].by = t.by /\ docTxn'[r].tags = tags
        /\ docTxn'[r].others = Approved \ {t.version}
    BY <2>2
  <2>6. \A q \in DocRequests : TxnOK(docTxn[q])'
    <3> SUFFICES ASSUME NEW q \in DocRequests PROVE TxnOK(docTxn[q])'
      OBVIOUS
    <3>1. CASE q = r
      BY <3>1, <1>1, <1>2, <1>6, <2>3, <2>4, <2>5 DEF TxnOK
    <3>2. CASE q # r
      BY <3>2, <1>1, <2>2 DEF RequestsInv, TxnOK
    <3> QED
      BY <3>1, <3>2
  <2>7. RequestsInv'
    <3>1. docTxn' = [q \in DocRequests |-> docTxn'[q]]
      BY <2>1 DEF RequestsInv
    <3>2. \A p, q \in DocRequests :
             /\ docTxn'[p].op = "flushed" /\ docTxn'[q].op = "flushed"
             /\ docTxn'[p].version = docTxn'[q].version
             => p = q
      <4>1. \A q \in DocRequests : docTxn[q].op = "flushed" => docTxn[q].version # t.version
        BY <1>1 DEF Locked
      <4> QED
        BY <2>2, <4>1 DEF RequestsInv
    <3> QED
      BY <2>6, <3>1, <3>2 DEF RequestsInv
  <2>8. DocTypeOK'
    <3>1. OpsKnown'
      BY <2>6 DEF TxnOK, OpsKnown
    <3> QED
      BY <1>1, <3>1 DEF DocTypeOK, Ended, OpsKnown
  <2>9. AloneInv'
    <3> SUFFICES ASSUME ~ docOverlap PROVE AloneInv'
      BY <1>1 DEF AloneInv
    <3>1. \A q \in DocRequests : q # r => docTxn'[q] = DocIdle
      BY <1>1, <2>2 DEF AloneInv
    <3>2. Status(t.version) \in Manual
      BY <1>1 DEF AloneInv, Fresh
    <3>3. t.version \notin Approved
      BY <3>2 DEF Approved, Manual
    <3>4. Fresh(docTxn[r])'
      <4>1. Approved' = Approved
        BY <1>1 DEF Approved, Saved, Status
      <4>2. Status(docTxn[r].version)' \in Manual
        BY <1>1, <2>5, <3>2 DEF Status
      <4> QED
        BY <1>1, <2>5, <3>3, <4>1, <4>2 DEF Fresh
    <3>5. \A q \in DocRequests : Fresh(docTxn[q])'
      BY <3>1, <3>4, IdleOK DEF Fresh, DocIdle
    <3> QED
      BY <1>4, <3>1, <3>5 DEF AloneInv
  <2> QED
    BY <1>3, <2>7, <2>8, <2>9
<1> QED
  BY <1>5, <1>6 DEF Ended

\* A publication commits.
LEMMA PublishInv ==
    ASSUME DocInv, NEW r \in DocRequests, PublishCommit(r)
    PROVE  DocInv'
<1> USE DEF DocInv
<1> DEFINE t == docTxn[r]
           After(v) == IF v = t.version
                       THEN [versions[v] EXCEPT !.status = "approved", !.published = t.tags]
                       ELSE IF v \in t.others THEN [versions[v] EXCEPT !.status = "superseded"]
                       ELSE versions[v]
<1>1. /\ t.op = "flushed" /\ t # DocIdle /\ DocDone(r)
      /\ versions' = [v \in Saved |-> After(v)]
      /\ initial' = initial \cup {t.version}
      /\ latest' \in LatestAfter(t.by)
      /\ evidence' = [evidence EXCEPT ![t.version] = @ + 1]
      /\ UNCHANGED <<current, cadence, tags, docLinks, digest, now, docOverlap>>
  <2>1. t.op = "flushed" /\ t # DocIdle
    <3> HIDE DEF DocInv, After
    <3>1. docTxn[r].op = "flushed"
      BY DEF PublishCommit
    <3> QED
      BY <3>1 DEF DocIdle
  <2>2. versions' = [v \in Saved |-> After(v)]
    BY DEF PublishCommit
  <2> QED
    BY <2>1, <2>2 DEF PublishCommit
<1>2. /\ t.version \in 1..current /\ t.by \in Contacts /\ t.version \notin initial
      /\ t.tags \in SUBSET Objectives
      /\ \A v \in t.others : v \in 1..current /\ evidence[v] > 0
  BY <1>1 DEF RequestsInv, TxnOK
<1>3. /\ current \in Nat /\ Saved = 1..current /\ 1..current \subseteq DocNumbers
      /\ \A v \in Saved : versions[v] \in VersionRow
  <2>1. /\ Saved = 1..current /\ Saved \subseteq DocNumbers /\ current \in 0..MaxVersions
        /\ \A v \in Saved : versions[v] \in VersionRow
    BY SavedNumbers
  <2> HIDE DEF DocInv
  <2> QED
    BY <2>1, DocumentsAssumption
<1>4. \A v \in 1..current :
         /\ After(v) \in VersionRow /\ After(v).base = versions[v].base
         /\ v = t.version => After(v).status = "approved"
         /\ v # t.version /\ v \in t.others => After(v).status = "superseded"
         /\ v # t.version /\ v \notin t.others => After(v) = versions[v]
  <2> SUFFICES ASSUME NEW v \in 1..current
               PROVE  /\ After(v) \in VersionRow /\ After(v).base = versions[v].base
                      /\ v = t.version => After(v).status = "approved"
                      /\ v # t.version /\ v \in t.others => After(v).status = "superseded"
                      /\ v # t.version /\ v \notin t.others => After(v) = versions[v]
    OBVIOUS
  <2>1. versions[v] \in VersionRow
    BY <1>3
  <2> QED
    BY <1>2, <2>1 DEF VersionRow, Statuses
<1> HIDE DEF After
<1>5. /\ versions' \in [1..current -> VersionRow] /\ Saved' = 1..current
      /\ \A v \in 1..current : versions'[v] = After(v)
  BY <1>1, <1>3, <1>4 DEF Saved
<1>6. /\ evidence[t.version] = 0
      /\ evidence'[t.version] = 1
      /\ \A v \in DocNumbers : v # t.version => evidence'[v] = evidence[v]
      /\ evidence' \in [DocNumbers -> 0..2]
  <2>1. t.version \in DocNumbers
    BY <1>2, <1>3
  <2>2. evidence[t.version] = 0
    BY <1>2, <2>1 DEF RowsInv
  <2>3. evidence \in [DocNumbers -> 0..2]
    BY DEF DocTypeOK
  <2> QED
    BY <1>1, <2>1, <2>2, <2>3
<1>7. Ended'
  <2>1. \A q \in DocRequests : q # r /\ docTxn[q].op = "flushed"
                                 => docTxn[q].version \notin initial'
    BY <1>1 DEF RequestsInv, TxnOK
  <2>2. \A v \in 1..current : evidence[v] > 0 => evidence'[v] > 0
    BY <1>3, <1>6
  <2>3. initial \subseteq initial' /\ current' \in Nat /\ current <= current'
    BY <1>1, <1>3
  <2> QED
    BY <1>1, <2>1, <2>2, <2>3, EndStep
<1>8. DocTypeOK'
  <2>1. \E k \in 0..MaxVersions : versions' \in [1..k -> VersionRow]
    BY <1>5 DEF DocTypeOK
  <2>2. latest' \in {{}} \cup {{a} : a \in ApprovalRow}
    BY <1>1, <1>2, LatestOK
  <2>3. initial' \subseteq DocNumbers
    BY <1>1, <1>2, <1>3 DEF DocTypeOK
  <2> QED
    BY <1>1, <1>6, <1>7, <2>1, <2>2, <2>3 DEF DocTypeOK, Ended, OpsKnown
<1>9. NumberedInv'
  BY <1>1, <1>5 DEF NumberedInv
<1>10. RowsInv'
  <2>1. initial' \subseteq 1..current'
    BY <1>1, <1>2 DEF RowsInv
  <2>2. \A v \in DocNumbers :
           /\ evidence'[v] \in {0, 1}
           /\ evidence'[v] > 0 => v \in initial'
           /\ \A o \in Objectives : docLinks'[<<v, o>>] # DocNone => evidence'[v] > 0
    <3> SUFFICES ASSUME NEW v \in DocNumbers
                 PROVE  /\ evidence'[v] \in {0, 1}
                        /\ evidence'[v] > 0 => v \in initial'
                        /\ \A o \in Objectives :
                              docLinks'[<<v, o>>] # DocNone => evidence'[v] > 0
      OBVIOUS
    <3>1. CASE v = t.version
      BY <3>1, <1>1, <1>6
    <3>2. CASE v # t.version
      BY <3>2, <1>1, <1>6 DEF RowsInv
    <3> QED
      BY <3>1, <3>2
  <2>3. \A v \in 1..current' : Status(v)' \in Published => evidence'[v] > 0
    <3> SUFFICES ASSUME NEW v \in 1..current, After(v).status \in Published
                 PROVE  evidence'[v] > 0
      BY <1>1, <1>5 DEF Status
    <3>1. CASE v = t.version
      BY <3>1, <1>6
    <3>2. CASE v # t.version /\ v \in t.others
      BY <3>2, <1>2, <1>3, <1>6
    <3>3. CASE v # t.version /\ v \notin t.others
      BY <3>3, <1>3, <1>4, <1>6 DEF RowsInv, Status
    <3> QED
      BY <3>1, <3>2, <3>3
  <2> QED
    BY <2>1, <2>2, <2>3 DEF RowsInv
<1>11. SaveOrder'
  BY <1>1, <1>3, <1>4, <1>5 DEF SaveOrder
<1>12. AloneInv'
  <2> SUFFICES ASSUME ~ docOverlap PROVE AloneInv'
    BY <1>1 DEF AloneInv
  <2>1. t.others = Approved /\ Status(t.version) \in Manual
    BY <1>1 DEF AloneInv, Fresh
  <2>2. \A v \in 1..current : v # t.version => After(v).status # "approved"
    BY <1>3, <1>4, <2>1 DEF Approved, Status
  <2>3. OneApproved'
    BY <1>5, <2>2 DEF OneApproved, Approved, Status
  <2>4. LinksRest'
    <3>1. \A o \in Objectives : DocLiveAt(o)' = DocLiveAt(o)
      BY <1>1, <1>3, <1>5 DEF DocLiveAt
    <3>2. \A v \in 1..current : Status(v) \in Published => Status(v)' \in Published
      <4> SUFFICES ASSUME NEW v \in 1..current, versions[v].status \in Published
                   PROVE  After(v).status \in Published
        BY <1>5 DEF Status
      <4> QED
        BY <1>4 DEF Published
    <3>3. \A o \in Objectives : \A v \in DocLiveAt(o) : v \in 1..current
      BY <1>3 DEF DocLiveAt
    <3> QED
      BY <1>1, <3>1, <3>2, <3>3 DEF AloneInv, LinksRest
  <2> QED
    BY <1>1, <1>7, <2>3, <2>4, AllIdle
<1> QED
  BY <1>7, <1>8, <1>9, <1>10, <1>11, <1>12 DEF Ended

\* An objective's link is made, or moved forward to the offered version.
LEMMA LinkInv ==
    ASSUME DocInv, NEW r \in DocRequests, DocLinkCommit(r)
    PROVE  DocInv'
<1> USE DEF DocInv
<1> DEFINE t == docTxn[r]
<1>1. /\ t.op = "link" /\ t # DocIdle /\ DocDone(r)
      /\ docLinks' = [x \in DOMAIN docLinks |->
                        IF x = <<t.version, t.objective>> THEN "live"
                        ELSE IF x[2] = t.objective /\ x[1] \in t.old THEN "moved_forward"
                        ELSE docLinks[x]]
      /\ evidence' = [evidence EXCEPT ![t.version] = IF @ = 0 THEN 1 ELSE @]
      /\ UNCHANGED <<current, cadence, versions, tags, initial, latest, digest, now, docOverlap>>
  BY DEF DocLinkCommit, DocIdle
<1>2. t.objective \in Objectives /\ t.version \in initial
  BY <1>1 DEF RequestsInv, TxnOK
<1>3. /\ current \in Nat /\ Saved = 1..current /\ 1..current \subseteq DocNumbers
      /\ t.version \in 1..current /\ Saved' = Saved
  <2>1. /\ Saved = 1..current /\ Saved \subseteq DocNumbers /\ current \in 0..MaxVersions
    BY SavedNumbers
  <2>2. t.version \in 1..current /\ Saved' = Saved
    BY <1>1, <1>2 DEF RowsInv, Saved
  <2> HIDE DEF DocInv
  <2> QED
    BY <2>1, <2>2, DocumentsAssumption
<1>4. /\ docLinks \in [DocNumbers \X Objectives -> LinkState]
      /\ docLinks' \in [DocNumbers \X Objectives -> LinkState]
  BY <1>1 DEF DocTypeOK, LinkState
<1>5. \A v \in DocNumbers, o \in Objectives :
         docLinks'[<<v, o>>] = IF v = t.version /\ o = t.objective THEN "live"
                               ELSE IF o = t.objective /\ v \in t.old THEN "moved_forward"
                               ELSE docLinks[<<v, o>>]
  BY <1>1, <1>4
<1>6. /\ evidence'[t.version] = 1
      /\ \A v \in DocNumbers : v # t.version => evidence'[v] = evidence[v]
      /\ evidence' \in [DocNumbers -> 0..2]
  <2>1. t.version \in DocNumbers
    BY <1>3
  <2>2. evidence[t.version] \in {0, 1}
    BY <2>1 DEF RowsInv
  <2>3. evidence \in [DocNumbers -> 0..2]
    BY DEF DocTypeOK
  <2> QED
    BY <1>1, <2>1, <2>2, <2>3
<1>7. Ended'
  <2>1. \A q \in DocRequests : docTxn[q].op = "flushed" => docTxn[q].version \notin initial'
    BY <1>1 DEF RequestsInv, TxnOK
  <2>2. \A v \in 1..current : evidence[v] > 0 => evidence'[v] > 0
    BY <1>3, <1>6
  <2> QED
    BY <1>1, <1>3, <2>1, <2>2, EndStep
<1>8. DocTypeOK'
  BY <1>1, <1>4, <1>6, <1>7 DEF DocTypeOK, Ended, OpsKnown
<1>9. NumberedInv' /\ SaveOrder'
  BY <1>1 DEF NumberedInv, SaveOrder, Saved
<1>10. RowsInv'
  <2>1. \A v \in DocNumbers :
           /\ evidence'[v] \in {0, 1}
           /\ evidence'[v] > 0 => v \in initial'
    <3> SUFFICES ASSUME NEW v \in DocNumbers
                 PROVE  evidence'[v] \in {0, 1} /\ (evidence'[v] > 0 => v \in initial')
      OBVIOUS
    <3>1. CASE v = t.version
      BY <3>1, <1>1, <1>2, <1>6
    <3>2. CASE v # t.version
      BY <3>2, <1>1, <1>6 DEF RowsInv
    <3> QED
      BY <3>1, <3>2
  <2>2. \A v \in DocNumbers, o \in Objectives : docLinks'[<<v, o>>] # DocNone => evidence'[v] > 0
    <3> SUFFICES ASSUME NEW v \in DocNumbers, NEW o \in Objectives,
                        docLinks'[<<v, o>>] # DocNone
                 PROVE  evidence'[v] > 0
      OBVIOUS
    <3>1. CASE v = t.version
      BY <3>1, <1>6
    <3>2. CASE v # t.version /\ docLinks[<<v, o>>] # DocNone
      BY <3>2, <1>6 DEF RowsInv
    <3>3. CASE v # t.version /\ docLinks[<<v, o>>] = DocNone
      <4>1. v \in t.old
        BY <3>3, <1>5
      <4>2. v \in 1..current /\ evidence[v] > 0
        BY <4>1, <1>1 DEF RequestsInv, TxnOK
      <4> QED
        BY <3>3, <4>2, <1>6
    <3> QED
      BY <3>1, <3>2, <3>3
  <2>3. \A v \in 1..current : Status(v) \in Published => evidence'[v] > 0
    BY <1>3, <1>6 DEF RowsInv
  <2> QED
    BY <1>1, <2>1, <2>2, <2>3 DEF RowsInv, Status
<1>11. AloneInv'
  <2> SUFFICES ASSUME ~ docOverlap PROVE AloneInv'
    BY <1>1 DEF AloneInv
  <2>1. /\ t.objective \in tags /\ t.version \in Approved /\ t.old = DocLiveAt(t.objective)
    BY <1>1 DEF AloneInv, Fresh
  <2>2. OneApproved'
    BY <1>1 DEF AloneInv, OneApproved, Approved, Saved, Status
  <2>3. \A o \in Objectives : o # t.objective => DocLiveAt(o)' = DocLiveAt(o)
    BY <1>3, <1>5 DEF DocLiveAt
  <2>4. \A o \in Objectives : o = t.objective => \A v \in DocLiveAt(o)' : v = t.version
    <3> SUFFICES ASSUME NEW v \in Saved, docLinks'[<<v, t.objective>>] = "live"
                 PROVE  v = t.version
      BY <1>3 DEF DocLiveAt
    <3>1. v \in DocNumbers
      BY <1>3
    <3>2. v \in t.old => docLinks'[<<v, t.objective>>] = "moved_forward" \/ v = t.version
      BY <1>2, <1>5, <3>1
    <3>3. docLinks[<<v, t.objective>>] = "live" => v \in t.old
      BY <2>1 DEF DocLiveAt
    <3> QED
      BY <1>2, <1>5, <3>1, <3>2, <3>3
  <2>5. versions[t.version].status \in Published
    BY <2>1 DEF Approved, Published, Status
  <2>6. LinksRest'
    <3> SUFFICES ASSUME NEW o \in Objectives
                 PROVE  /\ DocLiveAt(o)' # {} => o \in tags'
                        /\ \A v \in DocLiveAt(o)' : Status(v)' \in Published
                        /\ \A v, w \in DocLiveAt(o)' : v = w
      BY DEF LinksRest
    <3>1. CASE o = t.objective
      BY <3>1, <1>1, <2>1, <2>4, <2>5 DEF Status
    <3>2. CASE o # t.objective
      BY <3>2, <1>1, <2>3 DEF AloneInv, LinksRest, Status
    <3> QED
      BY <3>1, <3>2
  <2> QED
    BY <1>1, <1>7, <2>2, <2>6, AllIdle
<1> QED
  BY <1>7, <1>8, <1>9, <1>10, <1>11 DEF Ended

-----------------------------------------------------------------------------
(* The specification.                                                      *)

\* No step breaks the invariant.
LEMMA NextInv == DocInv /\ [DocNext]_docVars => DocInv'
<1> SUFFICES ASSUME DocInv, [DocNext]_docVars PROVE DocInv'
  OBVIOUS
<1>1. CASE UNCHANGED docVars
  BY <1>1
  DEF docVars, docRows, DocInv, DocTypeOK, NumberedInv, RowsInv, SaveOrder, Saved,
      Status, RequestsInv, TxnOK, AloneInv, Fresh, OneApproved, LinksRest, Approved, DocLiveAt
<1>2. ASSUME NEW n \in Cadences, CreateDocument(n) \/ PatchDocument(n) PROVE DocInv'
  BY <1>2, CreateInv, QuietInv
<1>3. ASSUME NEW w \in TagKeys, AddObjectiveTag(w) PROVE DocInv'
  BY <1>3, TagInv
<1>4. ASSUME NEW c \in Contacts, Reaffirm(c) PROVE DocInv'
  BY <1>4, ReaffirmInv
<1>5. ASSUME NEW o \in Objectives, DocUnlink(o) PROVE DocInv'
  BY <1>5, UnlinkInv
<1>6. ASSUME NEW sent \in SUBSET Contacts, Digest(sent) PROVE DocInv'
  BY <1>6, QuietInv
<1>7. CASE Tick
  BY <1>7, QuietInv
<1>8. ASSUME NEW r \in DocRequests,
             \/ DeleteBegin(r)
             \/ \E base \in DocNumbers : SaveBegin(r, base)
             \/ \E s \in Manual : StatusBegin(r, s)
             \/ \E o \in Objectives : DocRemoveTagBegin(r, o)
             \/ \E c \in Contacts : PublishBegin(r, c)
             \/ \E o \in Objectives : DocLinkBegin(r, o) \/ DocMoveForwardBegin(r, o)
      PROVE  DocInv'
  BY <1>8, BeginInv
<1>9. ASSUME NEW r \in DocRequests,
             \/ DeleteCommit(r) \/ SaveNumber(r) \/ SaveCommit(r) \/ StatusCommit(r)
             \/ DocRemoveTagCommit(r) \/ PublishFlush(r) \/ PublishCommit(r) \/ DocLinkCommit(r)
      PROVE  DocInv'
  BY <1>9, DeleteInv, NumberInv, SaveInv, StatusInv, UntagInv, FlushInv, PublishInv, LinkInv
<1> QED
  BY <1>1, <1>2, <1>3, <1>4, <1>5, <1>6, <1>7, <1>8, <1>9 DEF DocNext

\* Whatever the requests and their order, a document's rows and its requests in
\* flight hang together.
THEOREM DocInvariant == DocSpec => []DocInv
BY InitInv, NextInv, PTL DEF DocSpec

\* Every variable keeps its type (models.py's columns and the requests'
\* locals).
THEOREM DocTypeCorrect == DocSpec => []DocTypeOK
<1>1. DocInv => DocTypeOK
  BY DEF DocInv
<1> QED
  BY <1>1, DocInvariant, PTL

\* However requests overlap, the newest version is the current one and started
\* from an earlier one, none is published twice, and no evidence is left without
\* its version; one after the other, they lose no save and leave one approved
\* version at most and each live link on a tagged objective, alone there and on a
\* published version (create_document_version, publish_document,
\* delete_document, document_evidence).
THEOREM DocumentsHangTogether == DocSpec => []DocumentsAreSound
<1>1. ASSUME DocInv PROVE DocumentsAreSound
  <2>1. NewestIsCurrent /\ SavesFollow
    BY <1>1, SavedNumbers DEF DocInv, SaveOrder, NewestIsCurrent, SavesFollow, SavesAreSequential
  <2>2. PublishedOnce /\ EvidenceKeepsItsVersion
    <3>1. Saved = 1..current
      BY <1>1, SavedNumbers DEF DocInv
    <3>2. \A v \in DocNumbers : evidence[v] \in {0, 1} /\ (evidence[v] > 0 => v \in Saved)
      BY <1>1, <3>1 DEF DocInv, RowsInv
    <3> QED
      BY <3>2 DEF PublishedOnce, EvidenceKeepsItsVersion
  <2>3. AtMostOneApproved
    BY <1>1, AtMostOne DEF DocInv, AloneInv, OneApproved, AtMostOneApproved
  <2>4. LiveLinksAreSound
    <3> SUFFICES ASSUME ~ docOverlap, NEW o \in Objectives
                 PROVE  /\ DocLiveAt(o) # {} => o \in tags
                        /\ \A v \in DocLiveAt(o) : Status(v) \in Published
                        /\ Cardinality(DocLiveAt(o)) <= 1
      BY DEF LiveLinksAreSound, Published
    <3> QED
      BY <1>1, AtMostOne DEF DocInv, AloneInv, LinksRest
  <2> QED
    BY <2>1, <2>2, <2>3, <2>4 DEF DocumentsAreSound
<1> QED
  BY <1>1, DocInvariant, PTL

\* Where requests do not overlap, a step leaves a published version as it is, or
\* supersedes it and no more.
LEMMA FinalStep ==
    ASSUME DocInv, DocNext, ~ docOverlap, NEW v \in Saved, Status(v) \in Published
    PROVE  \/ versions'[v] = versions[v]
           \/ versions'[v] = [versions[v] EXCEPT !.status = "superseded"]
<1> DEFINE Final == \/ versions'[v] = versions[v]
                    \/ versions'[v] = [versions[v] EXCEPT !.status = "superseded"]
<1>1. /\ Saved = 1..current /\ current \in Nat /\ v \in 1..current
      /\ versions \in [1..current -> VersionRow]
  <2>1. Saved = 1..current /\ current \in 0..MaxVersions
    BY SavedNumbers DEF DocInv
  <2>2. versions \in [1..current -> VersionRow]
    BY DEF DocInv, NumberedInv
  <2> QED
    BY <2>1, <2>2, DocumentsAssumption
<1>2. evidence[v] > 0
  BY <1>1 DEF DocInv, RowsInv
<1>3. \A r \in DocRequests : TxnOK(docTxn[r]) /\ Fresh(docTxn[r])
  BY DEF DocInv, RequestsInv, AloneInv
<1>4. CASE UNCHANGED versions
  BY <1>4
<1>5. ASSUME NEW n \in Cadences, CreateDocument(n) PROVE Final
  BY <1>1, <1>5 DEF CreateDocument, Exists
<1>6. ASSUME NEW r \in DocRequests, DeleteCommit(r) PROVE Final
  BY <1>2, <1>6 DEF DeleteCommit, docRows
<1>7. ASSUME NEW r \in DocRequests, SaveCommit(r) PROVE Final
  <2>1. docTxn[r].op = "numbered"
    BY <1>7 DEF SaveCommit
  <2>2. docTxn[r].top \in 1..current
    BY <1>3, <2>1 DEF TxnOK
  <2>3. CASE docTxn[r].top + 1 \in Saved
    BY <1>7, <2>3 DEF SaveCommit
  <2>4. CASE docTxn[r].top + 1 \notin Saved
    <3>1. v \in 1..(docTxn[r].top + 1) /\ v # docTxn[r].top + 1
      BY <1>1, <2>2, <2>4
    <3> QED
      BY <1>7, <2>4, <3>1 DEF SaveCommit
  <2> QED
    BY <2>3, <2>4
<1>8. ASSUME NEW r \in DocRequests, StatusCommit(r) PROVE Final
  <2>1. Status(docTxn[r].version) \in Manual
    BY <1>3, <1>8 DEF StatusCommit, Fresh
  <2>2. v # docTxn[r].version
    BY <2>1 DEF Manual, Published
  <2> QED
    BY <1>1, <1>8, <2>2 DEF StatusCommit
<1>9. ASSUME NEW r \in DocRequests, PublishCommit(r) PROVE Final
  <2>1. Status(docTxn[r].version) \in Manual
    BY <1>3, <1>9 DEF PublishCommit, Fresh
  <2>2. v # docTxn[r].version
    BY <2>1 DEF Manual, Published
  <2>3. versions'[v] = IF v \in docTxn[r].others
                       THEN [versions[v] EXCEPT !.status = "superseded"] ELSE versions[v]
    BY <1>9, <2>2 DEF PublishCommit
  <2> QED
    BY <2>3
<1>10. ASSUME NEW n \in Cadences, PatchDocument(n) PROVE UNCHANGED versions
  BY <1>10 DEF PatchDocument
<1>11. ASSUME \/ \E w \in TagKeys : AddObjectiveTag(w)
              \/ \E c \in Contacts : Reaffirm(c)
              \/ \E o \in Objectives : DocUnlink(o)
              \/ \E sent \in SUBSET Contacts : Digest(sent)
              \/ Tick
       PROVE  UNCHANGED versions
  BY <1>11 DEF AddObjectiveTag, Reaffirm, DocUnlink, Digest, Tick, docRows
<1>12. ASSUME NEW r \in DocRequests,
              \/ DeleteBegin(r)
              \/ \E base \in DocNumbers : SaveBegin(r, base)
              \/ SaveNumber(r)
              \/ \E s \in Manual : StatusBegin(r, s)
              \/ \E o \in Objectives : DocRemoveTagBegin(r, o)
              \/ DocRemoveTagCommit(r)
              \/ \E c \in Contacts : PublishBegin(r, c)
              \/ PublishFlush(r)
              \/ \E o \in Objectives : DocLinkBegin(r, o) \/ DocMoveForwardBegin(r, o)
              \/ DocLinkCommit(r)
       PROVE  UNCHANGED versions
  BY <1>12
  DEF DeleteBegin, SaveBegin, SaveNumber, StatusBegin, DocRemoveTagBegin, DocRemoveTagCommit,
      PublishBegin, PublishFlush, DocLinkBegin, DocMoveForwardBegin, DocLinkCommit, docRows
<1> HIDE DEF Final
<1>13. Final
  BY <1>5, <1>6, <1>7, <1>8, <1>9, <1>10, <1>11, <1>12, <1>4 DEF DocNext, Final
<1> QED
  BY <1>13 DEF Final

\* Where requests do not overlap, an approved version is only ever superseded,
\* and its page keeps the objectives it was published with
\* (patch_document_version_status, publish_document, _version_detail_out).
THEOREM PublishedStays == DocSpec => PublishedIsFinal
<1>1. ASSUME DocInv, [DocNext]_docVars
      PROVE  [~ docOverlap => \A v \in Saved :
                 Status(v) \in {"approved", "superseded"} =>
                     /\ Status(v)' \in {Status(v), "superseded"}
                     /\ ObjectivesShown(v)' = ObjectivesShown(v)]_docVars
  <2> SUFFICES ASSUME DocNext, ~ docOverlap, NEW v \in Saved, Status(v) \in Published
               PROVE  /\ Status(v)' \in {Status(v), "superseded"}
                      /\ ObjectivesShown(v)' = ObjectivesShown(v)
    BY <1>1 DEF Published
  <2>1. \/ versions'[v] = versions[v]
        \/ versions'[v] = [versions[v] EXCEPT !.status = "superseded"]
    BY <1>1, FinalStep
  <2>2. versions[v] \in VersionRow
    BY <1>1, SavedNumbers DEF DocInv
  <2>3. /\ versions'[v].status \in {versions[v].status, "superseded"}
        /\ versions'[v].published = versions[v].published
    BY <2>1, <2>2 DEF VersionRow
  <2>4. versions[v].status \in Published
    BY DEF Status
  <2> QED
    BY <2>3, <2>4 DEF Status, ObjectivesShown, Published
<1> QED
  BY <1>1, DocInvariant, PTL DEF DocSpec, PublishedIsFinal

-----------------------------------------------------------------------------
(* Lists.                                                                  *)

Changes == [add : SUBSET Practices, remove : SUBSET Practices]
Plans == [content : Content, edited : BOOLEAN, tags : Changes]

\* What a request in flight has read.
EditTxn == [op : {"edit"}, base : Numbers, number : 0..MaxOwn, content : Content]
TakeTxn == [op : {"take"}, base : Numbers, number : 0..MaxOwn, named : 0..MaxOwn,
            to : 1..MaxTemplate, plan : Plans]
UntagTxn == [op : {"untag"}, key : Practices]
ImportTxn == [op : {"import"}, what : {"create", "conflict", "new_version", "tags"},
              named : 0..MaxTemplate, number : 0..MaxTemplate, retag : SUBSET Changes]
RewriteTxn == [op : {"rewrite"}, number : 0..MaxTemplate, content : Content]
TemplateUntagTxn == [op : {"template_untag"}, key : Practices]
LinkTxn == [op : {"link"}, key : Practices, version : Numbers, old : SUBSET Numbers]

LsRowsInv ==
    /\ sheet \in DOMAIN Sheets
    /\ template \in Seq(TemplateVersion) /\ Len(template) <= MaxTemplate
    /\ templateTags \in [Practices -> TagVia] /\ ownTags \in [Practices -> TagVia]
    /\ own \in Seq(OwnVersion) /\ Len(own) <= MaxOwn
    /\ basedOn \in 0..Len(template)
    /\ links \in [Numbers \X Practices -> {None, "live", "archived"}]
    /\ overlap \in BOOLEAN

\* What still holds of it, whatever the others did: versions are only added, so
\* those it read are there, a link it saw is a row still, and a number it took
\* is the next or has been taken.
LsTxnOK(r) ==
    /\ txn[r] \in {Idle} \cup EditTxn \cup TakeTxn \cup UntagTxn \cup LinkTxn
                     \cup ImportTxn \cup RewriteTxn \cup TemplateUntagTxn
    /\ txn[r].op \in {"edit", "take"} => txn[r].base <= Len(own) /\ txn[r].number <= Len(own) + 1
    /\ txn[r].op = "take" => txn[r].to <= Len(template) /\ basedOn # 0
    /\ txn[r].op = "link" =>
          /\ txn[r].version <= Len(own) /\ IsPopulated(own[txn[r].version].content)
          /\ \A v \in txn[r].old : links[<<v, txn[r].key>>] # None
    /\ txn[r].op \in {"import", "rewrite"} => txn[r].number <= Len(template) + 1
    /\ txn[r].op = "rewrite" => Len(template) # 0
    /\ txn[r].op = "import" /\ txn[r].what # "tags" /\ txn[r].retag # {} => txn[r].number # 0

LsRequestsInv ==
    /\ txn = [r \in Requests |-> txn[r]]
    /\ \A r \in Requests : LsTxnOK(r)

\* A link row is on a version that exists, and whose rows were entered.
LsLinksInv ==
    \A v \in Numbers, k \in Practices :
        links[<<v, k>>] # None => v \in DOMAIN own /\ IsPopulated(own[v].content)

\* What a request alone may rely on: all of what it read.
LsFresh(r) ==
    /\ txn[r].op \in {"edit", "take"} => txn[r].base = Len(own)
    /\ txn[r].op = "take" => /\ txn[r].to = Len(template) /\ txn[r].plan = UpdatePlan
                             /\ UpdateAllowed(txn[r].plan, txn[r].named)
    /\ txn[r].op = "untag" => RemovalRefused(ownTags, txn[r].key, LiveAt(txn[r].key)) = None
    /\ txn[r].op = "link" => /\ Offered(txn[r].key) /\ txn[r].old = LiveAt(txn[r].key)
                             /\ txn[r].version \notin txn[r].old
    /\ txn[r].op = "import" => /\ txn[r].what = ImportAction /\ txn[r].named = Overwritten
                               /\ txn[r].retag \subseteq {ImportedTags}
    /\ txn[r].op \in {"import", "rewrite"} => txn[r].number \in {0, Len(template) + 1}
    /\ txn[r].op = "template_untag" => RemovalRefused(templateTags, txn[r].key, {}) = None

LsAloneInv ==
    ~ overlap => /\ \A q, r \in Requests : txn[q] # Idle /\ txn[r] # Idle => q = r
                 /\ \A r \in Requests : LsFresh(r)

\* Only a list that began as a copy takes versions of the template.
LsCopyInv == basedOn # 0 \/ Adoptions # {} => 1 \in Adoptions

ListsInv ==
    /\ LsRowsInv /\ LsRequestsInv /\ LsLinksInv /\ LsAloneInv /\ LsCopyInv
    /\ LinksKeepTheirTag /\ ServesAPractice /\ UpdatesKeepWork /\ ImportsNameEdits

-----------------------------------------------------------------------------

\* A request that reads nothing is idle.
LEMMA LsIdle ==
    /\ Idle.op = "idle"
    /\ \A t \in EditTxn : t.op = "edit"
    /\ \A t \in TakeTxn : t.op = "take"
    /\ \A t \in UntagTxn : t.op = "untag"
    /\ \A t \in LinkTxn : t.op = "link"
    /\ \A t \in ImportTxn : t.op = "import"
    /\ \A t \in RewriteTxn : t.op = "rewrite"
    /\ \A t \in TemplateUntagTxn : t.op = "template_untag"
BY DEF Idle, EditTxn, TakeTxn, UntagTxn, LinkTxn, ImportTxn, RewriteTxn, TemplateUntagTxn

\* The content of a version, and the last of a list.
LEMMA LastOwn ==
    ASSUME LsRowsInv, own # <<>>
    PROVE  /\ Last(own) = own[Len(own)] /\ Last(own) \in OwnVersion
           /\ Len(own) \in Numbers /\ Len(own) \in DOMAIN own
BY ListsAssumption DEF LsRowsInv, Last, Numbers

\* The same of the template.
LEMMA LastTemplate ==
    ASSUME LsRowsInv, template # <<>>
    PROVE  /\ Last(template) = template[Len(template)] /\ Last(template) \in TemplateVersion
           /\ Len(template) \in 1..MaxTemplate
BY ListsAssumption DEF LsRowsInv, Last

\* A request that did nothing stands, if versions and links were only added.
LEMMA RequestStands ==
    ASSUME LsRowsInv, NEW r \in Requests, LsTxnOK(r), txn'[r] = txn[r],
           Len(own') \in Nat, Len(own) <= Len(own'), \A v \in DOMAIN own : own'[v] = own[v],
           Len(template') \in Nat, Len(template) <= Len(template'),
           \A v \in Numbers, k \in Practices : links[<<v, k>>] # None => links'[<<v, k>>] # None,
           basedOn # 0 => basedOn' # 0
    PROVE  LsTxnOK(r)'
<1>1. Len(own) \in Nat /\ Len(template) \in Nat /\ DOMAIN own = 1..Len(own)
  BY DEF LsRowsInv
<1>2. txn[r].op \in {"edit", "take"} =>
          txn[r].base <= Len(own') /\ txn[r].number <= Len(own') + 1
  BY <1>1, LsIdle DEF LsTxnOK, EditTxn, TakeTxn, Numbers
<1>3. txn[r].op = "take" => txn[r].to <= Len(template') /\ basedOn' # 0
  BY <1>1, LsIdle DEF LsTxnOK, TakeTxn
<1>4. txn[r].op = "link" =>
          /\ txn[r].version <= Len(own') /\ IsPopulated(own'[txn[r].version].content)
          /\ \A v \in txn[r].old : links'[<<v, txn[r].key>>] # None
  BY <1>1, LsIdle DEF LsTxnOK, LinkTxn, Numbers
<1>5. txn[r].op \in {"import", "rewrite"} => txn[r].number <= Len(template') + 1
  BY <1>1, LsIdle DEF LsTxnOK, ImportTxn, RewriteTxn
<1>6. txn[r].op = "rewrite" => Len(template') # 0
  BY <1>1 DEF LsTxnOK
<1> QED
  BY <1>2, <1>3, <1>4, <1>5, <1>6 DEF LsTxnOK

\* What was only added to: versions, link rows, and the version a copy is of.
OnlyAdded ==
    /\ Len(own') \in Nat /\ Len(own) <= Len(own')
    /\ \A v \in DOMAIN own : own'[v] = own[v]
    /\ Len(template') \in Nat /\ Len(template) <= Len(template')
    /\ \A v \in Numbers, k \in Practices : links[<<v, k>>] # None => links'[<<v, k>>] # None
    /\ basedOn # 0 => basedOn' # 0

\* An operation in one transaction leaves every request as it was.
LEMMA AtOnceRequests ==
    ASSUME LsRowsInv, LsRequestsInv, OnlyAdded, txn' = txn
    PROVE  LsRequestsInv'
<1>1. ASSUME NEW r \in Requests PROVE LsTxnOK(r)'
  BY RequestStands DEF OnlyAdded, LsRequestsInv
<1> QED
  BY <1>1 DEF LsRequestsInv

\* And is not run, where requests do not overlap, while one has read something.
LEMMA AtOnceAlone ==
    ASSUME Ready, txn' = txn, overlap' = overlap
    PROVE  LsAloneInv'
BY LsIdle DEF Ready, Quiet, LsAloneInv, LsFresh

\* An operation on the template leaves what is said of the list.
LEMMA OwnStands ==
    ASSUME LsLinksInv, LsCopyInv, LinksKeepTheirTag, UpdatesKeepWork,
           UNCHANGED <<ownRows, overlap>>
    PROVE  LsLinksInv' /\ LsCopyInv' /\ LinksKeepTheirTag' /\ UpdatesKeepWork'
<1>1. /\ own' = own /\ ownTags' = ownTags /\ basedOn' = basedOn /\ links' = links
      /\ overlap' = overlap
  BY DEF ownRows
<1>2. Adoptions' = Adoptions /\ \A k \in Practices : LiveAt(k)' = LiveAt(k)
  BY <1>1 DEF Adoptions, LiveAt
<1>3. \A v \in Adoptions : Replaced(v)' <=> Replaced(v)
  BY <1>1, <1>2 DEF Replaced
<1>4. LsLinksInv' /\ LsCopyInv'
  BY <1>1, <1>2 DEF LsLinksInv, LsCopyInv
<1>5. LinksKeepTheirTag'
  BY <1>1, <1>2 DEF LinksKeepTheirTag
<1> QED
  BY <1>1, <1>2, <1>3, <1>4, <1>5 DEF UpdatesKeepWork

\* Before the first import there is nothing to lose.
LEMMA LsInitInv == Init => ListsInv
<1> SUFFICES ASSUME Init PROVE ListsInv
  OBVIOUS
<1>1. LsRowsInv
  BY ListsAssumption DEF Init, LsRowsInv, TagVia, None
<1>2. LsRequestsInv
  BY LsIdle DEF Init, LsRequestsInv, LsTxnOK
<1>3. LsLinksInv
  BY DEF Init, LsLinksInv
<1>4. LsAloneInv
  BY LsIdle DEF Init, LsAloneInv, LsFresh
<1>5. Adoptions = {}
  BY DEF Init, Adoptions
<1>6. LsCopyInv /\ UpdatesKeepWork
  BY <1>5 DEF Init, LsCopyInv, UpdatesKeepWork
<1>7. \A k \in Practices : LiveAt(k) = {}
  BY DEF Init, LiveAt
<1>8. LinksKeepTheirTag
  BY <1>7, FS_EmptySet DEF LinksKeepTheirTag
<1>9. ServesAPractice /\ ImportsNameEdits
  BY DEF Init, ServesAPractice, ImportsNameEdits, ImportsKeepEdits
<1> QED
  BY <1>1, <1>2, <1>3, <1>4, <1>6, <1>8, <1>9 DEF ListsInv
-----------------------------------------------------------------------------

\* What the importer reads is a version's content, and never without a tag.
LEMMA PlannedOK ==
    ASSUME LsRowsInv
    PROVE  PlannedContent \in Content /\ PlannedKeys \in (SUBSET Practices) \ {{}}
<1> DEFINE Read == [columns : (SUBSET Columns) \ {{}}, keys : (SUBSET Practices) \ {{}}]
<1>1. Sheets[sheet] \in Read
  <2>1. Sheets \in Seq(Read)
    BY ListsAssumption
  <2> HIDE DEF Read
  <2> QED
    BY <2>1 DEF LsRowsInv
<1>2. /\ PlannedContent \in [columns : (SUBSET Columns) \ {{}}, filled : SUBSET Columns,
                             examples : BOOLEAN]
      /\ PlannedContent.filled \subseteq PlannedContent.columns
  BY <1>1 DEF PlannedContent
<1> QED
  BY <1>1, <1>2 DEF PlannedKeys, Content

\* After an import or an update every practice it names is tagged, and its own
\* tags are exactly on practices it names.
LEMMA RetagServes ==
    ASSUME NEW held \in [Practices -> TagVia], NEW keys \in SUBSET Practices,
           NEW via \in TagVia \ {None}, NEW new,
           new = Retag(held, TagChanges(held, keys, via), via)
    PROVE  /\ new \in [Practices -> TagVia] /\ keys \subseteq Tagged(new)
           /\ \A k \in Practices \ keys : new[k] # via
<1>1. \A k \in Practices : new[k] = IF k \in keys /\ held[k] = None THEN via
                                    ELSE IF k \notin keys /\ held[k] = via THEN None ELSE held[k]
  BY DEF Retag, TagChanges, Tagged
<1>2. new \in [Practices -> TagVia]
  BY DEF Retag, TagVia
<1>3. keys \subseteq Tagged(new)
  BY <1>1 DEF Tagged
<1> QED
  BY <1>1, <1>2, <1>3

\* Someone edits the workbook.
LEMMA LsSheetInv == ASSUME ListsInv, SheetChanges PROVE ListsInv'
<1> USE DEF ListsInv
<1>1. /\ sheet' = sheet + 1 /\ sheet < Len(Sheets) /\ template' = template
      /\ templateTags' = templateTags /\ UNCHANGED <<ownRows, overlap>> /\ txn' = txn
      /\ own' = own /\ basedOn' = basedOn /\ links' = links /\ ownTags' = ownTags
      /\ overlap' = overlap
  BY DEF SheetChanges, ownRows
<1>2. LsRowsInv'
  BY <1>1, ListsAssumption DEF LsRowsInv
<1>3. LsRequestsInv'
  BY <1>1, AtOnceRequests DEF OnlyAdded, LsRowsInv
<1>4. LsAloneInv'
  BY <1>1, AtOnceAlone DEF SheetChanges, Ready
<1>5. LsLinksInv' /\ LsCopyInv' /\ LinksKeepTheirTag' /\ UpdatesKeepWork'
  BY <1>1, OwnStands
<1>6. ServesAPractice' /\ ImportsNameEdits'
  BY <1>1 DEF ServesAPractice, ImportsNameEdits, ImportsKeepEdits, Tagged
<1> QED
  BY <1>2, <1>3, <1>4, <1>5, <1>6

\* A tag that may be removed is there, is not the last one, and nothing rests on it.
LEMMA RemovalAllowed ==
    ASSUME NEW held \in [Practices -> TagVia], NEW k \in Practices, NEW resting,
           RemovalRefused(held, k, resting) = None
    PROVE  held[k] # None /\ resting = {} /\ \E j \in Tagged(held) : j # k
<1>1. IsFiniteSet(Tagged(held))
  BY ListsAssumption, FS_Subset DEF Tagged
<1>2. Cardinality(Tagged(held)) \in Nat
  BY <1>1, FS_CardinalityType
<1>3. held[k] # None /\ Cardinality(Tagged(held)) # 1
  BY DEF RemovalRefused, None
<1>4. k \in Tagged(held)
  BY <1>3 DEF Tagged
<1>5. Cardinality(Tagged(held)) > 1
  BY <1>1, <1>2, <1>3, <1>4, FS_EmptySet
<1>6. resting = {}
  BY <1>3, <1>5 DEF RemovalRefused, None
<1>7. \E j \in Tagged(held) : j # k
  <2>1. SUFFICES ASSUME Tagged(held) = {k} PROVE FALSE
    BY <1>4
  <2> QED
    BY <2>1, <1>3, FS_Singleton
<1> QED
  BY <1>3, <1>6, <1>7

-----------------------------------------------------------------------------

\* Versions are only added to the list.
OwnGrows ==
    /\ own' \in Seq(OwnVersion) /\ Len(own) <= Len(own') /\ Len(own') <= MaxOwn
    /\ \A v \in DOMAIN own : own'[v] = own[v]

\* The rows that link a list are on versions it already had.
LEMMA LinksStand ==
    ASSUME LsRowsInv, LsLinksInv, OwnGrows, links' = links
    PROVE  LsLinksInv' /\ \A k \in Practices : LiveAt(k)' = LiveAt(k)
<1>1. /\ DOMAIN own = 1..Len(own) /\ DOMAIN own' = 1..Len(own') /\ Len(own) \in Nat
      /\ Len(own') \in Nat /\ MaxOwn \in Nat
  BY ListsAssumption DEF LsRowsInv, OwnGrows
<1>2. \A v \in DOMAIN own : v \in DOMAIN own' /\ own'[v] = own[v]
  BY <1>1 DEF OwnGrows
<1>3. LsLinksInv'
  BY <1>2 DEF LsLinksInv
<1>4. DOMAIN own' \subseteq Numbers
  BY <1>1 DEF OwnGrows, Numbers
<1>5. ASSUME NEW k \in Practices PROVE LiveAt(k)' = LiveAt(k)
  BY <1>2, <1>4 DEF LsLinksInv, LiveAt, None
<1> QED
  BY <1>3, <1>5

\* What the versions of a copy replaced, they replaced.
LEMMA OldUpdatesStand ==
    ASSUME LsRowsInv, LsCopyInv, OwnGrows, NEW v \in Adoptions \ {1},
           \A a \in Adoptions' : a \in DOMAIN own => a \in Adoptions,
           UpdatesKeepWork, ~ overlap, Replaced(v)'
    PROVE  own'[v].named = v - 1
<1> DEFINE A == {a \in Adoptions : a < v}
<1>1. DOMAIN own = 1..Len(own) /\ Len(own) \in Nat /\ DOMAIN own' = 1..Len(own')
  BY DEF LsRowsInv, OwnGrows
<1>2. /\ v \in 2..Len(own) /\ 1 \in Adoptions /\ Adoptions \subseteq 1..Len(own)
      /\ \A u \in Adoptions : u \in DOMAIN own /\ own'[u] = own[u]
  BY <1>1 DEF Adoptions, LsCopyInv, OwnGrows
<1>3. {a \in Adoptions' : a < v} = A
  BY <1>1, <1>2 DEF Adoptions, OwnGrows
<1>a. A \subseteq Adoptions /\ 1 \in A
  BY <1>2
<1> HIDE DEF A
<1>4. Max(A) \in A
  <2>1. A \in SUBSET Int /\ A # {} /\ A \in SUBSET (1..Len(own))
    BY <1>1, <1>2, <1>a
  <2>2. IsFiniteSet(1..Len(own))
    <3>1. 1 \in Int /\ Len(own) \in Int
      BY <1>1
    <3> QED
      BY <3>1, FS_Interval
  <2>3. IsFiniteSet(A)
    BY <2>1, <2>2, FS_Subset
  <2> QED
    BY <2>1, <2>3, MaxIsAMember
<1>5. own'[v] = own[v] /\ own'[v - 1] = own[v - 1] /\ own'[Max(A)] = own[Max(A)]
  <2>1. Max(A) \in Adoptions
    BY <1>4, <1>a
  <2>2. v - 1 \in DOMAIN own
    BY <1>1, <1>2
  <2> QED
    BY <1>2, <2>1, <2>2 DEF OwnGrows
<1>6. Replaced(v)
  BY <1>3, <1>5 DEF Replaced, A
<1> QED
  BY <1>5, <1>6 DEF UpdatesKeepWork

\* An organisation's first list, by hand or as a copy.
LEMMA FirstVersion ==
    ASSUME ListsInv, own = <<>>, Ready, NEW first \in OwnVersion, own' = <<first>>,
           ownTags' \in [Practices -> TagVia], ~ overlap => Tagged(ownTags') # {},
           basedOn' \in 0..Len(template), basedOn' # 0 => first.cause = "adopted_from_template",
           UNCHANGED <<templateRows, links, txn, overlap>>
    PROVE  ListsInv'
<1> USE DEF ListsInv
<1>1. /\ sheet' = sheet /\ template' = template /\ templateTags' = templateTags
      /\ links' = links /\ txn' = txn /\ overlap' = overlap
  BY DEF templateRows
<1>2. DOMAIN own = {} /\ Len(own) = 0 /\ Adoptions = {} /\ basedOn = 0
  BY DEF Adoptions, LsCopyInv
<1>3. DOMAIN own' = {1} /\ Len(own') = 1 /\ own' \in Seq(OwnVersion) /\ own'[1] = first
  OBVIOUS
<1>4. OwnGrows
  BY <1>2, <1>3, ListsAssumption DEF OwnGrows
<1>5. LsRowsInv'
  BY <1>1, <1>3, ListsAssumption DEF LsRowsInv
<1>6. LsRequestsInv'
  BY <1>1, <1>2, <1>3, AtOnceRequests DEF OnlyAdded, LsRowsInv
<1>7. LsAloneInv'
  BY <1>1, AtOnceAlone
<1>8. LsLinksInv' /\ \A k \in Practices : LiveAt(k)' = {}
  BY <1>1, <1>2, <1>4, LinksStand DEF LiveAt
<1>9. LinksKeepTheirTag'
  <2>1. Cardinality({}) = 0
    BY FS_EmptySet
  <2>2. ASSUME NEW k \in Practices PROVE LiveAt(k)' = {} /\ Cardinality(LiveAt(k)') = 0
    BY <1>8, <2>1
  <2> QED
    BY <2>2 DEF LinksKeepTheirTag
<1>10. Adoptions' \subseteq {1} /\ (basedOn' # 0 => 1 \in Adoptions')
  BY <1>3 DEF Adoptions
<1>11. LsCopyInv' /\ UpdatesKeepWork'
  BY <1>10 DEF LsCopyInv, UpdatesKeepWork
<1>12. ServesAPractice' /\ ImportsNameEdits'
  BY <1>1 DEF ServesAPractice, ImportsNameEdits, ImportsKeepEdits, Tagged
<1> QED
  BY <1>5, <1>6, <1>7, <1>8, <1>9, <1>11, <1>12

\* The first version is made by hand.
LEMMA LsCreateInv ==
    ASSUME ListsInv, NEW c \in Entries, NEW k \in Practices, CreateByHand(c, {k})
    PROVE  ListsInv'
<1>1. HandVersion(c) \in OwnVersion
  BY ListsAssumption DEF HandVersion, OwnVersion
<1>2. /\ own = <<>> /\ Ready /\ own' = <<HandVersion(c)>> /\ basedOn' = basedOn
      /\ UNCHANGED <<templateRows, links, txn, overlap>>
      /\ ownTags' = [j \in Practices |-> IF j \in {k} THEN "api" ELSE None]
  BY DEF CreateByHand
<1>3. ownTags' \in [Practices -> TagVia] /\ k \in Tagged(ownTags')
  BY <1>2 DEF TagVia, Tagged, None
<1>4. basedOn' = 0 /\ 0 \in 0..Len(template)
  BY <1>2 DEF ListsInv, LsCopyInv, Adoptions, LsRowsInv
<1> QED
  BY <1>1, <1>2, <1>3, <1>4, FirstVersion

\* The first version is a copy of the template.
LEMMA LsAdoptInv == ASSUME ListsInv, Adopt PROVE ListsInv'
<1>1. LsRowsInv /\ ServesAPractice
  BY DEF ListsInv
<1>2. /\ own = <<>> /\ template # <<>> /\ Ready /\ own' = <<AdoptedVersion>>
      /\ UNCHANGED <<templateRows, links, txn, overlap>>
      /\ ownTags' = [k \in Practices |->
                        IF k \in Tagged(templateTags) THEN "template_adoption" ELSE None]
      /\ basedOn' = Len(template)
  BY DEF Adopt, TemplateSnap
<1>3. AdoptedVersion \in OwnVersion /\ AdoptedVersion.cause = "adopted_from_template"
  BY <1>1, <1>2, LastTemplate, ListsAssumption
     DEF AdoptedVersion, TemplateSnap, OwnVersion, TemplateVersion
<1>4. ownTags' \in [Practices -> TagVia] /\ Tagged(ownTags') = Tagged(templateTags)
  BY <1>2 DEF TagVia, Tagged, None
<1>5. ~ overlap => Tagged(ownTags') # {}
  BY <1>1, <1>2, <1>4 DEF ServesAPractice
<1>6. basedOn' \in 0..Len(template)
  BY <1>1, <1>2 DEF LsRowsInv
<1> QED
  BY <1>2, <1>3, <1>4, <1>5, <1>6, FirstVersion

\* A tag added, or a link archived: the versions are as they were.
LEMMA SameVersions ==
    ASSUME ListsInv, UNCHANGED <<templateRows, own, basedOn, overlap>>,
           LsRowsInv', LsRequestsInv', LsAloneInv', LsLinksInv', LinksKeepTheirTag',
           ~ overlap => (own # <<>> => Tagged(ownTags') # {})
    PROVE  ListsInv'
<1> USE DEF ListsInv
<1>1. /\ sheet' = sheet /\ template' = template /\ templateTags' = templateTags
      /\ own' = own /\ basedOn' = basedOn /\ overlap' = overlap
  BY DEF templateRows
<1>2. Adoptions' = Adoptions
  BY <1>1 DEF Adoptions
<1>3. \A v \in Adoptions : Replaced(v)' <=> Replaced(v)
  BY <1>1, <1>2 DEF Replaced
<1>4. LsCopyInv' /\ UpdatesKeepWork'
  BY <1>1, <1>2, <1>3 DEF LsCopyInv, UpdatesKeepWork
<1>5. ServesAPractice' /\ ImportsNameEdits'
  BY <1>1 DEF ServesAPractice, ImportsNameEdits, ImportsKeepEdits, Tagged
<1> QED
  BY <1>4, <1>5

\* A tag is added to the list.
LEMMA LsAddTagInv ==
    ASSUME ListsInv, NEW k \in Practices, AddTag(k)
    PROVE  ListsInv'
<1> USE DEF ListsInv
<1>1. /\ UNCHANGED <<templateRows, own, basedOn, overlap>> /\ own # <<>> /\ Ready
      /\ own' = own /\ basedOn' = basedOn /\ overlap' = overlap /\ links' = links
      /\ txn' = txn /\ template' = template /\ templateTags' = templateTags
      /\ sheet' = sheet /\ ownTags' = [ownTags EXCEPT ![k] = "api"]
  BY DEF AddTag, templateRows
<1>2. LsRowsInv'
  BY <1>1 DEF LsRowsInv, TagVia
<1>3. LsRequestsInv'
  BY <1>1, AtOnceRequests DEF OnlyAdded, LsRowsInv
<1>4. LsAloneInv'
  BY <1>1, AtOnceAlone
<1>5. LsLinksInv' /\ \A j \in Practices : LiveAt(j)' = LiveAt(j)
  BY <1>1 DEF LsLinksInv, LiveAt
<1>6. ownTags \in [Practices -> TagVia]
  BY DEF LsRowsInv
<1>7. \A j \in Practices : ownTags[j] # None => ownTags'[j] # None
  BY <1>1, <1>6 DEF None
<1>8. LinksKeepTheirTag'
  BY <1>1, <1>5, <1>7 DEF LinksKeepTheirTag
<1>9. k \in Tagged(ownTags')
  BY <1>1, <1>6 DEF Tagged, None
<1> QED
  BY <1>1, <1>2, <1>3, <1>4, <1>5, <1>8, <1>9, SameVersions

\* The links of a practice are archived.
LEMMA LsUnlinkInv ==
    ASSUME ListsInv, NEW k \in Practices, Unlink(k)
    PROVE  ListsInv'
<1> USE DEF ListsInv
<1>1. /\ UNCHANGED <<templateRows, own, basedOn, overlap>> /\ Ready
      /\ own' = own /\ basedOn' = basedOn /\ overlap' = overlap /\ ownTags' = ownTags
      /\ txn' = txn /\ template' = template /\ templateTags' = templateTags
      /\ sheet' = sheet
      /\ links' = [x \in DOMAIN links |->
                      IF x[2] = k /\ x[1] \in LiveAt(k) THEN "archived" ELSE links[x]]
  BY DEF Unlink, templateRows
<1>2. /\ links \in [Numbers \X Practices -> {None, "live", "archived"}]
      /\ DOMAIN own = 1..Len(own) /\ Len(own) \in Nat /\ Len(own) <= MaxOwn
      /\ MaxOwn \in Nat
  BY ListsAssumption DEF LsRowsInv
<1>3. links' \in [Numbers \X Practices -> {None, "live", "archived"}]
  BY <1>1, <1>2
<1>4. LsRowsInv'
  BY <1>1, <1>3 DEF LsRowsInv
<1>5. \A v \in Numbers, j \in Practices :
          /\ links'[<<v, j>>] = IF j = k /\ v \in LiveAt(k) THEN "archived" ELSE links[<<v, j>>]
          /\ v \in LiveAt(k) => links[<<v, k>>] = "live"
  BY <1>1, <1>2 DEF LiveAt
<1>6. LsRequestsInv'
  <2>1. \A v \in Numbers, j \in Practices : links[<<v, j>>] # None => links'[<<v, j>>] # None
    BY <1>5 DEF None
  <2>2. template \in Seq(TemplateVersion)
    BY DEF LsRowsInv
  <2>3. OnlyAdded
    <3>1. Len(own') \in Nat /\ Len(own) <= Len(own')
      BY <1>1, <1>2
    <3>2. Len(template') \in Nat /\ Len(template) <= Len(template')
      BY <1>1, <2>2
    <3> QED
      BY <1>1, <2>1, <3>1, <3>2 DEF OnlyAdded
  <2> QED
    BY <1>1, <2>3, AtOnceRequests
<1>7. LsAloneInv'
  BY <1>1, AtOnceAlone
<1>8. LsLinksInv'
  <2>1. \A v \in Numbers, j \in Practices : links'[<<v, j>>] # None => links[<<v, j>>] # None
    BY <1>5 DEF None
  <2> QED
    BY <1>1, <2>1 DEF LsLinksInv
<1>9. \A j \in Practices : LiveAt(j)' = IF j = k THEN {} ELSE LiveAt(j)
  <2>1. \A v \in DOMAIN own : v \in Numbers
    BY <1>2 DEF Numbers
  <2> QED
    BY <1>1, <1>5, <2>1 DEF LiveAt
<1>10. LinksKeepTheirTag'
  BY <1>1, <1>9, FS_EmptySet DEF LinksKeepTheirTag
<1> QED
  BY <1>1, <1>4, <1>6, <1>7, <1>8, <1>10, SameVersions DEF ServesAPractice

-----------------------------------------------------------------------------

\* A request that only reads: the versions, tags and links are as they were.
LEMMA OnlyRead ==
    ASSUME ListsInv, UNCHANGED <<templateRows, ownRows, overlap>>,
           LsRequestsInv', LsAloneInv'
    PROVE  ListsInv'
<1> USE DEF ListsInv
<1>1. /\ sheet' = sheet /\ template' = template /\ templateTags' = templateTags
      /\ own' = own /\ ownTags' = ownTags /\ basedOn' = basedOn /\ links' = links
      /\ overlap' = overlap
  BY DEF templateRows, ownRows
<1>2. LsRowsInv'
  BY <1>1 DEF LsRowsInv
<1>3. LsLinksInv' /\ LsCopyInv' /\ LinksKeepTheirTag' /\ UpdatesKeepWork'
  BY OwnStands
<1>4. ServesAPractice' /\ ImportsNameEdits'
  BY <1>1 DEF ServesAPractice, ImportsNameEdits, ImportsKeepEdits, Tagged
<1> QED
  BY <1>2, <1>3, <1>4

\* A request that starts has read what is there now.
LEMMA Begun ==
    ASSUME ListsInv, NEW r \in Requests, NEW t, Start(r, t),
           UNCHANGED <<templateRows, ownRows, overlap>>,
           LsTxnOK(r)', ~ overlap => LsFresh(r)'
    PROVE  ListsInv'
<1>1. /\ LsRowsInv /\ LsRequestsInv /\ template' = template /\ own' = own
      /\ basedOn' = basedOn /\ links' = links /\ overlap' = overlap
  BY DEF ListsInv, templateRows, ownRows
<1>2. txn' = [txn EXCEPT ![r] = t] /\ txn = [q \in Requests |-> txn[q]]
  BY <1>1 DEF Start, LsRequestsInv
<1>3. OnlyAdded
  BY <1>1 DEF OnlyAdded, LsRowsInv
<1>4. LsRequestsInv'
  <2>1. ASSUME NEW q \in Requests PROVE LsTxnOK(q)'
    <3>1. CASE q = r
      BY <3>1
    <3>2. CASE q # r
      <4>1. txn'[q] = txn[q] /\ LsTxnOK(q)
        BY <1>1, <1>2, <3>2 DEF LsRequestsInv
      <4> QED
        BY <1>1, <1>3, <4>1, RequestStands DEF OnlyAdded
    <3> QED
      BY <3>1, <3>2
  <2>2. txn' = [q \in Requests |-> txn'[q]]
    BY <1>2
  <2> QED
    BY <2>1, <2>2 DEF LsRequestsInv
<1>5. LsAloneInv'
  <2> SUFFICES ASSUME ~ overlap PROVE
          /\ \A p, q \in Requests : txn'[p] # Idle /\ txn'[q] # Idle => p = q
          /\ \A q \in Requests : LsFresh(q)'
    BY <1>1 DEF LsAloneInv
  <2>1. \A q \in Requests : q # r => txn'[q] = Idle
    BY <1>2 DEF Start, Ready, Quiet
  <2>2. ASSUME NEW q \in Requests PROVE LsFresh(q)'
    BY <2>1, LsIdle DEF LsFresh
  <2> QED
    BY <2>1, <2>2
<1> QED
  BY <1>4, <1>5, OnlyRead

\* A save reads the version it starts from.
LEMMA LsEditBeginInv ==
    ASSUME ListsInv, NEW r \in Requests, NEW c \in Entries, EditBegin(r, c)
    PROVE  ListsInv'
<1> DEFINE t == [op |-> "edit", base |-> Len(own), number |-> 0, content |-> c]
<1>1. /\ LsRowsInv /\ LsRequestsInv /\ Start(r, t) /\ own # <<>> /\ own' = own
      /\ UNCHANGED <<templateRows, ownRows, overlap>>
  BY DEF ListsInv, EditBegin, ownRows
<1>2. txn'[r] = t
  BY <1>1 DEF Start, LsRequestsInv
<1>3. Len(own) \in Numbers /\ Len(own) \in Nat /\ 0 \in 0..MaxOwn
  BY <1>1, LastOwn, ListsAssumption DEF LsRowsInv
<1>4. t \in EditTxn
  BY <1>3, ListsAssumption DEF EditTxn
<1>5. t.op = "edit" /\ t.base = Len(own) /\ t.number = 0
  OBVIOUS
<1> HIDE DEF t
<1>6. LsTxnOK(r)'
  BY <1>1, <1>2, <1>3, <1>4, <1>5 DEF LsTxnOK
<1>7. LsFresh(r)'
  BY <1>1, <1>2, <1>5 DEF LsFresh
<1> QED
  BY <1>1, <1>6, <1>7, Begun

\* A removal reads what rests on the tag.
LEMMA LsUntagBeginInv ==
    ASSUME ListsInv, NEW r \in Requests, NEW k \in Practices, RemoveTagBegin(r, k)
    PROVE  ListsInv'
<1> DEFINE t == [op |-> "untag", key |-> k]
<1>1. /\ LsRowsInv /\ LsRequestsInv /\ Start(r, t) /\ own' = own /\ ownTags' = ownTags
      /\ links' = links /\ RemovalRefused(ownTags, k, LiveAt(k)) = None
      /\ UNCHANGED <<templateRows, ownRows, overlap>>
  BY DEF ListsInv, RemoveTagBegin, ownRows
<1>2. txn'[r] = t
  BY <1>1 DEF Start, LsRequestsInv
<1>3. t \in UntagTxn /\ t.op = "untag" /\ t.key = k
  BY DEF UntagTxn
<1> HIDE DEF t
<1>4. LsTxnOK(r)'
  BY <1>2, <1>3 DEF LsTxnOK
<1>5. LsFresh(r)'
  <2>1. LiveAt(k)' = LiveAt(k)
    BY <1>1 DEF LiveAt
  <2>2. RemovalRefused(ownTags', k, LiveAt(k)') = None
    BY <1>1, <2>1
  <2> QED
    BY <1>2, <1>3, <2>2 DEF LsFresh
<1> QED
  BY <1>1, <1>4, <1>5, Begun

\* The version a link is made of is the current one, with its rows entered.
LEMMA LinkBegun ==
    ASSUME ListsInv, NEW r \in Requests, NEW k \in Practices, Offered(k),
           Start(r, [op |-> "link", key |-> k, version |-> Len(own), old |-> LiveAt(k)]),
           Len(own) \notin LiveAt(k), UNCHANGED <<templateRows, ownRows, overlap>>
    PROVE  ListsInv'
<1> DEFINE t == [op |-> "link", key |-> k, version |-> Len(own), old |-> LiveAt(k)]
<1>1. /\ LsRowsInv /\ LsRequestsInv /\ own # <<>> /\ own' = own /\ ownTags' = ownTags
      /\ links' = links
  BY DEF ListsInv, ownRows, Offered
<1>2. txn'[r] = t
  BY <1>1 DEF Start, LsRequestsInv
<1>3. /\ Len(own) \in Numbers /\ Len(own) \in Nat /\ Last(own) = own[Len(own)]
      /\ DOMAIN own \subseteq Numbers
  BY <1>1, LastOwn, ListsAssumption DEF LsRowsInv, Numbers
<1>4. LiveAt(k) \in SUBSET Numbers /\ \A v \in LiveAt(k) : links[<<v, k>>] # None
  BY <1>3 DEF LiveAt, None
<1>5. t \in LinkTxn
  BY <1>3, <1>4 DEF LinkTxn
<1>6. t.op = "link" /\ t.key = k /\ t.version = Len(own) /\ t.old = LiveAt(k)
  OBVIOUS
<1> HIDE DEF t
<1>7. IsPopulated(own[Len(own)].content)
  BY <1>3 DEF Offered, NotOfferedReason, None
<1>8. LsTxnOK(r)'
  BY <1>1, <1>2, <1>3, <1>4, <1>5, <1>6, <1>7 DEF LsTxnOK
<1>9. LiveAt(k)' = LiveAt(k) /\ Offered(k)'
  BY <1>1 DEF LiveAt, Offered, NotOfferedReason
<1>10. LsFresh(r)'
  BY <1>2, <1>6, <1>9 DEF LsFresh
<1> QED
  BY <1>8, <1>10, Begun DEF t

\* A first link reads that there is none.
LEMMA LsLinkBeginInv ==
    ASSUME ListsInv, NEW r \in Requests, NEW k \in Practices, LinkBegin(r, k)
    PROVE  ListsInv'
<1>1. LiveAt(k) = {} /\ Offered(k) /\ UNCHANGED <<templateRows, ownRows, overlap>>
  BY DEF LinkBegin
<1>2. Start(r, [op |-> "link", key |-> k, version |-> Len(own), old |-> LiveAt(k)])
  BY <1>1 DEF LinkBegin
<1>3. Len(own) \notin LiveAt(k)
  BY <1>1
<1> QED
  BY <1>1, <1>2, <1>3, LinkBegun

\* A move reads the links it will archive.
LEMMA LsMoveBeginInv ==
    ASSUME ListsInv, NEW r \in Requests, NEW k \in Practices, MoveForwardBegin(r, k)
    PROVE  ListsInv'
BY LinkBegun DEF MoveForwardBegin

\* What an update would write is a version's content, and its tags are practices.
LEMMA PlanOK ==
    ASSUME LsRowsInv, LsCopyInv, basedOn # 0, template # <<>>
    PROVE  UpdatePlan \in Plans /\ own # <<>> /\ Max(Adoptions) \in Adoptions
<1>1. 1 \in Adoptions /\ DOMAIN own = 1..Len(own) /\ Len(own) \in Nat
  BY DEF LsCopyInv, LsRowsInv
<1>2. Adoptions \in SUBSET (1..Len(own)) /\ own # <<>>
  BY <1>1 DEF Adoptions
<1>3. Max(Adoptions) \in Adoptions
  <2>1. IsFiniteSet(1..Len(own))
    <3>1. 1 \in Int /\ Len(own) \in Int
      BY <1>1
    <3> QED
      BY <3>1, FS_Interval
  <2>2. IsFiniteSet(Adoptions)
    BY <1>2, <2>1, FS_Subset
  <2>3. Adoptions \in SUBSET Int /\ Adoptions # {}
    BY <1>1, <1>2
  <2> QED
    BY <2>2, <2>3, MaxIsAMember
<1>4. Last(own).content \in Content /\ Last(template).content \in Content
  BY <1>2, LastOwn, LastTemplate DEF OwnVersion, TemplateVersion
<1> DEFINE mine == Last(own).content
           base == own[Max(Adoptions)].content
           theirs == Last(template).content
           same == mine.filled = base.filled /\ mine.examples = base.examples
           change == TagChanges(ownTags, Tagged(templateTags), "template_adoption")
           kept == [columns |-> theirs.columns, examples |-> mine.examples,
                    filled |-> mine.filled \cap theirs.columns]
<1>5. change \in Changes
  BY DEF TagChanges, Changes, Tagged
<1>6. kept \in Content
  BY <1>4 DEF Content
<1>7. UpdatePlan.content \in Content /\ UpdatePlan.edited \in BOOLEAN /\ UpdatePlan.tags = change
  BY <1>4, <1>6 DEF UpdatePlan
<1>8. UpdatePlan = [content |-> UpdatePlan.content, edited |-> UpdatePlan.edited,
                    tags |-> UpdatePlan.tags]
  BY DEF UpdatePlan
<1> HIDE DEF change
<1> QED
  BY <1>2, <1>3, <1>5, <1>7, <1>8 DEF Plans

\* An update makes its plan from what is there.
LEMMA LsTakeBeginInv ==
    ASSUME ListsInv, NEW r \in Requests, NEW named \in 0..MaxOwn, TakeBegin(r, named)
    PROVE  ListsInv'
<1> DEFINE t == [op |-> "take", base |-> Len(own), number |-> 0, named |-> named,
                 to |-> Len(template), plan |-> UpdatePlan]
<1>1. /\ LsRowsInv /\ LsRequestsInv /\ LsCopyInv /\ Start(r, t) /\ basedOn # 0
      /\ UpdateAllowed(UpdatePlan, named) /\ own' = own /\ ownTags' = ownTags
      /\ links' = links /\ template' = template /\ templateTags' = templateTags
      /\ basedOn' = basedOn /\ UNCHANGED <<templateRows, ownRows, overlap>>
  BY DEF ListsInv, TakeBegin, templateRows, ownRows
<1>2. txn'[r] = t
  BY <1>1 DEF Start, LsRequestsInv
<1>3. template # <<>> /\ Len(template) \in 1..MaxTemplate
  <2>1. template # <<>>
    BY <1>1 DEF LsRowsInv
  <2> QED
    BY <1>1, <2>1, LastTemplate
<1>4. UpdatePlan \in Plans /\ own # <<>>
  BY <1>1, <1>3, PlanOK
<1>5. Len(own) \in Numbers /\ Len(own) \in Nat /\ 0 \in 0..MaxOwn
  BY <1>1, <1>4, LastOwn, ListsAssumption DEF LsRowsInv
<1>6. t \in TakeTxn
  BY <1>3, <1>4, <1>5 DEF TakeTxn
<1>7. /\ t.op = "take" /\ t.base = Len(own) /\ t.number = 0 /\ t.to = Len(template)
      /\ t.plan = UpdatePlan /\ t.named = named
  OBVIOUS
<1> HIDE DEF t
<1>8. LsTxnOK(r)'
  BY <1>1, <1>2, <1>3, <1>5, <1>6, <1>7 DEF LsTxnOK
<1>9. UpdatePlan' = UpdatePlan /\ \A k \in Practices : LiveAt(k)' = LiveAt(k)
  BY <1>1 DEF UpdatePlan, Adoptions, LiveAt
<1>10. UpdateAllowed(UpdatePlan, named)'
  <2>1. UpdatePlan.tags.remove \subseteq Practices
    BY <1>4 DEF Plans, Changes
  <2> QED
    BY <1>1, <1>9, <2>1 DEF UpdateAllowed
<1>11. LsFresh(r)'
  <2>1. UpdateAllowed(txn[r].plan, txn[r].named)'
    BY <1>2, <1>7, <1>9, <1>10
  <2> QED
    BY <1>1, <1>2, <1>7, <1>9, <2>1 DEF LsFresh
<1> QED
  BY <1>1, <1>8, <1>11, Begun

\* What an import changes of the tags is on practices.
LEMMA ImportedTagsOK == ASSUME LsRowsInv PROVE ImportedTags \in Changes
BY PlannedOK DEF ImportedTags, TagChanges, Changes

\* An import makes its diff from what is there.
LEMMA LsImportBeginInv ==
    ASSUME ListsInv, NEW r \in Requests, NEW named \in 0..MaxTemplate, ImportBegin(r, named)
    PROVE  ListsInv'
<1> DEFINE t == [op |-> "import", what |-> ImportAction, named |-> named,
                 number |-> 0, retag |-> {}]
<1>1. /\ LsRowsInv /\ LsRequestsInv /\ Start(r, t) /\ named = Overwritten
      /\ ImportAction # "unchanged" /\ sheet' = sheet /\ template' = template
      /\ templateTags' = templateTags /\ UNCHANGED <<templateRows, ownRows, overlap>>
  BY DEF ListsInv, ImportBegin, templateRows
<1>2. txn'[r] = t
  BY <1>1 DEF Start, LsRequestsInv
<1>3. Len(template) \in Nat /\ MaxTemplate \in Nat
  BY <1>1, ListsAssumption DEF LsRowsInv
<1>4. ImportAction \in {"create", "conflict", "new_version", "tags"}
  BY <1>1 DEF ImportAction
<1>5. t \in ImportTxn
  BY <1>3, <1>4 DEF ImportTxn
<1>6. /\ t.op = "import" /\ t.what = ImportAction /\ t.named = Overwritten
      /\ t.number = 0 /\ t.retag = {}
  BY <1>1
<1> HIDE DEF t
<1>7. LsTxnOK(r)'
  BY <1>1, <1>2, <1>3, <1>5, <1>6 DEF LsTxnOK
<1>8. ImportAction' = ImportAction /\ Overwritten' = Overwritten
  BY <1>1 DEF ImportAction, Overwritten, PlannedContent, PlannedKeys, TagsDiffer, TagChanges,
              Tagged
<1>9. LsFresh(r)'
  BY <1>2, <1>6, <1>8 DEF LsFresh
<1> QED
  BY <1>1, <1>7, <1>9, Begun

\* A person's save of the template has its content.
LEMMA LsRewriteBeginInv ==
    ASSUME ListsInv, NEW r \in Requests, NEW c \in Rewrites, RewriteBegin(r, c)
    PROVE  ListsInv'
<1> DEFINE t == [op |-> "rewrite", number |-> 0, content |-> c]
<1>1. /\ LsRowsInv /\ LsRequestsInv /\ Start(r, t) /\ template # <<>> /\ template' = template
      /\ UNCHANGED <<templateRows, ownRows, overlap>>
  BY DEF ListsInv, RewriteBegin, templateRows
<1>2. txn'[r] = t
  BY <1>1 DEF Start, LsRequestsInv
<1>3. Len(template) \in Nat /\ MaxTemplate \in Nat /\ Len(template) # 0
  BY <1>1, LastTemplate, ListsAssumption DEF LsRowsInv
<1>4. t \in RewriteTxn /\ t.op = "rewrite" /\ t.number = 0
  BY <1>3, ListsAssumption DEF RewriteTxn
<1> HIDE DEF t
<1>5. LsTxnOK(r)'
  BY <1>1, <1>2, <1>3, <1>4 DEF LsTxnOK
<1>6. LsFresh(r)'
  BY <1>2, <1>4 DEF LsFresh
<1> QED
  BY <1>1, <1>5, <1>6, Begun

\* A removal of a template's tag reads that another is left.
LEMMA LsTemplateUntagBeginInv ==
    ASSUME ListsInv, NEW r \in Requests, NEW k \in Practices, UntagTemplateBegin(r, k)
    PROVE  ListsInv'
<1> DEFINE t == [op |-> "template_untag", key |-> k]
<1>1. /\ LsRowsInv /\ LsRequestsInv /\ Start(r, t) /\ templateTags' = templateTags
      /\ RemovalRefused(templateTags, k, {}) = None
      /\ UNCHANGED <<templateRows, ownRows, overlap>>
  BY DEF ListsInv, UntagTemplateBegin, templateRows
<1>2. txn'[r] = t
  BY <1>1 DEF Start, LsRequestsInv
<1>3. t \in TemplateUntagTxn /\ t.op = "template_untag" /\ t.key = k
  BY DEF TemplateUntagTxn
<1> HIDE DEF t
<1>4. LsTxnOK(r)'
  BY <1>2, <1>3 DEF LsTxnOK
<1>5. LsFresh(r)'
  BY <1>1, <1>2, <1>3 DEF LsFresh
<1> QED
  BY <1>1, <1>4, <1>5, Begun

\* A request that reads on: the others, and the rows, are as they were.
LEMMA ReadOn ==
    ASSUME ListsInv, NEW r \in Requests, txn[r].op # "idle", NEW t,
           txn' = [txn EXCEPT ![r] = t], UNCHANGED <<templateRows, ownRows, overlap>>,
           LsTxnOK(r)', ~ overlap => LsFresh(r)'
    PROVE  ListsInv'
<1>1. /\ LsRowsInv /\ LsRequestsInv /\ LsAloneInv /\ template' = template /\ own' = own
      /\ basedOn' = basedOn /\ links' = links /\ overlap' = overlap
      /\ txn = [q \in Requests |-> txn[q]]
  BY DEF ListsInv, LsRequestsInv, templateRows, ownRows
<1>2. OnlyAdded
  BY <1>1 DEF OnlyAdded, LsRowsInv
<1>3. LsRequestsInv'
  <2>1. ASSUME NEW q \in Requests PROVE LsTxnOK(q)'
    <3>1. CASE q = r
      BY <3>1
    <3>2. CASE q # r
      <4>1. txn'[q] = txn[q] /\ LsTxnOK(q)
        BY <1>1, <3>2 DEF LsRequestsInv
      <4> QED
        BY <1>1, <1>2, <4>1, RequestStands DEF OnlyAdded
    <3> QED
      BY <3>1, <3>2
  <2>2. txn' = [q \in Requests |-> txn'[q]]
    BY <1>1
  <2> QED
    BY <2>1, <2>2 DEF LsRequestsInv
<1>4. LsAloneInv'
  <2> SUFFICES ASSUME ~ overlap PROVE
          /\ \A p, q \in Requests : txn'[p] # Idle /\ txn'[q] # Idle => p = q
          /\ \A q \in Requests : LsFresh(q)'
    BY <1>1 DEF LsAloneInv
  <2>1. \A q \in Requests : q # r => txn'[q] = Idle
    BY <1>1, LsIdle DEF LsAloneInv
  <2>2. ASSUME NEW q \in Requests PROVE LsFresh(q)'
    <3>1. CASE q = r
      BY <3>1
    <3>2. CASE q # r
      BY <2>1, <3>2, LsIdle DEF LsFresh
    <3> QED
      BY <3>1, <3>2
  <2> QED
    BY <2>1, <2>2
<1> QED
  BY <1>3, <1>4, OnlyRead

\* The number is asked for: what was read before it stays as it was read.
LEMMA LsNumberInv ==
    ASSUME ListsInv, NEW r \in Requests, Number(r)
    PROVE  ListsInv'
<1>1. /\ LsRowsInv /\ LsRequestsInv /\ LsAloneInv /\ template' = template /\ own' = own
      /\ ownTags' = ownTags /\ templateTags' = templateTags
      /\ basedOn' = basedOn /\ links' = links /\ overlap' = overlap
      /\ UNCHANGED <<templateRows, ownRows, overlap>>
  BY DEF ListsInv, Number, templateRows, ownRows
<1>2. /\ txn' = [txn EXCEPT ![r].number = Len(own) + 1]
      /\ txn = [q \in Requests |-> txn[q]] /\ txn[r].op \in {"edit", "take"}
      /\ Len(own) < MaxOwn /\ Len(own) \in Nat /\ LsTxnOK(r)
  BY <1>1 DEF Number, LsRequestsInv, LsRowsInv
<1>3. txn'[r] = [txn[r] EXCEPT !.number = Len(own) + 1]
  BY <1>2
<1>4. Len(own) + 1 \in 0..MaxOwn
  BY <1>2, ListsAssumption
<1>5. txn[r] \in EditTxn \cup TakeTxn
  BY <1>2, LsIdle DEF LsTxnOK
<1>6. /\ txn'[r] \in EditTxn \cup TakeTxn /\ txn'[r].op = txn[r].op
      /\ txn'[r].base = txn[r].base /\ txn'[r].number = Len(own) + 1
      /\ txn[r].op = "take" => /\ txn'[r].to = txn[r].to /\ txn'[r].plan = txn[r].plan
                               /\ txn'[r].named = txn[r].named
  <2>1. CASE txn[r] \in EditTxn
    <3>1. txn'[r] \in EditTxn
      BY <1>3, <1>4, <2>1 DEF EditTxn
    <3> QED
      BY <1>3, <2>1, <3>1 DEF EditTxn
  <2>2. CASE txn[r] \in TakeTxn
    <3>1. txn'[r] \in TakeTxn
      BY <1>3, <1>4, <2>2 DEF TakeTxn
    <3> QED
      BY <1>3, <2>2, <3>1 DEF TakeTxn
  <2> QED
    BY <1>5, <2>1, <2>2
<1>7. LsTxnOK(r)'
  BY <1>1, <1>2, <1>6 DEF LsTxnOK
<1>8. ASSUME ~ overlap PROVE LsFresh(r)'
  <2>1. LsFresh(r)
    BY <1>1, <1>8 DEF LsAloneInv
  <2>2. UpdatePlan' = UpdatePlan /\ \A k \in Practices : LiveAt(k)' = LiveAt(k)
    BY <1>1 DEF UpdatePlan, Adoptions, LiveAt
  <2>3. ASSUME txn[r].op = "take" PROVE UpdateAllowed(txn[r].plan, txn[r].named)'
    <3>1. txn[r].plan.tags.remove \subseteq Practices
      BY <1>5, <2>3, LsIdle DEF TakeTxn, Plans, Changes
    <3> QED
      BY <1>1, <1>6, <2>1, <2>2, <2>3, <3>1 DEF UpdateAllowed, LsFresh
  <2> QED
    BY <1>1, <1>2, <1>6, <2>1, <2>2, <2>3 DEF LsFresh
<1>9. txn' = [txn EXCEPT ![r] = [txn[r] EXCEPT !.number = Len(own) + 1]]
  BY <1>2
<1> QED
  BY <1>1, <1>2, <1>7, <1>8, <1>9, ReadOn

\* An import or a save of the template asks for its number.
LEMMA LsTemplateNumberInv ==
    ASSUME ListsInv, NEW r \in Requests, TemplateNumber(r)
    PROVE  ListsInv'
<1> DEFINE n == IF Creates(txn[r]) THEN 1 ELSE Len(template) + 1
           t == [txn[r] EXCEPT !.number = n]
<1>1. /\ LsRowsInv /\ LsRequestsInv /\ LsAloneInv /\ LsTxnOK(r)
      /\ txn[r].op \in {"import", "rewrite"} /\ Len(template) < MaxTemplate
      /\ txn' = [txn EXCEPT ![r].number = n]
      /\ sheet' = sheet /\ template' = template /\ templateTags' = templateTags
      /\ UNCHANGED <<templateRows, ownRows, overlap>>
  BY DEF ListsInv, LsRequestsInv, TemplateNumber, templateRows
<1>2. Len(template) \in Nat /\ n \in 0..MaxTemplate /\ n <= Len(template) + 1 /\ n # 0
  BY <1>1, ListsAssumption DEF LsRowsInv
<1>3. txn[r] \in ImportTxn \cup RewriteTxn
  BY <1>1, LsIdle DEF LsTxnOK
<1>4. txn' = [txn EXCEPT ![r] = t] /\ txn'[r] = t
  BY <1>1 DEF LsRequestsInv
<1>5. ASSUME ~ overlap PROVE LsFresh(r) /\ n = Len(template) + 1
  <2>1. LsFresh(r)
    BY <1>1, <1>5 DEF LsAloneInv
  <2>2. Creates(txn[r]) => template = <<>>
    BY <2>1 DEF Creates, LsFresh, ImportAction
  <2> QED
    BY <1>1, <2>1, <2>2 DEF LsRowsInv
<1>6. ImportAction' = ImportAction /\ Overwritten' = Overwritten /\ ImportedTags' = ImportedTags
  BY <1>1 DEF ImportAction, Overwritten, PlannedContent, PlannedKeys, TagsDiffer, TagChanges,
              Tagged, ImportedTags
<1> HIDE DEF n
<1>7. /\ t \in ImportTxn \cup RewriteTxn /\ t.op = txn[r].op /\ t.number = n
      /\ txn[r].op = "import" => /\ t.what = txn[r].what /\ t.named = txn[r].named
                                 /\ t.retag = txn[r].retag
  <2>1. CASE txn[r] \in ImportTxn
    BY <1>2, <2>1 DEF ImportTxn
  <2>2. CASE txn[r] \in RewriteTxn
    BY <1>2, <2>2 DEF RewriteTxn
  <2> QED
    BY <1>3, <2>1, <2>2
<1> HIDE DEF t
<1>8. LsTxnOK(r)'
  BY <1>1, <1>2, <1>4, <1>7 DEF LsTxnOK
<1>9. ~ overlap => LsFresh(r)'
  BY <1>1, <1>4, <1>5, <1>6, <1>7 DEF LsFresh
<1> QED
  BY <1>1, <1>4, <1>8, <1>9, ReadOn

\* An import reads the tags it will change.
LEMMA LsImportTagsInv ==
    ASSUME ListsInv, NEW r \in Requests, ImportTags(r)
    PROVE  ListsInv'
<1> DEFINE t == [txn[r] EXCEPT !.retag = {ImportedTags}]
<1>1. /\ LsRowsInv /\ LsRequestsInv /\ LsAloneInv /\ LsTxnOK(r) /\ txn[r].op = "import"
      /\ txn[r].what # "tags" => txn[r].number # 0
      /\ txn' = [txn EXCEPT ![r].retag = {ImportedTags}]
      /\ sheet' = sheet /\ template' = template /\ templateTags' = templateTags
      /\ UNCHANGED <<templateRows, ownRows, overlap>>
  BY DEF ListsInv, LsRequestsInv, ImportTags, templateRows
<1>2. txn[r] \in ImportTxn /\ ImportedTags \in Changes
  BY <1>1, LsIdle, ImportedTagsOK DEF LsTxnOK
<1>3. txn' = [txn EXCEPT ![r] = t] /\ txn'[r] = t
  BY <1>1 DEF LsRequestsInv
<1>4. /\ t \in ImportTxn /\ t.op = "import" /\ t.what = txn[r].what /\ t.named = txn[r].named
      /\ t.number = txn[r].number /\ t.retag = {ImportedTags}
  BY <1>2 DEF ImportTxn
<1> HIDE DEF t
<1>5. ImportAction' = ImportAction /\ Overwritten' = Overwritten /\ ImportedTags' = ImportedTags
  BY <1>1 DEF ImportAction, Overwritten, PlannedContent, PlannedKeys, TagsDiffer, TagChanges,
              Tagged, ImportedTags
<1>6. LsTxnOK(r)'
  BY <1>1, <1>3, <1>4 DEF LsTxnOK
<1>7. ASSUME ~ overlap PROVE LsFresh(r)'
  <2>1. LsFresh(r)
    BY <1>1, <1>7 DEF LsAloneInv
  <2> QED
    BY <1>1, <1>3, <1>4, <1>5, <2>1 DEF LsFresh
<1> QED
  BY <1>1, <1>3, <1>6, <1>7, ReadOn

-----------------------------------------------------------------------------

\* A request that ends leaves the others as they were, and nobody alone.
LEMMA Over ==
    ASSUME LsRowsInv, LsRequestsInv, LsAloneInv, NEW r \in Requests, txn[r].op # "idle",
           Done(r), OnlyAdded, overlap' = overlap
    PROVE  LsRequestsInv' /\ LsAloneInv'
<1>1. txn' = [txn EXCEPT ![r] = Idle] /\ txn = [q \in Requests |-> txn[q]]
  BY DEF Done, LsRequestsInv
<1>2. ASSUME NEW q \in Requests PROVE LsTxnOK(q)'
  <2>1. CASE q = r
    BY <1>1, <2>1, LsIdle DEF LsTxnOK
  <2>2. CASE q # r
    <3>1. txn'[q] = txn[q] /\ LsTxnOK(q)
      BY <1>1, <2>2 DEF LsRequestsInv
    <3> QED
      BY <3>1, RequestStands DEF OnlyAdded
  <2> QED
    BY <2>1, <2>2
<1>3. LsRequestsInv'
  BY <1>1, <1>2 DEF LsRequestsInv
<1>4. ~ overlap => \A q \in Requests : txn'[q] = Idle
  BY <1>1, LsIdle DEF LsAloneInv
<1>5. LsAloneInv'
  BY <1>4, LsIdle DEF LsAloneInv, LsFresh
<1> QED
  BY <1>3, <1>5

\* A refused save or update leaves everything as it was.
LEMMA RefusedInv ==
    ASSUME ListsInv, NEW r \in Requests, txn[r].op # "idle", Done(r),
           UNCHANGED <<templateRows, ownRows, overlap>>
    PROVE  ListsInv'
<1>1. /\ template' = template /\ own' = own /\ basedOn' = basedOn /\ links' = links
      /\ overlap' = overlap
  BY DEF templateRows, ownRows
<1>2. OnlyAdded
  BY <1>1 DEF OnlyAdded, ListsInv, LsRowsInv
<1>3. LsRequestsInv' /\ LsAloneInv'
  BY <1>1, <1>2, Over DEF ListsInv
<1> QED
  BY <1>3, OnlyRead

\* A version added to the template; without overlap one that buries an edit
\* names it.
Grown(new) ==
    /\ Len(template) < MaxTemplate /\ template' = Append(template, new)
    /\ overlap \/ template = <<>> \/ new.via = "api" \/ template[Len(template)].via # "api"
         \/ new.named = Len(template)

\* The template gains a version, or only its tags change, and one stays.
LEMMA TemplateGrows ==
    ASSUME ListsInv, NEW r \in Requests, txn[r].op # "idle", Done(r),
           template' = template \/ \E new \in TemplateVersion : Grown(new),
           templateTags' \in [Practices -> TagVia],
           ~ overlap => Tagged(templateTags') # {},
           UNCHANGED <<sheet, ownRows, overlap>>
    PROVE  ListsInv'
<1> USE DEF ListsInv
<1>1. /\ sheet' = sheet /\ UNCHANGED <<ownRows, overlap>>
      /\ own' = own /\ basedOn' = basedOn /\ links' = links /\ ownTags' = ownTags
      /\ overlap' = overlap
  BY DEF ownRows
<1>2. template \in Seq(TemplateVersion) /\ Len(template) \in Nat /\ MaxTemplate \in Nat
  BY ListsAssumption DEF LsRowsInv
<1>3. /\ template' \in Seq(TemplateVersion) /\ Len(template') <= MaxTemplate
      /\ Len(template') \in Nat /\ Len(template) <= Len(template')
  <2>1. CASE template' = template
    BY <1>2, <2>1 DEF ListsInv, LsRowsInv
  <2>2. CASE \E new \in TemplateVersion : Grown(new)
    BY <1>2, <2>2 DEF Grown
  <2> QED
    BY <2>1, <2>2
<1>4. LsRowsInv'
  BY <1>1, <1>2, <1>3 DEF LsRowsInv
<1>5. OnlyAdded
  BY <1>1, <1>3 DEF OnlyAdded, LsRowsInv
<1>6. LsRequestsInv' /\ LsAloneInv'
  BY <1>1, <1>5, Over
<1>7. LsLinksInv' /\ LsCopyInv' /\ LinksKeepTheirTag' /\ UpdatesKeepWork'
  BY <1>1, OwnStands
<1>8. ServesAPractice'
  BY <1>1 DEF ServesAPractice, Tagged
<1>9. ImportsNameEdits'
  <2>1. CASE template' = template
    BY <1>1, <2>1 DEF ImportsNameEdits, ImportsKeepEdits
  <2>2. ASSUME NEW new \in TemplateVersion, Grown(new) PROVE ImportsNameEdits'
    <3> USE <2>2 DEF Grown
    <3> SUFFICES ASSUME ~ overlap, NEW v \in DOMAIN template' \ {1},
                        template'[v].via = "template_import", template'[v - 1].via = "api"
                 PROVE  template'[v].named = v - 1
      BY <1>1 DEF ImportsNameEdits, ImportsKeepEdits
    <3>1. CASE v \in DOMAIN template
      <4>1. template'[v] = template[v] /\ template'[v - 1] = template[v - 1]
        BY <1>2, <3>1
      <4> QED
        BY <3>1, <4>1 DEF ImportsNameEdits, ImportsKeepEdits
    <3>2. CASE v \notin DOMAIN template
      <4>1. v = Len(template) + 1 /\ template'[v] = new /\ template # <<>>
            /\ template'[v - 1] = template[Len(template)]
        BY <1>2, <3>2
      <4> QED
        BY <4>1, <1>2
    <3> QED
      BY <3>1, <3>2
  <2> QED
    BY <2>1, <2>2
<1> QED
  BY <1>4, <1>6, <1>7, <1>8, <1>9

\* Alone, an import is not refused, and leaves the sheet's content and its tags.
LEMMA ImportLeaves ==
    ASSUME ListsInv, NEW r \in Requests, ImportCommit(r), ~ overlap
    PROVE  /\ template' # <<>> /\ Last(template)'.content = PlannedContent
           /\ templateTags' \in [Practices -> TagVia]
           /\ PlannedKeys \subseteq Tagged(templateTags')
           /\ \A k \in Practices \ PlannedKeys : templateTags'[k] # "template_import"
<1> DEFINE t == txn[r]
           new == [content |-> PlannedContent, via |-> "template_import", named |-> t.named]
<1>1. /\ LsRowsInv /\ t.op = "import" /\ t.retag # {} /\ LsFresh(r)
      /\ template \in Seq(TemplateVersion) /\ templateTags \in [Practices -> TagVia]
  BY DEF ListsInv, LsAloneInv, LsRowsInv, ImportCommit
<1>2. t.retag = {ImportedTags} /\ t.what = ImportAction /\ t.number \in {0, Len(template) + 1}
  BY <1>1 DEF LsFresh
<1>3. t.number \notin DOMAIN template /\ ImportedTags.add \cap Tagged(templateTags) = {}
  BY <1>1, <1>2 DEF ImportedTags, TagChanges
<1>4. (CHOOSE c \in t.retag : TRUE) = ImportedTags
  BY <1>2
<1>5. /\ template' = IF t.what = "tags" THEN template ELSE Append(template, new)
      /\ templateTags' = Retag(templateTags, ImportedTags, "template_import")
  BY <1>3, <1>4 DEF ImportCommit
<1>6. /\ templateTags' \in [Practices -> TagVia]
      /\ PlannedKeys \subseteq Tagged(templateTags')
      /\ \A k \in Practices \ PlannedKeys : templateTags'[k] # "template_import"
  <2>1. PlannedKeys \in SUBSET Practices /\ "template_import" \in TagVia \ {None}
    BY <1>1, PlannedOK DEF TagVia, None
  <2>2. templateTags' = Retag(templateTags, TagChanges(templateTags, PlannedKeys,
                                                       "template_import"), "template_import")
    BY <1>5 DEF ImportedTags
  <2>3. templateTags \in [Practices -> TagVia]
    BY <1>1
  <2> QED
    BY <2>1, <2>2, <2>3, RetagServes
<1>7. CASE t.what = "tags"
  BY <1>2, <1>5, <1>6, <1>7 DEF ImportAction
<1>8. CASE t.what # "tags"
  <2>1. template' # <<>> /\ Last(template)' = new
    BY <1>1, <1>5, <1>8 DEF Last
  <2> QED
    BY <1>6, <2>1
<1> QED
  BY <1>7, <1>8

\* Importing the same workbook again proposes nothing.
LEMMA ImportSettled ==
    ASSUME ListsInv, NEW r \in Requests, ImportCommit(r), ~ overlap
    PROVE  ImportAction' = "unchanged"
<1>1. sheet' = sheet
  BY DEF ImportCommit
<1>2. PlannedContent' = PlannedContent /\ PlannedKeys' = PlannedKeys
  BY <1>1 DEF PlannedContent, PlannedKeys
<1>3. ~ TagsDiffer'
  <2>1. TagChanges(templateTags, PlannedKeys, "template_import")'.add = {}
    BY <1>2, ImportLeaves DEF TagChanges
  <2>2. TagChanges(templateTags, PlannedKeys, "template_import")'.remove = {}
    BY <1>2, ImportLeaves DEF TagChanges
  <2> QED
    BY <2>1, <2>2 DEF TagsDiffer
<1> QED
  BY <1>2, <1>3, ImportLeaves DEF ImportAction

\* An import adds a version, only changes tags, or is refused.
LEMMA LsImportInv ==
    ASSUME ListsInv, NEW r \in Requests, ImportCommit(r)
    PROVE  ListsInv'
<1> DEFINE t == txn[r]
           new == [content |-> PlannedContent, via |-> "template_import", named |-> t.named]
           changes == CHOOSE c \in t.retag : TRUE
           refused == t.number \in DOMAIN template \/ changes.add \cap Tagged(templateTags) # {}
<1>1. /\ LsRowsInv /\ LsRequestsInv /\ LsAloneInv /\ t.op = "import" /\ t.retag # {}
      /\ Done(r) /\ LsTxnOK(r) /\ UNCHANGED <<sheet, ownRows, overlap>>
      /\ template \in Seq(TemplateVersion) /\ templateTags \in [Practices -> TagVia]
      /\ Len(template) \in Nat
  BY DEF ListsInv, LsRequestsInv, LsRowsInv, ImportCommit
<1>2. /\ t \in ImportTxn /\ t.number <= Len(template) + 1
      /\ t.what # "tags" => t.number # 0
  BY <1>1, LsIdle DEF LsTxnOK
<1>3. CASE refused
  <2>1. UNCHANGED <<template, templateTags>>
    BY <1>3 DEF ImportCommit
  <2> QED
    BY <1>1, <2>1, RefusedInv DEF templateRows
<1>4. CASE ~ refused
  <2>1. /\ template' = IF t.what = "tags" THEN template ELSE Append(template, new)
        /\ templateTags' = Retag(templateTags, changes, "template_import")
    BY <1>4 DEF ImportCommit
  <2>2. new \in TemplateVersion
    BY <1>1, <1>2, PlannedOK DEF TemplateVersion, ImportTxn
  <2>3. t.what # "tags" => Len(template) < MaxTemplate
    <3>1. t.number \notin 1..Len(template) /\ t.number \in 0..MaxTemplate
      BY <1>1, <1>2, <1>4 DEF ImportTxn
    <3> QED
      BY <1>1, <1>2, <3>1, ListsAssumption
  <2>4. ASSUME ~ overlap, t.what # "tags"
        PROVE  template = <<>> \/ template[Len(template)].via # "api" \/ new.named = Len(template)
    <3>1. t.what = ImportAction /\ t.named = Overwritten
      BY <1>1, <2>4 DEF LsAloneInv, LsFresh
    <3>2. CASE ImportAction = "conflict"
      BY <3>1, <3>2 DEF Overwritten
    <3>3. CASE ImportAction \in {"create", "new_version"}
      BY <1>1, <3>3, LastTemplate DEF ImportAction
    <3>4. ImportAction \in {"conflict", "create", "new_version"}
      BY <1>2, <2>4, <3>1 DEF ImportTxn
    <3> QED
      BY <3>2, <3>3, <3>4
  <2>5. templateTags' \in [Practices -> TagVia]
    BY <1>1, <2>1 DEF Retag, TagVia
  <2>6. ~ overlap => Tagged(templateTags') # {}
    BY <1>1, ImportLeaves, PlannedOK
  <2> HIDE DEF new
  <2>7. template' = template \/ Grown(new)
    BY <2>1, <2>3, <2>4 DEF Grown
  <2> QED
    BY <1>1, <2>2, <2>5, <2>6, <2>7, TemplateGrows
<1> QED
  BY <1>3, <1>4

\* A person's save of the template adds a version, unless its number is taken.
LEMMA LsRewriteInv ==
    ASSUME ListsInv, NEW r \in Requests, RewriteCommit(r)
    PROVE  ListsInv'
<1> DEFINE t == txn[r]
           new == [content |-> t.content, via |-> "api", named |-> 0]
<1>1. /\ LsRowsInv /\ ServesAPractice /\ t.op = "rewrite" /\ t.number # 0 /\ Done(r)
      /\ LsTxnOK(r) /\ templateTags' = templateTags /\ UNCHANGED <<sheet, ownRows, overlap>>
      /\ template \in Seq(TemplateVersion) /\ templateTags \in [Practices -> TagVia]
      /\ Len(template) \in Nat
  BY DEF ListsInv, LsRequestsInv, LsRowsInv, RewriteCommit
<1>2. t \in RewriteTxn /\ t.number <= Len(template) + 1 /\ Len(template) # 0
  BY <1>1, LsIdle DEF LsTxnOK
<1>3. new \in TemplateVersion /\ new.via = "api"
  BY <1>2, ListsAssumption DEF TemplateVersion, RewriteTxn
<1>4. template' = template \/ Grown(new)
  <2>1. CASE t.number \in DOMAIN template
    BY <2>1 DEF RewriteCommit
  <2>2. CASE t.number \notin DOMAIN template
    <3>1. template' = Append(template, new)
      BY <2>2 DEF RewriteCommit
    <3>2. t.number \in 0..MaxTemplate /\ t.number \notin 1..Len(template)
      BY <1>1, <1>2, <2>2 DEF RewriteTxn
    <3>3. Len(template) < MaxTemplate
      BY <1>1, <1>2, <3>2, ListsAssumption
    <3> QED
      BY <1>3, <3>1, <3>3 DEF Grown
  <2> QED
    BY <2>1, <2>2
<1>5. ~ overlap => Tagged(templateTags') # {}
  BY <1>1, <1>2 DEF ServesAPractice
<1> HIDE DEF new
<1> QED
  BY <1>1, <1>3, <1>4, <1>5, TemplateGrows

\* The provider removes a tag of the template; alone, another stays.
LEMMA LsTemplateUntagInv ==
    ASSUME ListsInv, NEW r \in Requests, UntagTemplateCommit(r)
    PROVE  ListsInv'
<1> DEFINE k == txn[r].key
<1>1. /\ LsAloneInv /\ LsTxnOK(r) /\ txn[r].op = "template_untag" /\ Done(r)
      /\ template' = template /\ templateTags' = [templateTags EXCEPT ![k] = None]
      /\ UNCHANGED <<sheet, ownRows, overlap>>
      /\ templateTags \in [Practices -> TagVia]
  BY DEF ListsInv, LsRequestsInv, LsRowsInv, UntagTemplateCommit
<1>2. k \in Practices
  BY <1>1, LsIdle DEF LsTxnOK, TemplateUntagTxn
<1>3. templateTags' \in [Practices -> TagVia]
  BY <1>1 DEF TagVia
<1>4. ASSUME ~ overlap PROVE Tagged(templateTags') # {}
  <2>1. RemovalRefused(templateTags, k, {}) = None
    BY <1>1, <1>4 DEF LsAloneInv, LsFresh
  <2>2. PICK j \in Tagged(templateTags) : j # k
    BY <1>1, <1>2, <2>1, RemovalAllowed
  <2>3. j \in Tagged(templateTags')
    BY <1>1, <2>2 DEF Tagged
  <2> QED
    BY <2>3
<1> QED
  BY <1>1, <1>3, <1>4, TemplateGrows

\* The tag goes: where requests do not overlap, another stays and no link rests on it.
LEMMA LsUntagInv ==
    ASSUME ListsInv, NEW r \in Requests, RemoveTagCommit(r)
    PROVE  ListsInv'
<1>1. /\ LsRowsInv /\ LsRequestsInv /\ LsAloneInv /\ LsLinksInv /\ LinksKeepTheirTag
      /\ txn[r].op = "untag" /\ Done(r)
      /\ own' = own /\ basedOn' = basedOn /\ links' = links /\ overlap' = overlap
      /\ template' = template /\ templateTags' = templateTags /\ sheet' = sheet
      /\ ownTags' = [ownTags EXCEPT ![txn[r].key] = None]
      /\ UNCHANGED <<templateRows, own, basedOn, overlap>>
  BY DEF ListsInv, RemoveTagCommit, templateRows
<1>2. txn[r].key \in Practices
  BY <1>1, LsIdle DEF LsRequestsInv, LsTxnOK, UntagTxn
<1>3. LsRowsInv'
  BY <1>1 DEF LsRowsInv, TagVia
<1>4. OnlyAdded
  BY <1>1 DEF OnlyAdded, LsRowsInv
<1>5. LsRequestsInv' /\ LsAloneInv'
  BY <1>1, <1>4, Over
<1>6. LsLinksInv' /\ \A k \in Practices : LiveAt(k)' = LiveAt(k)
  BY <1>1 DEF LsLinksInv, LiveAt
<1>7. ownTags \in [Practices -> TagVia]
  BY <1>1 DEF LsRowsInv
<1>8. ~ overlap => LiveAt(txn[r].key) = {} /\ \E j \in Tagged(ownTags) : j # txn[r].key
  BY <1>1, <1>2, <1>7, RemovalAllowed DEF LsAloneInv, LsFresh
<1>9. \A k \in Practices : k # txn[r].key => ownTags'[k] = ownTags[k]
  BY <1>1, <1>7
<1>10. LinksKeepTheirTag'
  BY <1>1, <1>6, <1>8, <1>9 DEF LinksKeepTheirTag
<1>11. ~ overlap => Tagged(ownTags') # {}
  BY <1>8, <1>9 DEF Tagged
<1> QED
  BY <1>1, <1>3, <1>5, <1>6, <1>10, <1>11, SameVersions

\* The link is made of a version whose rows were entered, alone on its practice.
LEMMA LsLinkInv ==
    ASSUME ListsInv, NEW r \in Requests, LinkCommit(r)
    PROVE  ListsInv'
<1> DEFINE t == txn[r]
<1>1. /\ LsRowsInv /\ LsRequestsInv /\ LsAloneInv /\ LsLinksInv /\ LinksKeepTheirTag
      /\ ServesAPractice /\ t.op = "link" /\ Done(r)
      /\ own' = own /\ basedOn' = basedOn /\ ownTags' = ownTags /\ overlap' = overlap
      /\ template' = template /\ templateTags' = templateTags /\ sheet' = sheet
      /\ links' = LiveLinkRow(t.version, t.key, t.old)
      /\ UNCHANGED <<templateRows, own, basedOn, overlap>>
  BY DEF ListsInv, LinkCommit, templateRows
<1>2. /\ t.key \in Practices /\ t.version \in Numbers /\ t.version <= Len(own)
      /\ t.old \in SUBSET Numbers /\ IsPopulated(own[t.version].content)
      /\ \A v \in t.old : links[<<v, t.key>>] # None
  BY <1>1, LsIdle DEF LsRequestsInv, LsTxnOK, LinkTxn
<1> HIDE DEF t
<1>3. /\ links \in [Numbers \X Practices -> {None, "live", "archived"}]
      /\ DOMAIN own = 1..Len(own) /\ Len(own) \in Nat /\ DOMAIN own \subseteq Numbers
      /\ template \in Seq(TemplateVersion)
  BY <1>1, ListsAssumption DEF LsRowsInv, Numbers
<1>4. links' = [x \in Numbers \X Practices |->
                   IF x = <<t.version, t.key>> THEN "live"
                   ELSE IF x[2] = t.key /\ x[1] \in t.old THEN "archived" ELSE links[x]]
  BY <1>1, <1>3 DEF LiveLinkRow
<1>5. \A v \in Numbers, k \in Practices :
          links'[<<v, k>>] = IF v = t.version /\ k = t.key THEN "live"
                             ELSE IF k = t.key /\ v \in t.old THEN "archived" ELSE links[<<v, k>>]
  BY <1>4
<1>6. links' \in [Numbers \X Practices -> {None, "live", "archived"}]
  BY <1>3, <1>4
<1>7. LsRowsInv'
  BY <1>1, <1>6 DEF LsRowsInv
<1>8. OnlyAdded
  <2>1. \A v \in Numbers, k \in Practices : links[<<v, k>>] # None => links'[<<v, k>>] # None
    BY <1>5 DEF None
  <2>2. Len(template) \in Nat
    BY <1>3
  <2> QED
    BY <1>1, <1>3, <2>1, <2>2 DEF OnlyAdded
<1>9. LsRequestsInv' /\ LsAloneInv'
  BY <1>1, <1>8, Over DEF t
<1>10. LsLinksInv'
  <2> SUFFICES ASSUME NEW v \in Numbers, NEW k \in Practices, links'[<<v, k>>] # None
               PROVE  v \in DOMAIN own /\ IsPopulated(own[v].content)
    BY <1>1 DEF LsLinksInv
  <2>1. CASE v = t.version /\ k = t.key
    BY <1>2, <1>3, <2>1 DEF Numbers
  <2>2. CASE ~ (v = t.version /\ k = t.key)
    <3>1. links[<<v, k>>] # None
      BY <1>2, <1>5, <2>2
    <3> QED
      BY <1>1, <3>1 DEF LsLinksInv
  <2> QED
    BY <2>1, <2>2
<1>11. LinksKeepTheirTag'
  <2> SUFFICES ASSUME ~ overlap, NEW k \in Practices
               PROVE  /\ LiveAt(k)' # {} => ownTags[k] # None
                      /\ Cardinality(LiveAt(k)') <= 1
    BY <1>1 DEF LinksKeepTheirTag
  <2>1. CASE k # t.key
    <3>1. LiveAt(k)' = LiveAt(k)
      BY <1>1, <1>3, <1>5, <2>1 DEF LiveAt
    <3> QED
      BY <1>1, <3>1 DEF LinksKeepTheirTag
  <2>2. CASE k = t.key
    <3>1. t.old = LiveAt(k) /\ ownTags[k] # None
      BY <1>1, <2>2 DEF LsAloneInv, LsFresh, Offered, t
    <3>2. \A v \in LiveAt(k)' : v = t.version
      BY <1>1, <1>3, <1>5, <2>2, <3>1 DEF LiveAt
    <3>3. Cardinality(LiveAt(k)') <= 1
      BY <3>2, AtMostOne
    <3> QED
      BY <3>1, <3>3
  <2> QED
    BY <2>1, <2>2
<1>12. ~ overlap => (own # <<>> => Tagged(ownTags') # {})
  BY <1>1 DEF ServesAPractice
<1> QED
  BY <1>1, <1>7, <1>9, <1>10, <1>11, <1>12, SameVersions

\* A version is added to the list by a request that has its number.
LEMMA VersionAdded ==
    ASSUME ListsInv, NEW r \in Requests, txn[r].op \in {"edit", "take"},
           txn[r].number # 0, txn[r].number \notin DOMAIN own, Done(r),
           NEW new \in OwnVersion, own' = Append(own, new),
           ownTags' \in [Practices -> TagVia], basedOn' \in 0..Len(template),
           basedOn # 0 <=> basedOn' # 0,
           new.cause = "adopted_from_template" => basedOn # 0,
           ~ overlap =>
               /\ \A k \in Practices : LiveAt(k) # {} => ownTags'[k] # None
               /\ Tagged(ownTags') # {}
               /\ new.cause = "adopted_from_template" =>
                      \A v \in Nat : v = Len(own) + 1 /\ Replaced(v)' => new.named = Len(own),
           UNCHANGED <<templateRows, links, overlap>>
    PROVE  ListsInv'
<1>1. /\ LsRowsInv /\ LsRequestsInv /\ LsAloneInv /\ LsLinksInv /\ LsCopyInv
      /\ LinksKeepTheirTag /\ ServesAPractice /\ UpdatesKeepWork /\ ImportsNameEdits
      /\ links' = links /\ overlap' = overlap
      /\ template' = template /\ templateTags' = templateTags /\ sheet' = sheet
  BY DEF ListsInv, templateRows
<1>2. /\ own \in Seq(OwnVersion) /\ Len(own) \in Nat /\ DOMAIN own = 1..Len(own)
      /\ template \in Seq(TemplateVersion)
  BY <1>1 DEF LsRowsInv
<1>3. Len(own) < MaxOwn
  <2>1. txn[r].number \in 0..MaxOwn /\ txn[r].number <= Len(own) + 1
    BY <1>1, LsIdle DEF LsRequestsInv, LsTxnOK, EditTxn, TakeTxn
  <2> QED
    BY <1>2, <2>1, ListsAssumption
<1>4. /\ own' \in Seq(OwnVersion) /\ Len(own') = Len(own) + 1
      /\ DOMAIN own' = 1..(Len(own) + 1) /\ own'[Len(own) + 1] = new
      /\ \A v \in DOMAIN own : own'[v] = own[v]
  BY <1>2
<1>5. OwnGrows
  BY <1>2, <1>3, <1>4, ListsAssumption DEF OwnGrows
<1>6. LsRowsInv'
  BY <1>1, <1>4, <1>5 DEF LsRowsInv, OwnGrows
<1>7. OnlyAdded
  <2>1. Len(template') \in Nat /\ Len(template) <= Len(template')
    BY <1>1, <1>2
  <2> QED
    BY <1>1, <1>2, <1>4, <2>1 DEF OnlyAdded
<1>8. LsRequestsInv' /\ LsAloneInv'
  BY <1>1, <1>7, Over
<1>9. LsLinksInv' /\ \A k \in Practices : LiveAt(k)' = LiveAt(k)
  BY <1>1, <1>5, LinksStand
<1>10. LinksKeepTheirTag'
  BY <1>1, <1>9 DEF LinksKeepTheirTag
<1>11. Adoptions' = IF new.cause = "adopted_from_template"
                      THEN Adoptions \cup {Len(own) + 1} ELSE Adoptions
  BY <1>2, <1>4 DEF Adoptions
<1>12. LsCopyInv'
  BY <1>1, <1>11 DEF LsCopyInv
<1>13. UpdatesKeepWork'
  <2> SUFFICES ASSUME ~ overlap', NEW v \in Adoptions' \ {1}, Replaced(v)'
               PROVE  own'[v].named = v - 1
    BY Zenon DEF UpdatesKeepWork
  <2>0. ~ overlap
    BY <1>1
  <2>1. CASE v \in Adoptions
    <3>1. \A a \in Adoptions' : a \in DOMAIN own => a \in Adoptions
      BY <1>2, <1>11
    <3> QED
      BY <1>1, <1>5, <2>0, <2>1, <3>1, OldUpdatesStand
  <2>2. CASE v \notin Adoptions
    <3>1. v = Len(own) + 1 /\ new.cause = "adopted_from_template"
      BY <1>11, <2>2
    <3>2. v \in Nat
      BY <1>2, <3>1
    <3>3. new.named = Len(own)
      BY <2>0, <3>1, <3>2
    <3> QED
      BY <1>2, <1>4, <3>1, <3>3
  <2> QED
    BY <2>1, <2>2
<1>14. ServesAPractice' /\ ImportsNameEdits'
  BY <1>1 DEF ServesAPractice, ImportsNameEdits, ImportsKeepEdits, Tagged
<1> QED
  BY <1>6, <1>8, <1>9, <1>10, <1>12, <1>13, <1>14 DEF ListsInv

\* A save that has its number adds a version, unless the number is taken.
LEMMA LsEditInv ==
    ASSUME ListsInv, NEW r \in Requests, EditCommit(r)
    PROVE  ListsInv'
<1> DEFINE new == [content |-> txn[r].content, base |-> txn[r].base, named |-> 0,
                   cause |-> "edit"]
<1>1. /\ LsRowsInv /\ LsRequestsInv /\ txn[r].op = "edit" /\ txn[r].number # 0 /\ Done(r)
      /\ LinksKeepTheirTag /\ ServesAPractice
      /\ ownTags' = ownTags /\ basedOn' = basedOn /\ links' = links
      /\ UNCHANGED <<templateRows, ownTags, basedOn, links, overlap>>
  BY DEF ListsInv, EditCommit
<1>2. CASE txn[r].number \in DOMAIN own
  <2>1. UNCHANGED <<templateRows, ownRows, overlap>>
    BY <1>1, <1>2 DEF EditCommit, ownRows
  <2> QED
    BY <1>1, <2>1, RefusedInv
<1>3. CASE txn[r].number \notin DOMAIN own
  <2>1. own' = Append(own, new)
    BY <1>3 DEF EditCommit
  <2>2. txn[r] \in EditTxn /\ txn[r].base <= Len(own)
    BY <1>1, LsIdle DEF LsRequestsInv, LsTxnOK
  <2>3. new \in OwnVersion /\ new.cause = "edit"
    BY <2>2, ListsAssumption DEF EditTxn, OwnVersion, Numbers
  <2>4. own # <<>>
    BY <2>2 DEF EditTxn, Numbers
  <2>5. ownTags' \in [Practices -> TagVia] /\ basedOn' \in 0..Len(template)
    BY <1>1 DEF LsRowsInv
  <2>6. ~ overlap => /\ \A k \in Practices : LiveAt(k) # {} => ownTags'[k] # None
                     /\ Tagged(ownTags') # {}
    BY <1>1, <2>4 DEF LinksKeepTheirTag, ServesAPractice
  <2> HIDE DEF new
  <2> QED
    BY <1>1, <1>3, <2>1, <2>3, <2>5, <2>6, VersionAdded
<1> QED
  BY <1>2, <1>3

\* An update that was allowed replaces a person's work only if they named it.
LEMMA UpdateReplaces ==
    ASSUME ListsInv, NEW named, UpdateAllowed(UpdatePlan, named), basedOn # 0,
           NEW new \in OwnVersion, new.content = UpdatePlan.content, own' = Append(own, new),
           new.cause = "adopted_from_template", template # <<>>,
           NEW v \in Nat, v = Len(own) + 1, Replaced(v)'
    PROVE  named = Len(own)
<1>1. /\ own \in Seq(OwnVersion) /\ Len(own) \in Nat /\ DOMAIN own = 1..Len(own)
      /\ own # <<>> /\ Max(Adoptions) \in Adoptions
  BY PlanOK DEF ListsInv, LsRowsInv
<1>2. /\ own'[v] = new /\ \A u \in DOMAIN own : own'[u] = own[u]
      /\ DOMAIN own' = 1..v
  BY <1>1
<1>3. {a \in Adoptions' : a < v} = Adoptions
  BY <1>1, <1>2 DEF Adoptions
<1>4. Max(Adoptions) \in DOMAIN own /\ Len(own) \in DOMAIN own /\ v - 1 = Len(own)
  BY <1>1 DEF Adoptions
<1> DEFINE mine == own[Len(own)].content
           base == own[Max(Adoptions)].content
           theirs == Last(template).content
<1>5. Last(own).content = mine
  BY <1>1 DEF Last
<1>6. \/ mine.columns # base.columns
      \/ ~ mine.filled \subseteq new.content.filled /\ mine.filled # base.filled
  <2> DEFINE was == own'[v - 1].content
             from == own'[Max({a \in Adoptions' : a < v})].content
  <2>1. \/ was.columns # from.columns
        \/ ~ was.filled \subseteq own'[v].content.filled /\ was.filled # from.filled
    BY Zenon DEF Replaced
  <2>2. was = mine /\ from = base
    BY <1>2, <1>3, <1>4
  <2> QED
    BY <1>2, <2>1, <2>2
<1>7. UpdatePlan.edited
  <2>1. CASE mine.columns # base.columns
    BY <1>5, <2>1 DEF UpdatePlan
  <2>2. CASE ~ mine.filled \subseteq new.content.filled /\ mine.filled # base.filled
    <3>1. new.content.filled = mine.filled \cap theirs.columns
      BY <1>5, <2>2 DEF UpdatePlan
    <3> QED
      BY <1>5, <2>2, <3>1 DEF UpdatePlan
  <2> QED
    BY <1>6, <2>1, <2>2
<1> QED
  BY <1>7 DEF UpdateAllowed

\* An update adds what its plan says, unless a link has come to rest on a tag it removes.
LEMMA LsTakeInv ==
    ASSUME ListsInv, NEW r \in Requests, TakeCommit(r)
    PROVE  ListsInv'
<1> DEFINE t == txn[r]
           new == [content |-> t.plan.content, base |-> t.base, named |-> t.named,
                   cause |-> "adopted_from_template"]
           refused == t.number \in DOMAIN own \/ \E k \in t.plan.tags.remove : LiveAt(k) # {}
<1>1. /\ LsRowsInv /\ LsRequestsInv /\ LsAloneInv /\ t.op = "take" /\ t.number # 0 /\ Done(r)
      /\ LinksKeepTheirTag /\ ServesAPractice /\ UNCHANGED <<templateRows, overlap>>
  BY DEF ListsInv, TakeCommit
<1>2. CASE refused
  <2>1. UNCHANGED <<templateRows, ownRows, overlap>>
    BY <1>1, <1>2 DEF TakeCommit
  <2> QED
    BY <1>1, <2>1, RefusedInv
<1>3. CASE ~ refused
  <2>1. /\ own' = Append(own, new) /\ basedOn' = t.to /\ links' = links
        /\ ownTags' = Retag(ownTags, t.plan.tags, "template_adoption")
    BY <1>3 DEF TakeCommit
  <2>2. t \in TakeTxn /\ t.base <= Len(own) /\ t.to <= Len(template) /\ basedOn # 0
    BY <1>1, LsIdle DEF LsRequestsInv, LsTxnOK
  <2>3. new \in OwnVersion /\ new.cause = "adopted_from_template"
    BY <2>2, ListsAssumption DEF TakeTxn, Plans, OwnVersion, Numbers
  <2>4. /\ ownTags \in [Practices -> TagVia] /\ Len(template) \in Nat
        /\ template \in Seq(TemplateVersion)
    BY <1>1 DEF LsRowsInv
  <2>5. ownTags' \in [Practices -> TagVia]
    BY <2>1, <2>4 DEF Retag, TagVia
  <2>6. basedOn' \in 0..Len(template) /\ basedOn' # 0 /\ template # <<>>
    BY <2>1, <2>2, <2>4 DEF TakeTxn
  <2>7. ASSUME ~ overlap, NEW k \in Practices, LiveAt(k) # {} PROVE ownTags'[k] # None
    <3>1. ownTags[k] # None
      BY <1>1, <2>7 DEF LinksKeepTheirTag
    <3>2. k \notin t.plan.tags.remove
      BY <1>3, <2>7
    <3> QED
      BY <2>1, <3>1, <3>2 DEF Retag, None
  <2>8. ASSUME ~ overlap
        PROVE  /\ t.plan = UpdatePlan /\ t.to = Len(template)
               /\ UpdateAllowed(UpdatePlan, t.named)
    BY <1>1, <2>8 DEF LsAloneInv, LsFresh
  <2>9. ASSUME ~ overlap PROVE Tagged(ownTags') # {}
    <3>1. t.plan.tags = TagChanges(ownTags, Tagged(templateTags), "template_adoption")
      BY <2>8, <2>9 DEF UpdatePlan
    <3>2. "template_adoption" \in TagVia \ {None} /\ Tagged(templateTags) \in SUBSET Practices
      BY DEF TagVia, None, Tagged
    <3>3. Tagged(templateTags) \subseteq Tagged(ownTags')
      <4>1. ownTags' = Retag(ownTags, TagChanges(ownTags, Tagged(templateTags),
                                                 "template_adoption"), "template_adoption")
        BY <2>1, <3>1
      <4>2. ownTags \in [Practices -> TagVia]
        BY <2>4
      <4> QED
        BY <3>2, <4>1, <4>2, RetagServes
    <3>4. Tagged(templateTags) # {}
      BY <1>1, <2>6, <2>9 DEF ServesAPractice
    <3> QED
      BY <3>3, <3>4
  <2>10. new.content = t.plan.content /\ new.named = t.named
    OBVIOUS
  <2> HIDE DEF new, t
  <2>11. ASSUME ~ overlap, NEW v \in Nat, v = Len(own) + 1, Replaced(v)'
         PROVE  new.named = Len(own)
    BY <2>1, <2>2, <2>3, <2>6, <2>8, <2>10, <2>11, UpdateReplaces
  <2>12. txn[r].op \in {"edit", "take"} /\ txn[r].number # 0 /\ txn[r].number \notin DOMAIN own
    BY <1>1, <1>3 DEF t
  <2>13. ~ overlap =>
             /\ \A k \in Practices : LiveAt(k) # {} => ownTags'[k] # None
             /\ Tagged(ownTags') # {}
             /\ new.cause = "adopted_from_template" =>
                    \A v \in Nat : v = Len(own) + 1 /\ Replaced(v)' => new.named = Len(own)
    BY <2>7, <2>9, <2>11
  <2>14. UNCHANGED <<templateRows, links, overlap>>
    BY <1>1, <2>1
  <2> HIDE DEF refused
  <2> QED
    BY <1>1, <2>1, <2>2, <2>3, <2>5, <2>6, <2>12, <2>13, <2>14, VersionAdded
<1> QED
  BY <1>2, <1>3

\* Every operation keeps the invariant.
LEMMA LsNextInv == ListsInv /\ [Next]_vars => ListsInv'
<1> SUFFICES ASSUME ListsInv, [Next]_vars PROVE ListsInv'
  OBVIOUS
<1>1. CASE SheetChanges
  BY <1>1, LsSheetInv
<1>2. ASSUME NEW r \in Requests,
             \/ \E named \in 0..MaxTemplate : ImportBegin(r, named)
             \/ TemplateNumber(r) \/ ImportTags(r) \/ ImportCommit(r)
      PROVE  ListsInv'
  BY <1>2, LsImportBeginInv, LsTemplateNumberInv, LsImportTagsInv, LsImportInv
<1>3. ASSUME NEW r \in Requests,
             \/ \E c \in Rewrites : RewriteBegin(r, c)
             \/ RewriteCommit(r)
             \/ \E k \in Practices : UntagTemplateBegin(r, k)
             \/ UntagTemplateCommit(r)
      PROVE  ListsInv'
  BY <1>3, LsRewriteBeginInv, LsRewriteInv, LsTemplateUntagBeginInv, LsTemplateUntagInv
<1>4. ASSUME NEW k \in Practices, AddTag(k) \/ Unlink(k) PROVE ListsInv'
  BY <1>4, LsAddTagInv, LsUnlinkInv
<1>5. ASSUME NEW c \in Entries, NEW k \in Practices, CreateByHand(c, {k}) PROVE ListsInv'
  BY <1>5, LsCreateInv
<1>6. CASE Adopt
  BY <1>6, LsAdoptInv
<1>7. ASSUME NEW r \in Requests, NEW c \in Entries, EditBegin(r, c) PROVE ListsInv'
  BY <1>7, LsEditBeginInv
<1>8. ASSUME NEW r \in Requests, NEW named \in 0..MaxOwn, TakeBegin(r, named) PROVE ListsInv'
  BY <1>8, LsTakeBeginInv
<1>9. ASSUME NEW r \in Requests, Number(r) \/ EditCommit(r) \/ TakeCommit(r) PROVE ListsInv'
  BY <1>9, LsNumberInv, LsEditInv, LsTakeInv
<1>10. ASSUME NEW r \in Requests, NEW k \in Practices,
              RemoveTagBegin(r, k) \/ LinkBegin(r, k) \/ MoveForwardBegin(r, k)
       PROVE  ListsInv'
  BY <1>10, LsUntagBeginInv, LsLinkBeginInv, LsMoveBeginInv
<1>11. ASSUME NEW r \in Requests, RemoveTagCommit(r) \/ LinkCommit(r) PROVE ListsInv'
  BY <1>11, LsUntagInv, LsLinkInv
<1>12. CASE UNCHANGED vars
  <2>1. UNCHANGED <<templateRows, ownRows, overlap>> /\ txn' = txn /\ overlap' = overlap
    BY <1>12 DEF vars
  <2>2. LsRequestsInv'
    <3>1. /\ template' = template /\ own' = own /\ basedOn' = basedOn /\ links' = links
      BY <2>1 DEF templateRows, ownRows
    <3>2. OnlyAdded
      BY <3>1 DEF OnlyAdded, ListsInv, LsRowsInv
    <3> QED
      BY <2>1, <3>2, AtOnceRequests DEF ListsInv
  <2>3. LsAloneInv'
    <3>1. /\ template' = template /\ own' = own /\ basedOn' = basedOn /\ links' = links
          /\ ownTags' = ownTags /\ templateTags' = templateTags /\ sheet' = sheet
      BY <2>1 DEF templateRows, ownRows
    <3>2. /\ UpdatePlan' = UpdatePlan /\ \A k : LiveAt(k)' = LiveAt(k)
          /\ \A k : Offered(k)' <=> Offered(k)
      BY <3>1 DEF UpdatePlan, Adoptions, LiveAt, Offered, NotOfferedReason
    <3>3. /\ ImportAction' = ImportAction /\ Overwritten' = Overwritten
          /\ ImportedTags' = ImportedTags
      BY <3>1 DEF ImportAction, Overwritten, PlannedContent, PlannedKeys, TagsDiffer, TagChanges,
                  Tagged, ImportedTags
    <3>4. \A r \in Requests : LsFresh(r)' <=> LsFresh(r)
      BY <2>1, <3>1, <3>2, <3>3 DEF LsFresh, UpdateAllowed
    <3> QED
      BY <2>1, <3>4 DEF LsAloneInv, ListsInv
  <2> QED
    BY <2>1, <2>2, <2>3, OnlyRead
<1> QED
  BY <1>1, <1>2, <1>3, <1>4, <1>5, <1>6, <1>7, <1>8, <1>9, <1>10, <1>11, <1>12 DEF Next

-----------------------------------------------------------------------------

\* The invariant the properties of lists rest on.
THEOREM ListsInvariant == Spec => []ListsInv
BY LsInitInv, LsNextInv, PTL DEF Spec

\* The rows of lists keep their types, and no request is anything but one of
\* those the routes make (models.py, list_adoption.py).
THEOREM ListsTypes == Spec => []TypeOK
<1>1. ListsInv => TypeOK
  BY LsIdle DEF ListsInv, LsRowsInv, LsRequestsInv, LsTxnOK, TypeOK
<1> QED
  BY <1>1, ListsInvariant, PTL

\* However requests overlap, evidence rests on entered rows; one after the other,
\* nobody's entries are lost to an import or an update, a link keeps its tag, and
\* importing again changes nothing, for every template, workbook, practice and
\* number of requests (apply_import, take_update, remove_tag, link).
THEOREM ListsAlwaysKeepWork == Spec => ListsKeepWork
<1>1. ListsInv => /\ LinkedRowsAreReal /\ LinksKeepTheirTag /\ ServesAPractice
                  /\ UpdatesKeepWork /\ ImportsNameEdits
  <2> SUFFICES ASSUME ListsInv PROVE LinkedRowsAreReal
    BY DEF ListsInv
  <2>1. \A v \in DOMAIN own : v \in Numbers
    BY ListsAssumption DEF ListsInv, LsRowsInv, Numbers
  <2> QED
    BY <2>1 DEF ListsInv, LsLinksInv, LinkedRowsAreReal
<1>2. ListsInv /\ [Next]_vars =>
          [\A r \in Requests : ~ overlap /\ ImportCommit(r) => ImportAction' = "unchanged"]_vars
  BY ImportSettled
<1>3. Spec => [](LinkedRowsAreReal /\ LinksKeepTheirTag /\ ServesAPractice)
  BY <1>1, ListsInvariant, PTL
<1>4. Spec => [](UpdatesKeepWork /\ ImportsNameEdits)
  BY <1>1, ListsInvariant, PTL
<1>5. Spec => ImportSettles
  BY <1>2, ListsInvariant, PTL DEF Spec, ImportSettles
<1> QED
  BY <1>3, <1>4, <1>5 DEF ListsKeepWork
=============================================================================
