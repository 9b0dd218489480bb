---------------------------- MODULE KeepingProofs ----------------------------
(***************************************************************************)
(* For any number of files, requests, snapshots and broken commands, of    *)
(* connectors and keys, and of browsers, passwords and sessions: what was  *)
(* entrusted to the application is kept, and so is what it knows an        *)
(* account by.                                                             *)
(*                                                                         *)
(* Files: no row without its object where none was meant, no snapshot      *)
(* without a file that was there, none of the newest lost, and no restore  *)
(* that mixes two. FilesAreSafe is not inductive. What a request is about  *)
(* to name must still be in the bucket, out of reach of every deletion in  *)
(* flight; what a snapshot under way exported must be in the bucket, among *)
(* what it listed, or removed since; and each set it will rotate out must  *)
(* have enough newer ones. StoreInv, ShelfInv and TargetInv say so, one    *)
(* for each of Custody's three parts; the parts meet only where a snapshot *)
(* reads the store.                                                        *)
(*                                                                         *)
(* Credentials: a stored credential can be read as long as no key is       *)
(* dropped before a rotation succeeded, whatever was set, deleted or       *)
(* tested while it ran; and where requests do not overlap it is the one    *)
(* last set, with its own label and verdict. That a credential can be read *)
(* is not inductive. A rotation skips the rows whose label is the primary  *)
(* key's, so the label may never name a newer key than the one the row is  *)
(* under; and a row it skips, or one without a credential when it looked,  *)
(* may by now only have one under the primary key.                         *)
(*                                                                         *)
(* Accounts: CredentialsAgree and SessionsAreDue speak of requests that do *)
(* not overlap, and are inductive with what the one in flight has read     *)
(* (AcAlone) and what the account owes itself (AcOwner). The cap on        *)
(* sessions speaks of overlapping ones too: each sign-in under way will    *)
(* revoke what was in excess when it began, and any of them may commit, in *)
(* any order, or none. AcRoom counts the sessions left for every set of    *)
(* them that might.                                                        *)
(***************************************************************************)
EXTENDS Custody, Credentials, Accounts, SetLemmas, SequenceTheorems, TLAPS

CuSpec == CuInit /\ [][CuNext]_cuVars

\* A request about to name files has them in the bucket, and no row does yet;
\* the logos it will remove were in the bucket, and no row but a logo's has
\* named them, none at all once it has committed.
CuTxnOK(t) ==
    /\ t.op \in {"idle", "put", "old", "delete"}
    /\ t.op = "put" =>
          /\ t = [op |-> "put", kind |-> t.kind, keys |-> t.keys, old |-> t.old]
          /\ t.kind \in Kinds
          /\ \A k \in t.keys : k \in cuObjects /\ cuRow[k] = "none"
          /\ t.kind = "logo" => \A k, l \in t.keys : k = l
          /\ t.old # {} => t.kind = "logo"
    /\ t.op \in {"put", "old"} =>
          \A k \in t.old : k \in cuObjects \cup cuDropped /\ cuRow[k] \in {"none", "logo"}
    /\ t.op = "old" => \A k \in t.old : cuRow[k] = "none"

\* Rows and objects, and the requests between them.
StoreInv ==
    /\ cuRow \in [Keys -> Kinds \cup {"none"}]
    /\ cuObjects \subseteq Keys /\ cuHalf \subseteq cuDropped /\ cuDropped \subseteq Keys
    /\ cuServed \in 0..CuMax
    /\ cuTxn = [q \in CuRequests |-> cuTxn[q]]
    /\ \A q \in CuRequests : CuTxnOK(cuTxn[q])
    /\ \A q, r \in CuRequests :
          cuTxn[q].op = "put" /\ cuTxn[r].op = "put" /\ q # r
              => \A k \in cuTxn[q].keys : k \notin cuTxn[r].keys
    /\ \A q, r \in CuRequests :
          cuTxn[q].op = "put" /\ cuTxn[r].op \in {"put", "old"}
              => \A k \in cuTxn[q].keys : k \notin cuTxn[r].old
    /\ \A k, l \in LogoKey : k = l
    /\ RowsHaveTheirObject

\* The complete snapshots newer than s.
Newer(s) == {t \in CompleteSnapshots : t > s}

\* Complete snapshots and their manifests, and the snapshot under way.
ShelfInv ==
    /\ cuBegun \in 0..MaxSnaps
    /\ CompleteSnapshots \subseteq 1..cuBegun
    /\ cuPartial \in 0..cuBegun /\ cuPartial \notin CompleteSnapshots
    /\ \A s \in CompleteSnapshots : cuSets[s] \in Manifest
    /\ SnapshotIsWhole
    /\ cuSnap.stage \in {"idle", "dump", "copy", "rotate"}
    /\ cuSnap.rotate \subseteq CompleteSnapshots
    /\ cuSnap.stage \in {"dump", "copy"} =>
          /\ cuSnap.sid = cuBegun /\ cuPartial = cuBegun /\ cuBegun # 0
          /\ cuSnap.refs \subseteq Keys
          /\ \A s \in cuSnap.rotate : Cardinality(Newer(s)) >= Keep - 1
    /\ cuSnap.stage = "dump" =>
          cuSnap.copied = {} /\ cuSnap.refs \subseteq cuObjects \cup cuDropped
    /\ cuSnap.stage = "copy" =>
          /\ cuSnap.todo \subseteq Keys /\ cuSnap.copied \subseteq Keys
          /\ cuSnap.refs \subseteq cuSnap.todo \cup cuSnap.copied \cup cuDropped
    /\ cuSnap.stage = "rotate" => \A s \in cuSnap.rotate : Cardinality(Newer(s)) >= Keep

\* A restored bucket holds what its set listed, and only that.
TargetInv ==
    /\ cuTarget.stage \in {"empty", "objects", "done", "torn"}
    /\ NoMixedRestore
    /\ cuBroken \in 0..CuCrashMax

CuInv == StoreInv /\ ShelfInv /\ TargetInv

-----------------------------------------------------------------------------
(* The store: rows, objects and requests.                                  *)

\* A row names an object that is there or was removed.
LEMMA NamedWasThere ==
    ASSUME StoreInv
    PROVE  ReferencedKeys \subseteq cuObjects \cup cuDropped /\ ReferencedKeys \subseteq Keys
BY DEF StoreInv, RowsHaveTheirObject, ReferencedKeys

\* A file goes to the bucket before its row.
LEMMA UploadStore ==
    ASSUME StoreInv, NEW q \in CuRequests, NEW k \in Keys, NEW kind \in Kinds,
           UploadFile(q, k, kind)
    PROVE  StoreInv' /\ cuObjects \subseteq cuObjects' /\ cuDropped' = cuDropped
<1> DEFINE old == IF kind = "logo" THEN LogoKey ELSE {}
<1>1. /\ Unused(k) /\ cuServed < CuMax /\ cuServed' = cuServed + 1
      /\ cuObjects' = cuObjects \cup {k}
      /\ cuTxn' = [cuTxn EXCEPT ![q] = [op |-> "put", kind |-> kind, keys |-> {k},
                                        old |-> old]]
      /\ UNCHANGED <<cuRow, cuHalf, cuDropped>>
  BY DEF UploadFile, CuSet
<1>2. cuRow[k] = "none" /\ k \notin cuObjects /\ k \notin cuDropped
  BY <1>1 DEF Unused
<1>3. \A l \in old : l \in cuObjects /\ cuRow[l] = "logo" /\ l # k
  BY <1>2 DEF LogoKey, StoreInv, RowsHaveTheirObject, ReferencedKeys
<1>4. old # {} => kind = "logo"
  OBVIOUS
<1> HIDE DEF old
<1>5. /\ cuTxn'[q] = [op |-> "put", kind |-> kind, keys |-> {k}, old |-> old]
      /\ cuTxn'[q].op = "put" /\ cuTxn'[q].kind = kind /\ cuTxn'[q].keys = {k}
      /\ cuTxn'[q].old = old
      /\ \A r \in CuRequests : r # q => cuTxn'[r] = cuTxn[r]
  BY <1>1 DEF StoreInv
<1>6. \A r \in CuRequests : CuTxnOK(cuTxn[r])'
  <2> SUFFICES ASSUME NEW r \in CuRequests PROVE CuTxnOK(cuTxn[r])'
    OBVIOUS
  <2>1. CASE r = q
    BY <1>1, <1>2, <1>3, <1>4, <1>5, <2>1 DEF CuTxnOK
  <2>2. CASE r # q
    BY <1>1, <1>5, <2>2 DEF StoreInv, CuTxnOK
  <2> QED
    BY <2>1, <2>2
<1>7. \A r \in CuRequests : r # q =>
         /\ cuTxn[r].op = "put" => k \notin cuTxn[r].keys
                                   /\ \A l \in cuTxn[r].keys : l \notin old
         /\ cuTxn[r].op \in {"put", "old"} => k \notin cuTxn[r].old
  BY <1>2, <1>3 DEF StoreInv, CuTxnOK
<1>8. \A p, r \in CuRequests :
         cuTxn'[p].op = "put" /\ cuTxn'[r].op = "put" /\ p # r
             => \A l \in cuTxn'[p].keys : l \notin cuTxn'[r].keys
  BY <1>5, <1>7 DEF StoreInv
<1>9. \A p, r \in CuRequests :
         cuTxn'[p].op = "put" /\ cuTxn'[r].op \in {"put", "old"}
             => \A l \in cuTxn'[p].keys : l \notin cuTxn'[r].old
  BY <1>3, <1>5, <1>7 DEF StoreInv
<1>10. RowsHaveTheirObject' /\ LogoKey' = LogoKey
  BY <1>1 DEF StoreInv, RowsHaveTheirObject, ReferencedKeys, LogoKey
<1>11. cuServed' \in 0..CuMax /\ cuTxn' = [r \in CuRequests |-> cuTxn'[r]]
  <2>1. cuServed' \in 0..CuMax
    BY <1>1, CuAssumption DEF StoreInv
  <2>2. cuTxn' = [r \in CuRequests |-> cuTxn'[r]]
    BY <1>1 DEF StoreInv
  <2> QED
    BY <2>1, <2>2
<1> QED
  BY <1>1, <1>6, <1>8, <1>9, <1>10, <1>11 DEF StoreInv

\* A further page goes to the bucket before its row.
LEMMA FetchStore ==
    ASSUME StoreInv, NEW q \in CuRequests, NEW k \in Keys, FetchPage(q, k)
    PROVE  StoreInv' /\ cuObjects \subseteq cuObjects' /\ cuDropped' = cuDropped
<1> DEFINE t == cuTxn[q]
<1>1. /\ t.op = "put" /\ t.kind = "document" /\ Unused(k)
      /\ cuObjects' = cuObjects \cup {k}
      /\ cuTxn' = [cuTxn EXCEPT ![q] = [t EXCEPT !.keys = t.keys \cup {k}]]
      /\ UNCHANGED <<cuRow, cuHalf, cuDropped, cuServed>>
  BY DEF FetchPage, CuSet
<1>2. cuRow[k] = "none" /\ k \notin cuObjects /\ k \notin cuDropped
  BY <1>1 DEF Unused
<1>3. CuTxnOK(t)
  BY DEF StoreInv
<1>4. /\ cuTxn'[q] = [t EXCEPT !.keys = t.keys \cup {k}]
      /\ \A r \in CuRequests : r # q => cuTxn'[r] = cuTxn[r]
  BY <1>1 DEF StoreInv
<1>5. /\ cuTxn'[q].op = "put" /\ cuTxn'[q].kind = "document" /\ cuTxn'[q].old = {}
      /\ t.old = {} /\ \A l \in cuTxn'[q].keys : l = k \/ l \in t.keys
  BY <1>1, <1>3, <1>4 DEF CuTxnOK, Kinds
<1>6. \A r \in CuRequests : CuTxnOK(cuTxn[r])'
  <2> SUFFICES ASSUME NEW r \in CuRequests PROVE CuTxnOK(cuTxn[r])'
    OBVIOUS
  <2>1. CASE r = q
    BY <1>1, <1>2, <1>3, <1>5, <2>1 DEF CuTxnOK, Kinds
  <2>2. CASE r # q
    BY <1>1, <1>4, <2>2 DEF StoreInv, CuTxnOK
  <2> QED
    BY <2>1, <2>2
<1>7. \A r \in CuRequests : r # q =>
         /\ cuTxn[r].op = "put" => k \notin cuTxn[r].keys
         /\ cuTxn[r].op \in {"put", "old"} => k \notin cuTxn[r].old
  BY <1>2 DEF StoreInv, CuTxnOK
<1>8. \A p, r \in CuRequests :
         cuTxn'[p].op = "put" /\ cuTxn'[r].op = "put" /\ p # r
             => \A l \in cuTxn'[p].keys : l \notin cuTxn'[r].keys
  BY <1>1, <1>4, <1>5, <1>7 DEF StoreInv
<1>9. \A p, r \in CuRequests :
         cuTxn'[p].op = "put" /\ cuTxn'[r].op \in {"put", "old"}
             => \A l \in cuTxn'[p].keys : l \notin cuTxn'[r].old
  BY <1>1, <1>4, <1>5, <1>7 DEF StoreInv
<1>10. RowsHaveTheirObject' /\ LogoKey' = LogoKey
  BY <1>1 DEF StoreInv, RowsHaveTheirObject, ReferencedKeys, LogoKey
<1>11. cuTxn' = [r \in CuRequests |-> cuTxn'[r]]
  BY <1>1 DEF StoreInv
<1> QED
  BY <1>1, <1>6, <1>8, <1>9, <1>10, <1>11 DEF StoreInv

\* What is in flight after a step in which only q's own keys were named and q
\* has nothing left to name.
LEMMA OneLess ==
    ASSUME StoreInv, NEW q \in CuRequests,
           \A r \in CuRequests : r # q => cuTxn'[r] = cuTxn[r],
           cuTxn'[q].op # "put",
           cuTxn'[q].op = "old" => cuTxn[q].op = "put" /\ cuTxn'[q].old = cuTxn[q].old
    PROVE  /\ \A p, r \in CuRequests :
                 cuTxn'[p].op = "put" /\ cuTxn'[r].op = "put" /\ p # r
                     => \A l \in cuTxn'[p].keys : l \notin cuTxn'[r].keys
           /\ \A p, r \in CuRequests :
                 cuTxn'[p].op = "put" /\ cuTxn'[r].op \in {"put", "old"}
                     => \A l \in cuTxn'[p].keys : l \notin cuTxn'[r].old
<1>1. \A p, r \in CuRequests :
         cuTxn'[p].op = "put" /\ cuTxn'[r].op = "put" /\ p # r
             => \A l \in cuTxn'[p].keys : l \notin cuTxn'[r].keys
  BY DEF StoreInv
<1>2. \A p, r \in CuRequests :
         cuTxn'[p].op = "put" /\ cuTxn'[r].op \in {"put", "old"}
             => \A l \in cuTxn'[p].keys : l \notin cuTxn'[r].old
  <2> SUFFICES ASSUME NEW p \in CuRequests, NEW r \in CuRequests,
                      cuTxn'[p].op = "put", cuTxn'[r].op \in {"put", "old"}
               PROVE  \A l \in cuTxn'[p].keys : l \notin cuTxn'[r].old
    OBVIOUS
  <2>1. p # q /\ cuTxn'[p] = cuTxn[p]
    OBVIOUS
  <2>2. cuTxn[r].op \in {"put", "old"} /\ cuTxn'[r].old = cuTxn[r].old
    OBVIOUS
  <2> QED
    BY <2>1, <2>2 DEF StoreInv
<1> QED
  BY <1>1, <1>2

\* The rows are committed; a logo takes the place of the one that is there.
LEMMA CommitStore ==
    ASSUME StoreInv, NEW q \in CuRequests, CommitRow(q)
    PROVE  StoreInv' /\ UNCHANGED <<cuObjects, cuDropped>>
<1> DEFINE t == cuTxn[q]
<1>1. /\ t.op = "put"
      /\ cuRow' = [k \in Keys |-> IF k \in t.keys THEN t.kind
                                  ELSE IF t.kind = "logo" /\ cuRow[k] = "logo" THEN "none"
                                  ELSE cuRow[k]]
      /\ cuTxn' = [cuTxn EXCEPT ![q] = IF t.old # {} THEN [t EXCEPT !.op = "old"] ELSE CuIdle]
      /\ UNCHANGED <<cuObjects, cuHalf, cuDropped, cuServed>>
  BY DEF CommitRow, CuSet
<1>2. CuTxnOK(t) /\ \A k \in t.keys : k \in Keys
  BY <1>1 DEF StoreInv, CuTxnOK
<1>3. \A k \in Keys :
         /\ k \in t.keys => cuRow'[k] = t.kind
         /\ k \notin t.keys /\ t.kind = "logo" /\ cuRow[k] = "logo" => cuRow'[k] = "none"
         /\ k \notin t.keys /\ ~ (t.kind = "logo" /\ cuRow[k] = "logo") => cuRow'[k] = cuRow[k]
  BY <1>1
<1>4. \A r \in CuRequests : r # q => cuTxn'[r] = cuTxn[r]
  BY <1>1 DEF StoreInv
<1>5. /\ cuTxn'[q].op \in {"old", "idle"}
      /\ cuTxn'[q].op = "old" => cuTxn'[q].old = t.old /\ t.old # {}
  <2>1. cuTxn'[q] = IF t.old # {} THEN [t EXCEPT !.op = "old"] ELSE CuIdle
    BY <1>1 DEF StoreInv
  <2>2. CASE t.old # {}
    <3>1. cuTxn'[q] = [t EXCEPT !.op = "old"]
      BY <2>1, <2>2
    <3>2. t = [op |-> "put", kind |-> t.kind, keys |-> t.keys, old |-> t.old]
      BY <1>1, <1>2 DEF CuTxnOK
    <3>3. /\ [t EXCEPT !.op = "old"].op = "old"
          /\ [t EXCEPT !.op = "old"].old = t.old
      BY <3>2
    <3> QED
      BY <2>2, <3>1, <3>3
  <2>3. CASE t.old = {}
    BY <2>1, <2>3 DEF CuIdle
  <2> QED
    BY <2>2, <2>3
<1>6. \A r \in CuRequests : CuTxnOK(cuTxn[r])'
  <2> SUFFICES ASSUME NEW r \in CuRequests PROVE CuTxnOK(cuTxn[r])'
    OBVIOUS
  <2>1. CASE r = q
    <3>1. cuTxn'[q].op = "old" => \A k \in cuTxn'[q].old :
             k \in cuObjects \cup cuDropped /\ cuRow'[k] = "none"
      <4> SUFFICES ASSUME cuTxn'[q].op = "old", NEW k \in t.old
                   PROVE  k \in cuObjects \cup cuDropped /\ cuRow'[k] = "none"
        BY <1>5
      <4>1. k \in cuObjects \cup cuDropped /\ cuRow[k] \in {"none", "logo"} /\ t.kind = "logo"
        BY <1>1, <1>2, <1>5 DEF CuTxnOK
      <4>2. k \in Keys /\ k \notin t.keys
        BY <1>1, <4>1 DEF StoreInv
      <4> QED
        BY <1>3, <4>1, <4>2
    <3> QED
      BY <1>1, <1>5, <2>1, <3>1 DEF CuTxnOK
  <2>2. CASE r # q
    <3>1. CuTxnOK(cuTxn[r]) /\ cuTxn'[r] = cuTxn[r]
      BY <1>4, <2>2 DEF StoreInv
    <3>2. cuTxn[r].op = "put" => \A k \in cuTxn[r].keys : cuRow'[k] = "none"
      <4> SUFFICES ASSUME cuTxn[r].op = "put", NEW k \in cuTxn[r].keys
                   PROVE  cuRow'[k] = "none"
        OBVIOUS
      <4>1. k \in Keys /\ cuRow[k] = "none" /\ k \notin t.keys
        BY <1>1, <2>2, <3>1 DEF StoreInv, CuTxnOK
      <4> QED
        BY <1>3, <4>1
    <3>3. cuTxn[r].op \in {"put", "old"} => \A k \in cuTxn[r].old :
             cuRow'[k] \in {"none", "logo"} /\ (cuRow[k] = "none" => cuRow'[k] = "none")
      <4> SUFFICES ASSUME cuTxn[r].op \in {"put", "old"}, NEW k \in cuTxn[r].old
                   PROVE  /\ cuRow'[k] \in {"none", "logo"}
                          /\ cuRow[k] = "none" => cuRow'[k] = "none"
        OBVIOUS
      <4>1. k \in Keys /\ cuRow[k] \in {"none", "logo"} /\ k \notin t.keys
        BY <1>1, <3>1 DEF StoreInv, CuTxnOK
      <4> QED
        BY <1>3, <4>1
    <3>4. cuTxn[r].op = "old" => \A k \in cuTxn[r].old : cuRow'[k] = "none"
      BY <3>1, <3>3 DEF CuTxnOK
    <3>5. UNCHANGED <<cuObjects, cuDropped>>
      BY <1>1
    <3> QED
      BY <3>1, <3>2, <3>3, <3>4, <3>5 DEF CuTxnOK
  <2> QED
    BY <2>1, <2>2
<1>7. RowsHaveTheirObject'
  <2> SUFFICES ASSUME NEW k \in Keys, cuRow'[k] # "none", k \notin cuObjects
               PROVE  cuRow'[k] = "document" /\ k \in cuHalf
    BY <1>1 DEF RowsHaveTheirObject, ReferencedKeys
  <2>1. k \notin t.keys
    BY <1>1, <1>2 DEF CuTxnOK
  <2>2. cuRow'[k] = cuRow[k]
    BY <1>3, <2>1
  <2> QED
    BY <2>2 DEF StoreInv, RowsHaveTheirObject, ReferencedKeys
<1>8. \A k, l \in LogoKey' : k = l
  <2> SUFFICES ASSUME NEW k \in Keys, NEW l \in Keys, cuRow'[k] = "logo", cuRow'[l] = "logo"
               PROVE  k = l
    BY DEF LogoKey
  <2>1. CASE t.kind = "logo"
    <3>1. k \in t.keys /\ l \in t.keys
      BY <1>3, <2>1
    <3> QED
      BY <1>1, <1>2, <2>1, <3>1 DEF CuTxnOK
  <2>2. CASE t.kind # "logo"
    <3>1. cuRow[k] = "logo" /\ cuRow[l] = "logo"
      BY <1>3, <2>2
    <3> QED
      BY <3>1 DEF StoreInv, LogoKey
  <2> QED
    BY <2>1, <2>2
<1>9. cuRow' \in [Keys -> Kinds \cup {"none"}] /\ cuTxn' = [r \in CuRequests |-> cuTxn'[r]]
  <2>1. cuTxn' = [r \in CuRequests |-> cuTxn'[r]]
    BY <1>1 DEF StoreInv
  <2>2. t.kind \in Kinds
    BY <1>1, <1>2 DEF CuTxnOK
  <2>3. cuRow' \in [Keys -> Kinds \cup {"none"}]
    BY <1>1, <2>2 DEF StoreInv
  <2> QED
    BY <2>1, <2>3
<1>10. /\ cuTxn'[q].op # "put"
       /\ cuTxn'[q].op = "old" => cuTxn[q].op = "put" /\ cuTxn'[q].old = cuTxn[q].old
  BY <1>1, <1>5
<1>11. /\ \A p, r \in CuRequests :
             cuTxn'[p].op = "put" /\ cuTxn'[r].op = "put" /\ p # r
                 => \A l \in cuTxn'[p].keys : l \notin cuTxn'[r].keys
       /\ \A p, r \in CuRequests :
             cuTxn'[p].op = "put" /\ cuTxn'[r].op \in {"put", "old"}
                 => \A l \in cuTxn'[p].keys : l \notin cuTxn'[r].old
  BY <1>4, <1>10, OneLess
<1> QED
  BY <1>1, <1>6, <1>7, <1>8, <1>9, <1>11 DEF StoreInv

\* A request ends having removed objects that no row and no request names, taken
\* rows away, or done neither.
LEMMA EndStore ==
    ASSUME StoreInv, NEW q \in CuRequests,
           cuTxn' = [cuTxn EXCEPT ![q] = CuIdle],
           NEW gone, \A k \in gone : cuRow[k] = "none" /\ k \in cuObjects \cup cuDropped,
           \A r \in CuRequests : cuTxn[r].op = "put" => \A k \in cuTxn[r].keys : k \notin gone,
           cuObjects' = cuObjects \ gone, cuDropped' = cuDropped \cup gone,
           cuRow' \in [Keys -> Kinds \cup {"none"}],
           \A k \in Keys : cuRow'[k] \in {"none", cuRow[k]},
           UNCHANGED <<cuHalf, cuServed>>
    PROVE  /\ StoreInv' /\ cuDropped \subseteq cuDropped'
           /\ cuObjects \subseteq cuObjects' \cup cuDropped'
<1>1. cuTxn'[q] = CuIdle /\ \A r \in CuRequests : r # q => cuTxn'[r] = cuTxn[r]
  BY DEF StoreInv
<1>2. \A r \in CuRequests : CuTxnOK(cuTxn[r])'
  <2> SUFFICES ASSUME NEW r \in CuRequests PROVE CuTxnOK(cuTxn[r])'
    OBVIOUS
  <2>1. CASE r = q
    BY <1>1, <2>1 DEF CuTxnOK, CuIdle
  <2>2. CASE r # q
    <3>1. CuTxnOK(cuTxn[r]) /\ cuTxn'[r] = cuTxn[r]
      BY <1>1, <2>2 DEF StoreInv
    <3>2. cuTxn[r].op = "put" => \A k \in cuTxn[r].keys : k \in cuObjects' /\ cuRow'[k] = "none"
      <4> SUFFICES ASSUME cuTxn[r].op = "put", NEW k \in cuTxn[r].keys
                   PROVE  k \in cuObjects' /\ cuRow'[k] = "none"
        OBVIOUS
      <4>1. k \in cuObjects /\ k \in Keys /\ cuRow[k] = "none" /\ k \notin gone
        BY <3>1 DEF StoreInv, CuTxnOK
      <4> QED
        BY <4>1
    <3>3. cuTxn[r].op \in {"put", "old"} => \A k \in cuTxn[r].old :
             /\ k \in cuObjects' \cup cuDropped' /\ cuRow'[k] \in {"none", "logo"}
             /\ cuRow[k] = "none" => cuRow'[k] = "none"
      <4> SUFFICES ASSUME cuTxn[r].op \in {"put", "old"}, NEW k \in cuTxn[r].old
                   PROVE  /\ k \in cuObjects' \cup cuDropped' /\ cuRow'[k] \in {"none", "logo"}
                          /\ cuRow[k] = "none" => cuRow'[k] = "none"
        OBVIOUS
      <4>1. k \in cuObjects \cup cuDropped /\ k \in Keys /\ cuRow[k] \in {"none", "logo"}
        BY <3>1 DEF StoreInv, CuTxnOK
      <4> QED
        BY <4>1
    <3> QED
      BY <3>1, <3>2, <3>3 DEF CuTxnOK
  <2> QED
    BY <2>1, <2>2
<1>3. /\ \A p, r \in CuRequests :
            cuTxn'[p].op = "put" /\ cuTxn'[r].op = "put" /\ p # r
                => \A l \in cuTxn'[p].keys : l \notin cuTxn'[r].keys
      /\ \A p, r \in CuRequests :
            cuTxn'[p].op = "put" /\ cuTxn'[r].op \in {"put", "old"}
                => \A l \in cuTxn'[p].keys : l \notin cuTxn'[r].old
  <2>1. cuTxn'[q].op = "idle"
    BY <1>1 DEF CuIdle
  <2> QED
    BY <1>1, <2>1, OneLess
<1>4. RowsHaveTheirObject'
  <2> SUFFICES ASSUME NEW k \in Keys, cuRow'[k] # "none", k \notin cuObjects'
               PROVE  cuRow'[k] = "document" /\ k \in cuHalf'
    BY DEF RowsHaveTheirObject, ReferencedKeys
  <2>1. cuRow'[k] = cuRow[k] /\ k \notin gone
    OBVIOUS
  <2> QED
    BY <2>1 DEF StoreInv, RowsHaveTheirObject, ReferencedKeys
<1>5. \A k, l \in LogoKey' : k = l
  BY DEF StoreInv, LogoKey
<1>6. /\ cuObjects' \subseteq Keys /\ cuHalf' \subseteq cuDropped' /\ cuDropped' \subseteq Keys
      /\ cuServed' \in 0..CuMax /\ cuTxn' = [r \in CuRequests |-> cuTxn'[r]]
  <2>1. cuTxn' = [r \in CuRequests |-> cuTxn'[r]]
    BY DEF StoreInv
  <2> QED
    BY <2>1 DEF StoreInv
<1> QED
  BY <1>2, <1>3, <1>4, <1>5, <1>6 DEF StoreInv

\* The old logo is removed, the row of a deleted document goes, or the request
\* breaks off.
LEMMA EndsStore ==
    ASSUME StoreInv, NEW q \in CuRequests, DropOldLogo(q) \/ DeleteRow(q) \/ BreakOff(q)
    PROVE  /\ StoreInv' /\ cuDropped \subseteq cuDropped'
           /\ cuObjects \subseteq cuObjects' \cup cuDropped'
<1>1. cuTxn' = [cuTxn EXCEPT ![q] = CuIdle]
  BY DEF DropOldLogo, DeleteRow, BreakOff, CuSet
<1>2. cuRow \in [Keys -> Kinds \cup {"none"}]
  BY DEF StoreInv
<1>3. CASE DropOldLogo(q)
  <2> DEFINE gone == cuTxn[q].old
  <2>1. /\ cuTxn[q].op = "old"
        /\ cuObjects' = cuObjects \ gone /\ cuDropped' = cuDropped \cup gone
        /\ UNCHANGED <<cuRow, cuHalf, cuServed>>
    BY <1>3 DEF DropOldLogo
  <2>2. \A k \in gone : cuRow[k] = "none" /\ k \in cuObjects \cup cuDropped
    BY <2>1 DEF StoreInv, CuTxnOK
  <2>3. \A r \in CuRequests : cuTxn[r].op = "put" => \A k \in cuTxn[r].keys : k \notin gone
    BY <2>1 DEF StoreInv
  <2> HIDE DEF gone
  <2> QED
    BY <1>1, <1>2, <2>1, <2>2, <2>3, EndStore
<1>4. CASE DeleteRow(q) \/ BreakOff(q)
  <2>1. UNCHANGED <<cuObjects, cuHalf, cuDropped, cuServed>>
    BY <1>4 DEF DeleteRow, BreakOff
  <2>2. /\ cuRow' \in [Keys -> Kinds \cup {"none"}]
        /\ \A k \in Keys : cuRow'[k] \in {"none", cuRow[k]}
    <3>1. CASE DeleteRow(q)
      <4>1. cuRow' = [k \in Keys |-> IF k \in cuTxn[q].keys THEN "none" ELSE cuRow[k]]
        BY <3>1 DEF DeleteRow
      <4> QED
        BY <1>2, <4>1
    <3>2. CASE BreakOff(q)
      BY <1>2, <3>2 DEF BreakOff
    <3> QED
      BY <1>4, <3>1, <3>2
  <2> DEFINE gone == {}
  <2>3. /\ cuObjects' = cuObjects \ gone /\ cuDropped' = cuDropped \cup gone
        /\ \A k \in gone : cuRow[k] = "none" /\ k \in cuObjects \cup cuDropped
        /\ \A r \in CuRequests : cuTxn[r].op = "put" => \A k \in cuTxn[r].keys : k \notin gone
    BY <2>1
  <2> HIDE DEF gone
  <2> QED
    BY <1>1, <2>1, <2>2, <2>3, EndStore
<1> QED
  BY <1>3, <1>4

\* The object of a document is removed before its row.
LEMMA DeleteStore ==
    ASSUME StoreInv, NEW q \in CuRequests, NEW k \in Keys, DeleteObject(q, k)
    PROVE  /\ StoreInv' /\ cuDropped \subseteq cuDropped'
           /\ cuObjects \subseteq cuObjects' \cup cuDropped'
<1>1. /\ cuRow[k] = "document" /\ cuServed < CuMax /\ cuServed' = cuServed + 1
      /\ cuObjects' = cuObjects \ {k}
      /\ cuDropped' = cuDropped \cup {k} /\ cuHalf' = cuHalf \cup {k}
      /\ cuTxn' = [cuTxn EXCEPT ![q] = [op |-> "delete", keys |-> {k}]]
      /\ UNCHANGED cuRow
  BY DEF DeleteObject, CuSet
<1>2. /\ cuTxn'[q].op = "delete"
      /\ \A r \in CuRequests : r # q => cuTxn'[r] = cuTxn[r]
  BY <1>1 DEF StoreInv
<1>3. \A r \in CuRequests : CuTxnOK(cuTxn[r])'
  <2> SUFFICES ASSUME NEW r \in CuRequests PROVE CuTxnOK(cuTxn[r])'
    OBVIOUS
  <2>1. CASE r = q
    BY <1>2, <2>1 DEF CuTxnOK
  <2>2. CASE r # q
    <3>1. CuTxnOK(cuTxn[r]) /\ cuTxn'[r] = cuTxn[r]
      BY <1>2, <2>2 DEF StoreInv
    <3>2. cuTxn[r].op = "put" => \A l \in cuTxn[r].keys : l \in cuObjects'
      BY <1>1, <3>1 DEF CuTxnOK
    <3>3. cuTxn[r].op \in {"put", "old"} =>
             \A l \in cuTxn[r].old : l \in cuObjects' \cup cuDropped'
      BY <1>1, <3>1 DEF CuTxnOK
    <3> QED
      BY <1>1, <3>1, <3>2, <3>3 DEF CuTxnOK
  <2> QED
    BY <2>1, <2>2
<1>4. /\ \A p, r \in CuRequests :
            cuTxn'[p].op = "put" /\ cuTxn'[r].op = "put" /\ p # r
                => \A l \in cuTxn'[p].keys : l \notin cuTxn'[r].keys
      /\ \A p, r \in CuRequests :
            cuTxn'[p].op = "put" /\ cuTxn'[r].op \in {"put", "old"}
                => \A l \in cuTxn'[p].keys : l \notin cuTxn'[r].old
  BY <1>2, OneLess
<1>5. RowsHaveTheirObject' /\ \A l, m \in LogoKey' : l = m
  BY <1>1 DEF StoreInv, RowsHaveTheirObject, ReferencedKeys, LogoKey
<1>6. cuServed' \in 0..CuMax /\ cuTxn' = [r \in CuRequests |-> cuTxn'[r]]
  <2>1. cuServed' \in 0..CuMax
    BY <1>1, CuAssumption DEF StoreInv
  <2>2. cuTxn' = [r \in CuRequests |-> cuTxn'[r]]
    BY <1>1 DEF StoreInv
  <2> QED
    BY <2>1, <2>2
<1>7. /\ cuRow' \in [Keys -> Kinds \cup {"none"}]
      /\ cuObjects' \subseteq Keys /\ cuHalf' \subseteq cuDropped' /\ cuDropped' \subseteq Keys
  BY <1>1 DEF StoreInv
<1> QED
  BY <1>1, <1>3, <1>4, <1>5, <1>6, <1>7 DEF StoreInv

-----------------------------------------------------------------------------
(* The shelf: snapshots.                                                   *)

\* Sets of snapshots are finite, and so are the newer ones.
LEMMA ShelfIsFinite ==
    ASSUME ShelfInv
    PROVE  /\ cuBegun \in Nat /\ IsFiniteSet(CompleteSnapshots)
           /\ \A s : IsFiniteSet(Newer(s)) /\ Cardinality(Newer(s)) \in Nat
           /\ \A s \in CompleteSnapshots : s \in Nat /\ s <= cuBegun /\ s # 0
<1>1. cuBegun \in Nat
  BY CuAssumption DEF ShelfInv
<1>2. IsFiniteSet(1..cuBegun)
  BY <1>1, FS_Interval
<1>3. IsFiniteSet(CompleteSnapshots)
  BY <1>2, FS_Subset DEF ShelfInv
<1>4. ASSUME NEW s PROVE IsFiniteSet(Newer(s)) /\ Cardinality(Newer(s)) \in Nat
  <2>1. Newer(s) \in SUBSET CompleteSnapshots
    BY DEF Newer
  <2>2. IsFiniteSet(Newer(s))
    BY <1>3, <2>1, FS_Subset
  <2> QED
    BY <2>2, FS_CardinalityType
<1>5. \A s \in CompleteSnapshots : s \in Nat /\ s <= cuBegun /\ s # 0
  BY <1>1 DEF ShelfInv
<1> QED
  BY <1>1, <1>3, <1>4, <1>5

\* A step of the store, or of a restore, takes nothing from the shelf.
LEMMA ShelfStands ==
    ASSUME ShelfInv, UNCHANGED cuShelf, cuDropped \subseteq cuDropped',
           cuObjects \subseteq cuObjects' \cup cuDropped'
    PROVE  ShelfInv'
<1>1. UNCHANGED <<cuSets, cuPartial, cuSnap, cuBegun>>
  BY DEF cuShelf
<1>2. CompleteSnapshots' = CompleteSnapshots /\ \A s : Newer(s)' = Newer(s)
  BY <1>1 DEF CompleteSnapshots, Newer
<1>3. SnapshotIsWhole'
  BY <1>1, <1>2 DEF ShelfInv, SnapshotIsWhole
<1>4. cuSnap.stage = "dump" => cuSnap.refs \subseteq cuObjects' \cup cuDropped'
  BY DEF ShelfInv
<1>5. cuSnap.stage = "copy" => cuSnap.refs \subseteq cuSnap.todo \cup cuSnap.copied \cup cuDropped'
  BY DEF ShelfInv
<1> QED
  BY <1>1, <1>2, <1>3, <1>4, <1>5 DEF ShelfInv

\* The newest n of some finite numbers leave out those with n newer ones.
LEMMA NotAmongTheNewest ==
    ASSUME NEW n \in Int, NEW s \in CompleteSnapshots, s \notin Newest(n, CompleteSnapshots),
           Cardinality(Newer(s)) \in Nat
    PROVE  Cardinality(Newer(s)) >= n
BY DEF Newest, Newer

\* A snapshot is begun: what the database names is exported, and the sets to
\* rotate out are chosen.
LEMMA SnapshotBeginShelf ==
    ASSUME StoreInv, ShelfInv, SnapshotBegin
    PROVE  ShelfInv'
<1>1. /\ cuBegun < MaxSnaps /\ cuBegun' = cuBegun + 1 /\ cuPartial' = cuBegun + 1
      /\ cuSnap' = [SnapIdle EXCEPT !.stage = "dump", !.sid = cuBegun + 1,
                                    !.refs = ReferencedKeys,
                                    !.rotate = Rotated(CompleteSnapshots)]
      /\ UNCHANGED <<cuObjects, cuDropped, cuSets>>
  BY DEF SnapshotBegin, cuStore
<1>2. /\ cuBegun \in Nat
      /\ \A s : Cardinality(Newer(s)) \in Nat
      /\ \A s \in CompleteSnapshots : s \in Nat /\ s <= cuBegun /\ s # 0
  BY ShelfIsFinite
<1>3. /\ cuSnap'.stage = "dump" /\ cuSnap'.sid = cuBegun + 1 /\ cuSnap'.refs = ReferencedKeys
      /\ cuSnap'.rotate = Rotated(CompleteSnapshots) /\ cuSnap'.copied = {}
  BY <1>1 DEF SnapIdle
<1>4. CompleteSnapshots' = CompleteSnapshots /\ \A s : Newer(s)' = Newer(s)
  BY <1>1 DEF CompleteSnapshots, Newer
<1>5. /\ cuBegun' \in 0..MaxSnaps /\ CompleteSnapshots' \subseteq 1..cuBegun'
      /\ cuPartial' \in 0..cuBegun' /\ cuPartial' \notin CompleteSnapshots' /\ cuBegun' # 0
  BY <1>1, <1>2, <1>4, CuAssumption
<1>6. /\ Rotated(CompleteSnapshots) \subseteq CompleteSnapshots
      /\ \A s \in Rotated(CompleteSnapshots) : Cardinality(Newer(s)) >= Keep - 1
  <2>1. Keep - 1 \in Int
    BY CuAssumption
  <2>2. \A s \in Rotated(CompleteSnapshots) :
           s \in CompleteSnapshots /\ s \notin Newest(Keep - 1, CompleteSnapshots)
    BY DEF Rotated
  <2> QED
    BY <1>2, <2>1, <2>2, NotAmongTheNewest
<1>7. SnapshotIsWhole'
  BY <1>1, <1>4 DEF ShelfInv, SnapshotIsWhole
<1>8. \A s \in CompleteSnapshots' : cuSets'[s] \in Manifest
  BY <1>1, <1>4 DEF ShelfInv
<1>9. ReferencedKeys \subseteq cuObjects' \cup cuDropped' /\ ReferencedKeys \subseteq Keys
  BY <1>1, NamedWasThere
<1> QED
  BY <1>1, <1>3, <1>4, <1>5, <1>6, <1>7, <1>8, <1>9 DEF ShelfInv

\* A snapshot ends where it stands, or before it begins: the shelf keeps its
\* complete ones.
LEMMA SnapshotStopsShelf ==
    ASSUME ShelfInv,
           \/ SnapshotRefused \/ SnapshotEnd \/ SnapshotCrash
           \/ \E k \in Keys : CopyFails(k)
    PROVE  ShelfInv'
<1>1. /\ UNCHANGED <<cuObjects, cuDropped, cuSets>>
      /\ cuSnap' = SnapIdle
      /\ cuPartial' \in {0, cuPartial}
      /\ cuBegun' = cuBegun \/ (cuBegun < MaxSnaps /\ cuBegun' = cuBegun + 1)
  BY DEF SnapshotRefused, SnapshotEnd, SnapshotCrash, CopyFails, cuStore
<1>2. cuBegun \in Nat /\ cuBegun' \in 0..MaxSnaps /\ cuBegun <= cuBegun' /\ cuBegun' \in Nat
  BY <1>1, CuAssumption DEF ShelfInv
<1>3. CompleteSnapshots' = CompleteSnapshots
  BY <1>1 DEF CompleteSnapshots
<1>4. /\ CompleteSnapshots' \subseteq 1..cuBegun' /\ cuPartial' \in 0..cuBegun'
      /\ cuPartial' \notin CompleteSnapshots'
  <2>1. CompleteSnapshots \subseteq 1..cuBegun /\ cuPartial \in 0..cuBegun
        /\ cuPartial \notin CompleteSnapshots
    BY DEF ShelfInv
  <2> QED
    BY <1>1, <1>2, <1>3, <2>1
<1>5. SnapshotIsWhole' /\ \A s \in CompleteSnapshots' : cuSets'[s] \in Manifest
  BY <1>1, <1>3 DEF ShelfInv, SnapshotIsWhole
<1>6. cuSnap'.stage = "idle" /\ cuSnap'.rotate = {}
  BY <1>1 DEF SnapIdle
<1> QED
  BY <1>2, <1>4, <1>5, <1>6 DEF ShelfInv

\* The bucket is listed, or one object of it copied: what was exported is still
\* to copy, copied, or removed.
LEMMA CopyShelf ==
    ASSUME StoreInv, ShelfInv, ListObjects \/ \E k \in Keys : CopyObject(k)
    PROVE  ShelfInv'
<1>1. /\ UNCHANGED <<cuObjects, cuDropped, cuSets, cuPartial, cuBegun>>
      /\ cuObjects \subseteq Keys
  BY DEF ListObjects, CopyObject, cuStore, StoreInv
<1>2. CompleteSnapshots' = CompleteSnapshots /\ \A s : Newer(s)' = Newer(s)
  BY <1>1 DEF CompleteSnapshots, Newer
<1>3. SnapshotIsWhole' /\ \A s \in CompleteSnapshots' : cuSets'[s] \in Manifest
  BY <1>1, <1>2 DEF ShelfInv, SnapshotIsWhole
<1>4. /\ cuSnap'.stage = "copy" /\ cuSnap.stage \in {"dump", "copy"}
      /\ cuSnap'.sid = cuSnap.sid /\ cuSnap'.refs = cuSnap.refs
      /\ cuSnap'.rotate = cuSnap.rotate
      /\ cuSnap'.todo \subseteq Keys /\ cuSnap'.copied \subseteq Keys
      /\ cuSnap.refs \subseteq cuSnap'.todo \cup cuSnap'.copied \cup cuDropped
  <2>1. CASE ListObjects
    <3>1. cuSnap' = [cuSnap EXCEPT !.stage = "copy", !.todo = cuObjects] /\ cuSnap.stage = "dump"
      BY <2>1 DEF ListObjects
    <3> QED
      BY <1>1, <3>1 DEF ShelfInv
  <2>2. ASSUME NEW k \in Keys, CopyObject(k)
        PROVE  /\ cuSnap'.stage = "copy" /\ cuSnap.stage \in {"dump", "copy"}
               /\ cuSnap'.sid = cuSnap.sid /\ cuSnap'.refs = cuSnap.refs
               /\ cuSnap'.rotate = cuSnap.rotate
               /\ cuSnap'.todo \subseteq Keys /\ cuSnap'.copied \subseteq Keys
               /\ cuSnap.refs \subseteq cuSnap'.todo \cup cuSnap'.copied \cup cuDropped
    <3>1. /\ cuSnap' = [cuSnap EXCEPT !.todo = @ \ {k}, !.copied = @ \cup {k}]
          /\ cuSnap.stage = "copy"
      BY <2>2 DEF CopyObject
    <3> QED
      BY <1>1, <3>1 DEF ShelfInv
  <2> QED
    BY <2>1, <2>2
<1> QED
  BY <1>1, <1>2, <1>3, <1>4 DEF ShelfInv

\* The manifest completes the snapshot: it counts as a newer one for each set
\* that will be rotated out, and lists as missing only what was removed.
LEMMA ManifestShelf ==
    ASSUME ShelfInv, WriteManifest
    PROVE  /\ ShelfInv' /\ CompleteSnapshots \subseteq CompleteSnapshots'
<1> DEFINE sid == cuSnap.sid
           m == [refs |-> cuSnap.refs, objs |-> cuSnap.copied,
                 missing |-> cuSnap.refs \ cuSnap.copied]
<1>1. /\ cuSnap.stage = "copy" /\ cuSnap.todo = {}
      /\ cuSets' = [s \in CompleteSnapshots \cup {sid} |-> IF s = sid THEN m ELSE cuSets[s]]
      /\ cuPartial' = 0 /\ cuSnap' = [cuSnap EXCEPT !.stage = "rotate"]
      /\ UNCHANGED <<cuObjects, cuDropped, cuBegun>>
  BY DEF WriteManifest, Shelve, cuStore
<1>2. /\ cuBegun \in Nat
      /\ \A s : IsFiniteSet(Newer(s)) /\ Cardinality(Newer(s)) \in Nat
      /\ \A s \in CompleteSnapshots : s \in Nat /\ s <= cuBegun /\ s # 0
  BY ShelfIsFinite
<1>3. /\ sid = cuBegun /\ cuBegun # 0 /\ cuBegun \notin CompleteSnapshots
      /\ cuSnap.refs \subseteq Keys /\ cuSnap.copied \subseteq Keys
      /\ cuSnap.refs \subseteq cuSnap.copied \cup cuDropped
  BY <1>1 DEF ShelfInv
<1>4. CompleteSnapshots' = CompleteSnapshots \cup {cuBegun}
  BY <1>1, <1>3 DEF CompleteSnapshots
<1>5. m \in Manifest /\ m.missing \subseteq cuDropped
  BY <1>3 DEF Manifest
<1> HIDE DEF m
<1>6. /\ \A s \in CompleteSnapshots' : cuSets'[s] \in Manifest
      /\ SnapshotIsWhole'
  <2>1. /\ cuSets'[cuBegun] = m
        /\ \A s \in CompleteSnapshots : cuSets'[s] = cuSets[s]
    BY <1>1, <1>3
  <2>2. \A s \in CompleteSnapshots : cuSets[s] \in Manifest /\ cuSets[s].missing \subseteq cuDropped
    BY DEF ShelfInv, SnapshotIsWhole
  <2> QED
    BY <1>1, <1>4, <1>5, <2>1, <2>2 DEF SnapshotIsWhole
<1>7. \A s \in CompleteSnapshots : Cardinality(Newer(s))' = Cardinality(Newer(s)) + 1
  <2> SUFFICES ASSUME NEW s \in CompleteSnapshots
               PROVE  Cardinality(Newer(s)') = Cardinality(Newer(s)) + 1
    OBVIOUS
  <2>1. Newer(s)' = Newer(s) \cup {cuBegun}
    <3>1. cuBegun > s
      BY <1>2, <1>3
    <3> QED
      BY <1>4, <3>1 DEF Newer
  <2>2. cuBegun \notin Newer(s)
    BY <1>3 DEF Newer
  <2> QED
    BY <1>2, <2>1, <2>2, FS_AddElement
<1>8. cuSnap'.stage = "rotate" /\ cuSnap'.rotate = cuSnap.rotate
  BY <1>1 DEF ShelfInv
<1>9. \A s \in cuSnap'.rotate : Cardinality(Newer(s))' >= Keep
  <2>1. \A s \in cuSnap.rotate : s \in CompleteSnapshots /\ Cardinality(Newer(s)) >= Keep - 1
    BY <1>1 DEF ShelfInv
  <2>2. \A s \in cuSnap.rotate : Cardinality(Newer(s)) + 1 >= Keep
    <3>1. Keep \in Nat
      BY CuAssumption
    <3> QED
      BY <1>2, <2>1, <3>1
  <2> QED
    BY <1>7, <1>8, <2>1, <2>2
<1>10. /\ cuBegun' \in 0..MaxSnaps /\ CompleteSnapshots' \subseteq 1..cuBegun'
       /\ cuPartial' \in 0..cuBegun' /\ cuPartial' \notin CompleteSnapshots'
       /\ cuSnap'.rotate \subseteq CompleteSnapshots'
  <2>1. cuBegun \in 0..MaxSnaps /\ cuSnap.rotate \subseteq CompleteSnapshots
    BY DEF ShelfInv
  <2> QED
    BY <1>1, <1>2, <1>3, <1>4, <1>8, <2>1
<1> QED
  BY <1>4, <1>6, <1>8, <1>9, <1>10 DEF ShelfInv

\* The oldest of the sets to rotate out goes: it is none of the newest, and the
\* others keep their newer ones.
LEMMA RotateShelf ==
    ASSUME ShelfInv, NEW s \in 1..MaxSnaps, RotateOut(s)
    PROVE  ShelfInv' /\ Newest(Keep, CompleteSnapshots) \subseteq CompleteSnapshots'
<1>1. /\ cuSnap.stage = "rotate" /\ s \in cuSnap.rotate /\ \A t \in cuSnap.rotate : s <= t
      /\ cuSets' = [t \in CompleteSnapshots \ {s} |-> cuSets[t]]
      /\ cuSnap' = [cuSnap EXCEPT !.rotate = @ \ {s}]
      /\ UNCHANGED <<cuObjects, cuDropped, cuPartial, cuBegun>>
  BY DEF RotateOut, cuStore
<1>2. /\ cuBegun \in Nat
      /\ \A t : IsFiniteSet(Newer(t)) /\ Cardinality(Newer(t)) \in Nat
      /\ \A t \in CompleteSnapshots : t \in Nat
  BY ShelfIsFinite
<1>3. CompleteSnapshots' = CompleteSnapshots \ {s}
  BY <1>1 DEF CompleteSnapshots
<1>4. cuSnap'.stage = "rotate" /\ cuSnap'.rotate = cuSnap.rotate \ {s}
  BY <1>1 DEF ShelfInv
<1>5. \A t \in cuSnap.rotate : t \in CompleteSnapshots /\ Cardinality(Newer(t)) >= Keep
  BY <1>1 DEF ShelfInv
<1>6. \A t \in cuSnap.rotate : Newer(t)' = Newer(t)
  <2> SUFFICES ASSUME NEW t \in cuSnap.rotate PROVE Newer(t)' = Newer(t)
    OBVIOUS
  <2>1. s \in Nat /\ t \in Nat /\ s <= t
    BY <1>1, <1>2, <1>5
  <2>2. \A u : u > t => u # s
    BY <2>1
  <2> QED
    BY <1>3, <2>2 DEF Newer
<1>7. \A t \in cuSnap'.rotate : Cardinality(Newer(t))' >= Keep
  BY <1>4, <1>5, <1>6
<1>8. SnapshotIsWhole' /\ \A t \in CompleteSnapshots' : cuSets'[t] \in Manifest
  <2>1. \A t \in CompleteSnapshots' : cuSets'[t] = cuSets[t] /\ t \in CompleteSnapshots
    BY <1>1, <1>3
  <2> QED
    BY <1>1, <2>1 DEF ShelfInv, SnapshotIsWhole
<1>9. Newest(Keep, CompleteSnapshots) \subseteq CompleteSnapshots'
  <2>1. s \notin Newest(Keep, CompleteSnapshots)
    <3>1. Cardinality(Newer(s)) >= Keep /\ Cardinality(Newer(s)) \in Nat /\ Keep \in Nat
      BY <1>1, <1>2, <1>5, CuAssumption
    <3>2. ~ (Cardinality(Newer(s)) < Keep)
      BY <3>1
    <3> QED
      BY <3>2 DEF Newest, Newer
  <2> QED
    BY <1>3, <2>1 DEF Newest
<1>10. /\ cuBegun' \in 0..MaxSnaps /\ CompleteSnapshots' \subseteq 1..cuBegun'
       /\ cuPartial' \in 0..cuBegun' /\ cuPartial' \notin CompleteSnapshots'
       /\ cuSnap'.rotate \subseteq CompleteSnapshots'
  BY <1>1, <1>3, <1>4 DEF ShelfInv
<1> QED
  BY <1>4, <1>7, <1>8, <1>9, <1>10 DEF ShelfInv

-----------------------------------------------------------------------------
(* The target of a restore.                                                *)

\* A step of the store or of a snapshot leaves the target alone.
LEMMA TargetStands ==
    ASSUME TargetInv, UNCHANGED cuTarget, cuBroken' \in 0..CuCrashMax
    PROVE  TargetInv'
BY DEF TargetInv, NoMixedRestore

\* A restore takes its database and its objects from one set.
LEMMA RestoreTarget ==
    ASSUME TargetInv,
           \/ \E s \in 1..MaxSnaps : RestoreDatabase(s)
           \/ \E k \in Keys : RestoreObject(k)
           \/ \E b \in BOOLEAN : RestoreEnd(b) \/ DropTarget(b)
           \/ RestoreBreaks
    PROVE  TargetInv' /\ UNCHANGED <<cuStore, cuShelf>>
<1>1. ASSUME NEW s \in 1..MaxSnaps, RestoreDatabase(s)
      PROVE  TargetInv' /\ UNCHANGED <<cuStore, cuShelf>>
  <2>1. /\ cuTarget.objs = {} /\ UNCHANGED <<cuStore, cuShelf, cuBroken>>
        /\ cuTarget' = [cuTarget EXCEPT !.stage = "objects", !.sid = s,
                                        !.refs = cuSets[s].refs, !.items = cuSets[s].objs]
    BY <1>1 DEF RestoreDatabase, TargetIsEmpty
  <2>2. cuTarget'.objs = {} /\ cuTarget'.stage = "objects"
    BY <2>1 DEF TargetInv
  <2> QED
    BY <2>1, <2>2 DEF TargetInv, NoMixedRestore
<1>2. ASSUME NEW k \in Keys, RestoreObject(k)
      PROVE  TargetInv' /\ UNCHANGED <<cuStore, cuShelf>>
  BY <1>2 DEF RestoreObject, TargetInv, NoMixedRestore
<1>3. ASSUME NEW b \in BOOLEAN, RestoreEnd(b)
      PROVE  TargetInv' /\ UNCHANGED <<cuStore, cuShelf>>
  BY <1>3 DEF RestoreEnd, TargetInv, NoMixedRestore
<1>4. ASSUME NEW b \in BOOLEAN, DropTarget(b)
      PROVE  TargetInv' /\ UNCHANGED <<cuStore, cuShelf>>
  <2>1. cuTarget'.stage = "empty" /\ UNCHANGED <<cuStore, cuShelf, cuBroken>>
    BY <1>4 DEF DropTarget, EmptyTarget
  <2> QED
    BY <2>1 DEF TargetInv, NoMixedRestore
<1>5. CASE RestoreBreaks
  <2>1. /\ cuTarget' = [cuTarget EXCEPT !.stage = "torn"] /\ cuTarget.stage = "objects"
        /\ cuBroken < CuCrashMax /\ cuBroken' = cuBroken + 1 /\ UNCHANGED <<cuStore, cuShelf>>
    BY <1>5 DEF RestoreBreaks
  <2>2. cuBroken' \in 0..CuCrashMax
    BY <2>1, CuAssumption DEF TargetInv
  <2> QED
    BY <2>1, <2>2 DEF TargetInv, NoMixedRestore
<1> QED
  BY <1>1, <1>2, <1>3, <1>4, <1>5

-----------------------------------------------------------------------------
(* The three parts together.                                               *)

\* An empty store, an empty shelf, an empty target.
LEMMA CuInitInv == CuInit => CuInv
<1> SUFFICES ASSUME CuInit PROVE CuInv
  OBVIOUS
<1>1. CompleteSnapshots = {}
  BY DEF CuInit, CompleteSnapshots
<1>2. StoreInv
  BY CuAssumption DEF CuInit, CuIdle, StoreInv, CuTxnOK, LogoKey, RowsHaveTheirObject,
                      ReferencedKeys, Kinds
<1>3. ShelfInv
  BY <1>1, CuAssumption DEF CuInit, ShelfInv, SnapIdle, SnapshotIsWhole
<1>4. TargetInv
  BY CuAssumption DEF CuInit, TargetInv, EmptyTarget, NoMixedRestore
<1> QED
  BY <1>2, <1>3, <1>4 DEF CuInv

\* A step of an upload or a deletion: the store by the lemma of the action, the
\* shelf because what leaves the bucket is recorded as removed, the target
\* because it is not touched.
LEMMA StoreStep ==
    ASSUME CuInv,
           \/ \E q \in CuRequests, k \in Keys :
                 \/ UploadEvidence(q, k) \/ CollectTaskEvidenceFile(q, k)
                 \/ UploadDiagram(q, k) \/ UploadDocument(q, k) \/ UploadLogo(q, k)
                 \/ FetchPage(q, k) \/ DeleteObject(q, k)
           \/ \E q \in CuRequests :
                 CommitRow(q) \/ DropOldLogo(q) \/ DeleteRow(q) \/ BreakOff(q)
    PROVE  CuInv' /\ UNCHANGED cuShelf
<1> USE DEF CuInv
<1> DEFINE Rest == /\ UNCHANGED <<cuShelf, cuTarget, cuBroken>>
                   /\ cuDropped \subseteq cuDropped'
                   /\ cuObjects \subseteq cuObjects' \cup cuDropped'
<1>1. ASSUME NEW q \in CuRequests, NEW k \in Keys,
             \/ UploadEvidence(q, k) \/ CollectTaskEvidenceFile(q, k)
             \/ UploadDiagram(q, k) \/ UploadDocument(q, k) \/ UploadLogo(q, k)
      PROVE  StoreInv' /\ Rest
  <2>1. PICK kind \in Kinds : UploadFile(q, k, kind)
    BY <1>1 DEF UploadEvidence, CollectTaskEvidenceFile, UploadDiagram, UploadDocument,
                UploadLogo, Kinds
  <2>2. UNCHANGED <<cuShelf, cuTarget, cuBroken>>
    BY <2>1 DEF UploadFile, CuElse
  <2> QED
    BY <2>1, <2>2, UploadStore
<1>2. ASSUME NEW q \in CuRequests, NEW k \in Keys, FetchPage(q, k)
      PROVE  StoreInv' /\ Rest
  BY <1>2, FetchStore DEF FetchPage, CuElse
<1>3. ASSUME NEW q \in CuRequests, NEW k \in Keys, DeleteObject(q, k)
      PROVE  StoreInv' /\ Rest
  BY <1>3, DeleteStore DEF DeleteObject, CuElse
<1>4. ASSUME NEW q \in CuRequests, CommitRow(q)
      PROVE  StoreInv' /\ Rest
  BY <1>4, CommitStore DEF CommitRow, CuElse
<1>5. ASSUME NEW q \in CuRequests, DropOldLogo(q) \/ DeleteRow(q) \/ BreakOff(q)
      PROVE  StoreInv' /\ Rest
  <2>1. UNCHANGED <<cuShelf, cuTarget, cuBroken>>
    BY <1>5 DEF DropOldLogo, DeleteRow, BreakOff, CuElse
  <2> QED
    BY <1>5, <2>1, EndsStore
<1>6. StoreInv' /\ Rest
  BY <1>1, <1>2, <1>3, <1>4, <1>5
<1>7. ShelfInv'
  BY <1>6, ShelfStands
<1>8. TargetInv'
  BY <1>6, TargetStands DEF TargetInv
<1> QED
  BY <1>6, <1>7, <1>8

\* A step of the snapshot command reads the store and writes the shelf.
LEMMA ShelfStep ==
    ASSUME CuInv,
           \/ SnapshotBegin \/ SnapshotRefused \/ ListObjects \/ WriteManifest
           \/ SnapshotEnd \/ SnapshotCrash
           \/ \E k \in Keys : CopyObject(k) \/ CopyFails(k)
           \/ \E s \in 1..MaxSnaps : RotateOut(s)
    PROVE  CuInv' /\ Newest(Keep, CompleteSnapshots) \subseteq CompleteSnapshots'
<1> USE DEF CuInv
<1>1. UNCHANGED cuStore
  BY DEF SnapshotBegin, SnapshotRefused, ListObjects, WriteManifest, SnapshotEnd,
         SnapshotCrash, CopyObject, CopyFails, RotateOut
<1>2. StoreInv'
  <2>1. UNCHANGED <<cuRow, cuObjects, cuTxn, cuHalf, cuDropped, cuServed>>
    BY <1>1 DEF cuStore
  <2> QED
    BY <2>1 DEF StoreInv, CuTxnOK, LogoKey, RowsHaveTheirObject, ReferencedKeys
<1>3. TargetInv'
  <2>1. UNCHANGED cuTarget
    BY DEF SnapshotBegin, SnapshotRefused, ListObjects, WriteManifest, SnapshotEnd,
           SnapshotCrash, CopyObject, CopyFails, RotateOut
  <2>2. cuBroken' = cuBroken \/ (cuBroken < CuCrashMax /\ cuBroken' = cuBroken + 1)
    BY DEF SnapshotBegin, SnapshotRefused, ListObjects, WriteManifest, SnapshotEnd,
           SnapshotCrash, CopyObject, CopyFails, RotateOut
  <2>3. cuBroken' \in 0..CuCrashMax
    BY <2>2, CuAssumption DEF TargetInv
  <2> QED
    BY <2>1, <2>3, TargetStands
<1>4. ShelfInv'
  BY SnapshotBeginShelf, SnapshotStopsShelf, CopyShelf, ManifestShelf, RotateShelf
<1>5. Newest(Keep, CompleteSnapshots) \subseteq CompleteSnapshots'
  <2>1. CASE WriteManifest
    BY <2>1, ManifestShelf DEF Newest
  <2>2. ASSUME NEW s \in 1..MaxSnaps, RotateOut(s)
        PROVE  Newest(Keep, CompleteSnapshots) \subseteq CompleteSnapshots'
    BY <2>2, RotateShelf
  <2>3. ASSUME ~ WriteManifest, ~ \E s \in 1..MaxSnaps : RotateOut(s)
        PROVE  Newest(Keep, CompleteSnapshots) \subseteq CompleteSnapshots'
    <3>1. UNCHANGED cuSets
      BY <2>3 DEF SnapshotBegin, SnapshotRefused, ListObjects, SnapshotEnd,
                  SnapshotCrash, CopyObject, CopyFails
    <3> QED
      BY <3>1 DEF CompleteSnapshots, Newest
  <2> QED
    BY <2>1, <2>2, <2>3
<1> QED
  BY <1>2, <1>3, <1>4, <1>5

\* A step of a restore writes the target.
LEMMA TargetStep ==
    ASSUME CuInv,
           \/ \E s \in 1..MaxSnaps : RestoreDatabase(s)
           \/ \E k \in Keys : RestoreObject(k)
           \/ \E b \in BOOLEAN : RestoreEnd(b) \/ DropTarget(b)
           \/ RestoreBreaks
    PROVE  CuInv' /\ UNCHANGED cuShelf
<1> USE DEF CuInv
<1>1. TargetInv' /\ UNCHANGED <<cuStore, cuShelf>>
  BY RestoreTarget
<1>2. UNCHANGED <<cuRow, cuObjects, cuTxn, cuHalf, cuDropped, cuServed>>
  BY <1>1 DEF cuStore
<1>3. StoreInv'
  BY <1>2 DEF StoreInv, CuTxnOK, LogoKey, RowsHaveTheirObject, ReferencedKeys
<1>4. ShelfInv'
  BY <1>1, <1>2, ShelfStands
<1> QED
  BY <1>1, <1>3, <1>4

\* What stays when no variable of the shelf changes.
LEMMA SameShelf ==
    ASSUME UNCHANGED cuShelf
    PROVE  Newest(Keep, CompleteSnapshots) \subseteq CompleteSnapshots'
BY DEF cuShelf, CompleteSnapshots, Newest

\* Every step keeps the invariant, and the newest complete snapshots.
LEMMA CuNextInv ==
    ASSUME CuInv, [CuNext]_cuVars
    PROVE  CuInv' /\ Newest(Keep, CompleteSnapshots) \subseteq CompleteSnapshots'
<1>1. CASE UNCHANGED cuVars
  <2>1. /\ UNCHANGED <<cuRow, cuObjects, cuTxn, cuHalf, cuDropped, cuServed>>
        /\ UNCHANGED <<cuShelf, cuTarget, cuBroken>>
    BY <1>1 DEF cuVars, cuStore
  <2>2. StoreInv'
    BY <2>1 DEF CuInv, StoreInv, CuTxnOK, LogoKey, RowsHaveTheirObject, ReferencedKeys
  <2>3. ShelfInv'
    BY <2>1, ShelfStands DEF CuInv
  <2>4. TargetInv'
    BY <2>1, TargetStands DEF CuInv, TargetInv
  <2> QED
    BY <2>1, <2>2, <2>3, <2>4, SameShelf DEF CuInv
<1>2. CASE CuNext
  BY <1>2, StoreStep, ShelfStep, TargetStep, SameShelf DEF CuNext
<1> QED
  BY <1>1, <1>2

\* Whatever overlaps, fails, breaks off or is restored, the three parts of the
\* invariant hold.
THEOREM CuInvariant == CuSpec => []CuInv
BY CuInitInv, CuNextInv, PTL DEF CuSpec

\* Rows, objects, snapshots and the target keep their types; an organisation has
\* one logo at most (models.py, snapshots.py).
THEOREM CuTypeCorrect == CuSpec => []CuTypeOK
<1>1. ASSUME CuInv PROVE CuTypeOK
  <2>1. Cardinality({k \in Keys : cuRow[k] = "logo"}) <= 1
    BY <1>1, AtMostOne DEF CuInv, StoreInv, LogoKey
  <2>2. \A q \in CuRequests : cuTxn[q].op \in {"idle", "put", "old", "delete"}
    BY <1>1 DEF CuInv, StoreInv, CuTxnOK
  <2>3. /\ CompleteSnapshots \subseteq 1..MaxSnaps /\ cuPartial \in 0..MaxSnaps
        /\ cuBegun \in 0..MaxSnaps
    BY <1>1, CuAssumption DEF CuInv, ShelfInv
  <2> QED
    BY <1>1, <2>1, <2>2, <2>3 DEF CuInv, CuTypeOK, StoreInv, ShelfInv, TargetInv
<1> QED
  BY <1>1, CuInvariant, PTL

\* No row without its object in the live store (save where delete_document took
\* the object first), in a snapshot, or in what was restored from one, whichever
\* request, snapshot or restore stops where (storage.py, snapshots.py).
THEOREM FilesStaySafe == CuSpec => []FilesAreSafe
<1>1. VerifiedIsUsable
  BY DEF VerifiedIsUsable, VerifyPasses, CheckReferences
<1>2. CuInv => FilesAreSafe
  BY <1>1 DEF CuInv, StoreInv, ShelfInv, TargetInv, FilesAreSafe
<1> QED
  BY <1>2, CuInvariant, PTL

\* Taking a snapshot never costs one of the newest `keep' that were there,
\* wherever it is refused, fails or stops (snapshots.py, rotation).
THEOREM NewestAreKept == CuSpec => KeepsTheNewest
<1>1. CuInv /\ [CuNext]_cuVars
         => [Newest(Keep, CompleteSnapshots) \subseteq CompleteSnapshots']_cuVars
  BY CuNextInv
<1> QED
  BY <1>1, CuInvariant, PTL DEF CuSpec, KeepsTheNewest

-----------------------------------------------------------------------------
(* Credentials.                                                            *)

CrSpec == CrInit /\ [][CrNext]_crVars

\* A row with a credential has the key it is under.
Row == {row \in IntegrationConnection : (row.secret = None) = (row.under = None)}

\* What a write puts in place: a credential under the primary key, or none.
Written(new) ==
    /\ new \in Row
    /\ new.under \in {None, Primary} /\ new.label = new.under /\ new.tested = None

\* A row without a credential, or with one under the primary key.
UnderPrimary(row) == row.secret # None => row.under = Primary

\* What still holds of what a request in flight read, whatever the others did.
ReadOK(t) ==
    /\ t.op \in {"idle", "write", "test", "rotate"}
    /\ t.op = "idle" => t = CrIdle
    /\ t.op \in {"write", "test"} => t.c \in Connectors /\ t.read \in Row
    /\ t.op = "write" =>
          /\ Written(t.new)
          /\ t.read.label = Primary => crRow[t.c].label \in {None, Primary}
    /\ t.op = "rotate" =>
          /\ t.rows \in [Connectors -> Row]
          /\ \A c \in Connectors : c \notin NeedsRotation(t.rows) => UnderPrimary(crRow[c])

\* Rows, and requests in flight.
RowsOK ==
    /\ crRow \in [Connectors -> Row]
    /\ crLatest \in [Connectors -> Secrets \cup {None}]
    /\ \A c \in Connectors :
          crRow[c].secret # None => crRow[c].label \in {None, crRow[c].under}

ReadsOK ==
    /\ crTxn = [q \in CrRequests |-> crTxn[q]]
    /\ \A q \in CrRequests : ReadOK(crTxn[q])

KeysOK ==
    /\ crKeys \in Seq(Labels) /\ crKeys # << >>
    /\ {crSettled, crCareful, crOverlap} \subseteq BOOLEAN
    /\ crServed \in 0..CrMax

\* After a rotation every credential is under the primary key.
SettledOK == crSettled => \A c \in Connectors : UnderPrimary(crRow[c])

\* Without overlap one request at most is in flight, and its read is current.
Current(t) ==
    /\ t.op \in {"write", "test"} => t.read = crRow[t.c]
    /\ t.op = "rotate" => t.rows = crRow

AloneOK ==
    ~ crOverlap =>
        /\ \A q, r \in CrRequests : crTxn[q] # CrIdle /\ crTxn[r] # CrIdle => q = r
        /\ \A q \in CrRequests : Current(crTxn[q])

CrInv ==
    RowsOK /\ ReadsOK /\ KeysOK /\ SettledOK /\ AloneOK /\ CredentialsAreSound

-----------------------------------------------------------------------------
(* Keys.                                                                   *)

\* The first of the configured keys is one of them.
LEMMA PrimaryIsConfigured ==
    ASSUME NEW s \in Seq(Labels), s # << >>
    PROVE  /\ Head(s) \in Labels /\ Len(s) \in Nat /\ Len(s) >= 1
           /\ Head(s) = s[1] /\ Head(s) \in {s[i] : i \in 1..Len(s)}
<1>1. Len(s) \in Nat /\ Len(s) # 0
  BY EmptySeq
<1>2. Head(s) = s[1] /\ 1 \in 1..Len(s)
  BY <1>1
<1> QED
  BY <1>1, <1>2, ElementOfSeq

\* None is no key and no secret.
LEMMA NoneIsNone == None \notin Secrets /\ None \notin Labels
BY CrAssumption DEF None

\* A row that is none of a key's is a row.
LEMMA NoCredentialIsWritten == Written(NoCredential)
BY DEF Written, NoCredential, Row, IntegrationConnection, None

\* What encrypt_credential makes of a row is written, and holds that secret.
LEMMA EncryptedIsWritten ==
    ASSUME CrInv, NEW s \in Secrets, NEW row
    PROVE  Written(EncryptCredential(row, s)) /\ EncryptCredential(row, s).secret = s
<1>1. Primary \in Labels
  BY PrimaryIsConfigured DEF CrInv, KeysOK, Primary
<1> QED
  BY <1>1, NoneIsNone DEF Written, EncryptCredential, Row, IntegrationConnection

-----------------------------------------------------------------------------
(* Initial states, and each operation.                                     *)

\* Nothing is stored, nothing is in flight.
LEMMA CrInitInv == CrInit => CrInv
<1> SUFFICES ASSUME CrInit PROVE CrInv
  OBVIOUS
<1> USE DEF CrInit
<1>1. RowsOK
  <2>1. NoCredential \in Row
    BY NoCredentialIsWritten DEF Written
  <2> QED
    BY <2>1 DEF RowsOK, NoCredential
<1>2. ReadsOK
  BY DEF ReadsOK, ReadOK, CrIdle
<1>3. KeysOK
  <2>1. <<FirstLabel>> \in Seq(Labels) /\ <<FirstLabel>> # << >> /\ 0 \in 0..CrMax
    BY CrAssumption
  <2> QED
    BY <2>1 DEF KeysOK
<1>4. SettledOK
  BY DEF SettledOK
<1>5. AloneOK
  BY DEF AloneOK, Current, CrIdle
<1>6. CredentialsAreSound
  BY DEF CredentialsAreSound, StoredStaysReadable, StoredIsLatest, LabelTellsTheKey,
         VerdictIsOfThisCredential, NoCredential
<1> QED
  BY <1>1, <1>2, <1>3, <1>4, <1>5, <1>6 DEF CrInv

\* What the rows, keys and history say does not depend on the requests.
LEMMA RowsAlone ==
    ASSUME CrInv, UNCHANGED <<crRow, crKeys, crLatest, crSettled, crCareful, crOverlap>>,
           crServed' \in 0..CrMax
    PROVE  RowsOK' /\ KeysOK' /\ SettledOK' /\ CredentialsAreSound'
<1>1. RowsOK' /\ KeysOK' /\ SettledOK'
  BY DEF CrInv, RowsOK, KeysOK, SettledOK, UnderPrimary, Primary
<1>2. CredentialsAreSound'
  BY DEF CrInv, CredentialsAreSound, StoredStaysReadable, StoredIsLatest, LabelTellsTheKey,
         VerdictIsOfThisCredential, DecryptCredential, Configured
<1> QED
  BY <1>1, <1>2

\* A request begins: t is what it read.
LEMMA CrBeginStep ==
    ASSUME CrInv, NEW q \in CrRequests, NEW t, CrBegin(q, t),
           ReadOK(t), ~ crOverlap => Current(t)
    PROVE  CrInv'
<1>1. /\ crTxn' = [crTxn EXCEPT ![q] = t] /\ crTxn[q] = CrIdle
      /\ crOverlap \/ \A r \in CrRequests : crTxn[r] = CrIdle
      /\ crServed < CrMax /\ crServed' = crServed + 1
      /\ UNCHANGED <<crRow, crKeys, crLatest, crSettled, crCareful, crOverlap>>
  BY DEF CrBegin, CrQuiet
<1>2. crTxn'[q] = t /\ \A r \in CrRequests : r # q => crTxn'[r] = crTxn[r]
  BY <1>1 DEF CrInv, ReadsOK
<1>3. crServed' \in 0..CrMax
  BY <1>1, CrAssumption DEF CrInv, KeysOK
<1>4. ReadsOK'
  <2>1. crTxn' = [r \in CrRequests |-> crTxn'[r]]
    BY <1>1 DEF CrInv, ReadsOK
  <2>2. \A r \in CrRequests : ReadOK(crTxn[r])'
    BY <1>1, <1>2
    DEF CrInv, ReadsOK, ReadOK, Written, NeedsRotation, UnderPrimary, Primary
  <2> QED
    BY <2>1, <2>2 DEF ReadsOK
<1>5. AloneOK'
  <2> SUFFICES ASSUME ~ crOverlap PROVE AloneOK'
    BY <1>1 DEF AloneOK
  <2>1. \A r \in CrRequests : r # q => crTxn'[r] = CrIdle
    BY <1>1, <1>2
  <2>2. Current(t)'
    BY <1>1 DEF Current
  <2>3. \A r \in CrRequests : Current(crTxn[r])'
    BY <1>2, <2>1, <2>2 DEF Current, CrIdle
  <2> QED
    BY <2>1, <2>3 DEF AloneOK
<1> QED
  BY <1>1, <1>3, <1>4, <1>5, RowsAlone DEF CrInv

\* The requests that read first: what each read holds when it begins.
LEMMA CrBeginInv ==
    ASSUME CrInv, NEW q \in CrRequests,
           \/ \E c \in Connectors :
                 \/ \E s \in Secrets : SetCredentialBegin(q, c, s)
                 \/ DeleteCredentialBegin(q, c) \/ TestConnectionBegin(q, c)
           \/ RotateBegin(q)
    PROVE  CrInv'
<1>1. \A c \in Connectors : crRow[c] \in Row
  BY DEF CrInv, RowsOK
<1>2. ASSUME NEW c \in Connectors, NEW new, Written(new),
             CrBegin(q, [op |-> "write", c |-> c, read |-> crRow[c], new |-> new])
      PROVE  CrInv'
  <2> DEFINE t == [op |-> "write", c |-> c, read |-> crRow[c], new |-> new]
  <2>1. ReadOK(t) /\ Current(t)
    BY <1>1, <1>2 DEF ReadOK, Current
  <2> QED
    BY <1>2, <2>1, CrBeginStep
<1>3. ASSUME NEW c \in Connectors, NEW s \in Secrets, SetCredentialBegin(q, c, s)
      PROVE  CrInv'
  BY <1>2, <1>3, EncryptedIsWritten DEF SetCredentialBegin
<1>4. ASSUME NEW c \in Connectors, DeleteCredentialBegin(q, c) PROVE CrInv'
  BY <1>2, <1>4, NoCredentialIsWritten DEF DeleteCredentialBegin
<1>5. ASSUME NEW c \in Connectors, TestConnectionBegin(q, c) PROVE CrInv'
  <2> DEFINE t == [op |-> "test", c |-> c, read |-> crRow[c]]
  <2>1. ReadOK(t) /\ Current(t)
    BY <1>1 DEF ReadOK, Current
  <2> QED
    BY <1>5, <2>1, CrBeginStep DEF TestConnectionBegin
<1>6. CASE RotateBegin(q)
  <2> DEFINE t == [op |-> "rotate", rows |-> crRow]
  <2>1. \A c \in Connectors : c \notin NeedsRotation(crRow) => UnderPrimary(crRow[c])
    <3> SUFFICES ASSUME NEW c \in Connectors, crRow[c].secret # None,
                        crRow[c].label = Primary
                 PROVE  crRow[c].under = Primary
      BY DEF NeedsRotation, UnderPrimary
    <3>1. Primary # None
      BY PrimaryIsConfigured, NoneIsNone DEF CrInv, KeysOK, Primary
    <3> QED
      BY <3>1 DEF CrInv, RowsOK
  <2>2. ReadOK(t) /\ Current(t)
    BY <2>1 DEF ReadOK, Current, CrInv, RowsOK
  <2> QED
    BY <1>6, <2>2, CrBeginStep DEF RotateBegin
<1> QED
  BY <1>3, <1>4, <1>5, <1>6

\* A request ends.  As long as each row keeps its credential and label or has by
\* now none, or one under the primary key, the others keep what they rely on and
\* nothing stored becomes unreadable.
LEMMA CrEndStep ==
    ASSUME CrInv, NEW q \in CrRequests, crTxn[q] # CrIdle, CrEnd(q),
           crRow' \in [Connectors -> Row],
           crLatest' \in [Connectors -> Secrets \cup {None}],
           \A c \in Connectors : crRow'[c].label \in {None, Primary, crRow[c].label},
           \A c \in Connectors :
              \/ /\ crRow'[c].secret = crRow[c].secret /\ crRow'[c].under = crRow[c].under
                 /\ crRow'[c].label = crRow[c].label
              \/ /\ UnderPrimary(crRow'[c])
                 /\ crRow'[c].secret # None => crRow'[c].label \in {None, crRow'[c].under},
           crSettled' \in BOOLEAN,
           crSettled' => crSettled \/ \A c \in Connectors : UnderPrimary(crRow'[c])
    PROVE  /\ RowsOK' /\ ReadsOK' /\ KeysOK' /\ SettledOK' /\ AloneOK'
           /\ StoredStaysReadable'
<1>1. /\ crTxn' = [crTxn EXCEPT ![q] = CrIdle]
      /\ UNCHANGED <<crKeys, crCareful, crServed, crOverlap>>
  BY DEF CrEnd
<1>2. crTxn'[q] = CrIdle /\ \A r \in CrRequests : r # q => crTxn'[r] = crTxn[r]
  BY <1>1 DEF CrInv, ReadsOK
<1>3. Primary' = Primary /\ Configured' = Configured
  BY <1>1 DEF Primary, Configured
<1>4. \A c \in Connectors : UnderPrimary(crRow[c]) => UnderPrimary(crRow'[c])
  BY DEF UnderPrimary
<1>5. RowsOK'
  BY DEF CrInv, RowsOK
<1>6. ReadsOK'
  <2>1. crTxn' = [r \in CrRequests |-> crTxn'[r]]
    BY <1>1 DEF CrInv, ReadsOK
  <2>2. \A r \in CrRequests : ReadOK(crTxn[r])'
    <3> SUFFICES ASSUME NEW r \in CrRequests PROVE ReadOK(crTxn[r])'
      OBVIOUS
    <3>1. CASE r = q
      BY <1>2, <3>1 DEF ReadOK, CrIdle
    <3>2. CASE r # q
      <4>1. ReadOK(crTxn[r]) /\ crTxn'[r] = crTxn[r]
        BY <1>2, <3>2 DEF CrInv, ReadsOK
      <4>2. /\ crTxn[r].op = "write" /\ crTxn[r].read.label = Primary
               => crRow'[crTxn[r].c].label \in {None, Primary}
        BY <4>1 DEF ReadOK
      <4>3. /\ crTxn[r].op = "rotate"
               => \A c \in Connectors :
                     c \notin NeedsRotation(crTxn[r].rows) => UnderPrimary(crRow'[c])
        BY <1>4, <4>1 DEF ReadOK
      <4> QED
        BY <1>3, <4>1, <4>2, <4>3 DEF ReadOK, Written, NeedsRotation, UnderPrimary
    <3> QED
      BY <3>1, <3>2
  <2> QED
    BY <2>1, <2>2 DEF ReadsOK
<1>7. KeysOK'
  BY <1>1 DEF CrInv, KeysOK
<1>8. SettledOK'
  <2>1. crSettled' => \A c \in Connectors : UnderPrimary(crRow'[c])
    BY <1>4 DEF CrInv, SettledOK
  <2> QED
    BY <1>3, <2>1 DEF SettledOK, UnderPrimary
<1>9. AloneOK'
  <2>1. ~ crOverlap => \A r \in CrRequests : crTxn'[r] = CrIdle
    BY <1>2 DEF CrInv, AloneOK
  <2> QED
    BY <1>1, <2>1 DEF AloneOK, Current, CrIdle
<1>10. StoredStaysReadable'
  <2> SUFFICES ASSUME crCareful, NEW c \in Connectors, crRow'[c].secret # None
               PROVE  crRow'[c].under \in Configured
    BY <1>1, <1>3 DEF StoredStaysReadable, DecryptCredential
  <2>1. Primary \in Configured
    BY PrimaryIsConfigured DEF CrInv, KeysOK, Primary, Configured
  <2>2. crRow[c].secret # None => crRow[c].under \in Configured
    BY DEF CrInv, CredentialsAreSound, StoredStaysReadable, DecryptCredential
  <2> QED
    BY <2>1, <2>2 DEF UnderPrimary
<1> QED
  BY <1>5, <1>6, <1>7, <1>8, <1>9, <1>10

\* A credential is set or deleted.
LEMMA SetOrDeleteInv ==
    ASSUME CrInv, NEW q \in CrRequests, SetOrDelete(q)
    PROVE  CrInv'
<1> DEFINE t == crTxn[q]
           put == [Columns(crRow[t.c], t.read, t.new) EXCEPT !.secret = t.new.secret,
                                                             !.under = t.new.under]
<1>1. /\ t.op = "write" /\ t # CrIdle /\ CrEnd(q) /\ UNCHANGED crSettled
      /\ crRow' = [crRow EXCEPT ![t.c] = put]
      /\ crLatest' = [crLatest EXCEPT ![t.c] = t.new.secret]
  BY DEF SetOrDelete, CrIdle
<1>2. /\ t.c \in Connectors /\ t.read \in Row /\ Written(t.new)
      /\ t.read.label = Primary => crRow[t.c].label \in {None, Primary}
  BY <1>1 DEF CrInv, ReadsOK, ReadOK
<1>3. crRow \in [Connectors -> Row] /\ crLatest \in [Connectors -> Secrets \cup {None}]
  BY DEF CrInv, RowsOK
<1>4. /\ put \in Row
      /\ put.secret = t.new.secret /\ put.under = t.new.under
      /\ put.label = IF t.new.label = t.read.label THEN crRow[t.c].label ELSE t.new.label
      /\ put.tested = IF t.new.tested = t.read.tested THEN crRow[t.c].tested ELSE t.new.tested
  BY <1>2, <1>3 DEF Columns, Row, IntegrationConnection, Written
<1> HIDE DEF put
<1>5. /\ crRow' \in [Connectors -> Row] /\ crRow'[t.c] = put
      /\ \A c \in Connectors : c # t.c => crRow'[c] = crRow[c]
  BY <1>1, <1>2, <1>3, <1>4
<1>6. crLatest' \in [Connectors -> Secrets \cup {None}]
  <2>1. t.new.secret \in Secrets \cup {None}
    BY <1>2 DEF Written, Row, IntegrationConnection
  <2> QED
    BY <1>1, <1>3, <2>1
<1>7. put.label \in {None, Primary, crRow[t.c].label}
  BY <1>2, <1>4 DEF Written
<1>8. UnderPrimary(put) /\ (put.secret # None => put.label \in {None, put.under})
  <2>1. t.new.secret # None => t.new.under = Primary /\ t.new.label = Primary
    BY <1>2 DEF Written, Row
  <2> QED
    BY <1>2, <1>4, <2>1 DEF UnderPrimary
<1>9. crSettled' \in BOOLEAN
  BY <1>1 DEF CrInv, KeysOK
<1>10. /\ RowsOK' /\ ReadsOK' /\ KeysOK' /\ SettledOK' /\ AloneOK'
       /\ StoredStaysReadable'
  <2>1. \A c \in Connectors : crRow'[c].label \in {None, Primary, crRow[c].label}
    BY <1>5, <1>7
  <2>2. \A c \in Connectors :
           \/ /\ crRow'[c].secret = crRow[c].secret /\ crRow'[c].under = crRow[c].under
              /\ crRow'[c].label = crRow[c].label
           \/ /\ UnderPrimary(crRow'[c])
              /\ crRow'[c].secret # None => crRow'[c].label \in {None, crRow'[c].under}
    BY <1>5, <1>8
  <2> QED
    BY <1>1, <1>5, <1>6, <1>9, <2>1, <2>2, CrEndStep
<1>11. ~ crOverlap => \A c \in Connectors :
          /\ crRow'[c].secret = crLatest'[c]
          /\ crRow'[c].label = crRow'[c].under
          /\ crRow'[c].tested \in {None, crRow'[c].secret}
  <2> SUFFICES ASSUME ~ crOverlap, NEW c \in Connectors
               PROVE  /\ crRow'[c].secret = crLatest'[c]
                      /\ crRow'[c].label = crRow'[c].under
                      /\ crRow'[c].tested \in {None, crRow'[c].secret}
    OBVIOUS
  <2>1. t.read = crRow[t.c]
    BY <1>1 DEF CrInv, AloneOK, Current
  <2>2. CASE c = t.c
    BY <1>1, <1>2, <1>3, <1>4, <1>5, <2>1, <2>2 DEF Written
  <2>3. CASE c # t.c
    BY <1>1, <1>3, <1>5, <2>3
    DEF CrInv, CredentialsAreSound, StoredIsLatest, LabelTellsTheKey, VerdictIsOfThisCredential
  <2> QED
    BY <2>2, <2>3
<1>12. CredentialsAreSound'
  BY <1>1, <1>10, <1>11
  DEF CredentialsAreSound, StoredIsLatest, LabelTellsTheKey, VerdictIsOfThisCredential, CrEnd
<1> QED
  BY <1>10, <1>12 DEF CrInv

\* A credential is tested.
LEMMA TestInv ==
    ASSUME CrInv, NEW q \in CrRequests, TestConnection(q)
    PROVE  CrInv'
<1> DEFINE t == crTxn[q]
           put == [crRow[t.c] EXCEPT !.tested = t.read.secret]
<1>1. /\ t.op = "test" /\ t # CrIdle /\ CrEnd(q) /\ UNCHANGED <<crLatest, crSettled>>
      /\ crRow' = [crRow EXCEPT ![t.c] = put]
  BY DEF TestConnection, CrIdle
<1>2. t.c \in Connectors /\ t.read \in Row
  BY <1>1 DEF CrInv, ReadsOK, ReadOK
<1>3. crRow \in [Connectors -> Row] /\ crLatest \in [Connectors -> Secrets \cup {None}]
  BY DEF CrInv, RowsOK
<1>4. /\ put \in Row
      /\ put.secret = crRow[t.c].secret /\ put.under = crRow[t.c].under
      /\ put.label = crRow[t.c].label /\ put.tested = t.read.secret
  BY <1>2, <1>3 DEF Row, IntegrationConnection
<1> HIDE DEF put
<1>5. /\ crRow' \in [Connectors -> Row] /\ crRow'[t.c] = put
      /\ \A c \in Connectors : c # t.c => crRow'[c] = crRow[c]
  BY <1>1, <1>2, <1>3, <1>4
<1>6. \A c \in Connectors :
         /\ crRow'[c].secret = crRow[c].secret /\ crRow'[c].under = crRow[c].under
         /\ crRow'[c].label = crRow[c].label
  BY <1>4, <1>5
<1>7. /\ RowsOK' /\ ReadsOK' /\ KeysOK' /\ SettledOK' /\ AloneOK'
      /\ StoredStaysReadable'
  <2>1. crSettled' \in BOOLEAN
    BY <1>1 DEF CrInv, KeysOK
  <2> QED
    BY <1>1, <1>3, <1>5, <1>6, <2>1, CrEndStep
<1>8. ~ crOverlap => \A c \in Connectors : crRow'[c].tested \in {None, crRow'[c].secret}
  <2> SUFFICES ASSUME ~ crOverlap, NEW c \in Connectors
               PROVE  crRow'[c].tested \in {None, crRow'[c].secret}
    OBVIOUS
  <2>1. t.read = crRow[t.c]
    BY <1>1 DEF CrInv, AloneOK, Current
  <2>2. CASE c = t.c
    BY <1>4, <1>5, <2>1, <2>2
  <2>3. CASE c # t.c
    BY <1>5, <2>3 DEF CrInv, CredentialsAreSound, VerdictIsOfThisCredential
  <2> QED
    BY <2>2, <2>3
<1>9. CredentialsAreSound'
  BY <1>1, <1>6, <1>7, <1>8
  DEF CrInv, CredentialsAreSound, StoredIsLatest, LabelTellsTheKey, VerdictIsOfThisCredential,
      CrEnd
<1> QED
  BY <1>7, <1>9 DEF CrInv

\* The keys are rotated, or a failure or a dry run leaves every row as it is.
LEMMA RotateInv ==
    ASSUME CrInv, NEW q \in CrRequests, NEW dry \in BOOLEAN, RotateCredentialKeys(q, dry)
    PROVE  CrInv'
<1> DEFINE rows == crTxn[q].rows
           go == ~ dry /\ ~ RotationFails(rows)
           do == {c \in NeedsRotation(rows) : go /\ DecryptCredential(rows[c])}
           put(c) == [crRow[c] EXCEPT !.secret = rows[c].secret, !.under = Primary,
                                      !.label = Primary]
<1>1. /\ crTxn[q].op = "rotate" /\ crTxn[q] # CrIdle /\ CrEnd(q) /\ UNCHANGED crLatest
      /\ crRow' = [c \in Connectors |-> IF c \in do THEN put(c) ELSE crRow[c]]
      /\ crSettled' = (crSettled \/ go)
  <2>1. /\ crTxn[q].op = "rotate" /\ CrEnd(q) /\ UNCHANGED crLatest
        /\ crRow' = [c \in Connectors |-> IF c \in do THEN put(c) ELSE crRow[c]]
        /\ crSettled' = (crSettled \/ go)
    BY Zenon DEF RotateCredentialKeys
  <2>2. crTxn[q].op = "rotate"
    BY Zenon DEF RotateCredentialKeys
  <2>3. crTxn[q] # CrIdle
    BY <2>2 DEF CrIdle
  <2> QED
    BY <2>1, <2>3
<1>2. /\ rows \in [Connectors -> Row]
      /\ \A c \in Connectors : c \notin NeedsRotation(rows) => UnderPrimary(crRow[c])
  BY <1>1 DEF CrInv, ReadsOK, ReadOK
<1>3. crRow \in [Connectors -> Row] /\ crLatest \in [Connectors -> Secrets \cup {None}]
  BY DEF CrInv, RowsOK
<1>4. Primary \in Labels /\ Primary # None
  BY PrimaryIsConfigured, NoneIsNone DEF CrInv, KeysOK, Primary
<1>5. \A c \in do :
         /\ c \in Connectors /\ put(c) \in Row
         /\ put(c).secret = rows[c].secret /\ put(c).under = Primary
         /\ put(c).label = Primary /\ put(c).tested = crRow[c].tested
  <2> SUFFICES ASSUME NEW c \in Connectors, rows[c].secret # None
               PROVE  /\ put(c) \in Row
                      /\ put(c).secret = rows[c].secret /\ put(c).under = Primary
                      /\ put(c).label = Primary /\ put(c).tested = crRow[c].tested
    BY DEF NeedsRotation
  <2>1. crRow[c] \in IntegrationConnection /\ rows[c] \in IntegrationConnection
    BY <1>2, <1>3 DEF Row
  <2>2. /\ put(c).secret = rows[c].secret /\ put(c).under = Primary
        /\ put(c).label = Primary /\ put(c).tested = crRow[c].tested
        /\ put(c) \in IntegrationConnection
    BY <1>4, <2>1 DEF IntegrationConnection
  <2> HIDE DEF put, rows
  <2> QED
    BY <1>4, <2>2 DEF Row
<1>6. go => \A c \in Connectors : c \in NeedsRotation(rows) => c \in do
  BY DEF RotationFails
<1> HIDE DEF put, do
<1>7. /\ crRow' \in [Connectors -> Row]
      /\ \A c \in Connectors : IF c \in do THEN crRow'[c] = put(c) ELSE crRow'[c] = crRow[c]
  BY <1>1, <1>3, <1>5
<1>8. /\ RowsOK' /\ ReadsOK' /\ KeysOK' /\ SettledOK' /\ AloneOK'
      /\ StoredStaysReadable'
  <2>1. \A c \in Connectors : crRow'[c].label \in {None, Primary, crRow[c].label}
    BY <1>5, <1>7
  <2>2. \A c \in Connectors :
           \/ /\ crRow'[c].secret = crRow[c].secret /\ crRow'[c].under = crRow[c].under
              /\ crRow'[c].label = crRow[c].label
           \/ /\ UnderPrimary(crRow'[c])
              /\ crRow'[c].secret # None => crRow'[c].label \in {None, crRow'[c].under}
    BY <1>5, <1>7 DEF UnderPrimary
  <2>3. crSettled' \in BOOLEAN
    BY <1>1
  <2>4. go => \A c \in Connectors : UnderPrimary(crRow'[c])
    BY <1>2, <1>5, <1>6, <1>7 DEF UnderPrimary
  <2>5. crSettled' => crSettled \/ \A c \in Connectors : UnderPrimary(crRow'[c])
    <3> HIDE DEF go
    <3> QED
      BY <1>1, <2>4
  <2>6. crLatest' \in [Connectors -> Secrets \cup {None}]
    BY <1>1, <1>3
  <2> QED
    BY <1>1, <1>7, <2>1, <2>2, <2>3, <2>5, <2>6, CrEndStep
<1>9. ~ crOverlap => \A c \in Connectors :
         /\ crRow'[c].secret = crRow[c].secret
         /\ crRow'[c].label = crRow'[c].under
         /\ crRow'[c].tested = crRow[c].tested
  <2> SUFFICES ASSUME ~ crOverlap, NEW c \in Connectors
               PROVE  /\ crRow'[c].secret = crRow[c].secret
                      /\ crRow'[c].label = crRow'[c].under
                      /\ crRow'[c].tested = crRow[c].tested
    OBVIOUS
  <2>1. rows = crRow
    BY <1>1 DEF CrInv, AloneOK, Current
  <2>2. crRow[c].label = crRow[c].under
    BY DEF CrInv, CredentialsAreSound, LabelTellsTheKey
  <2> QED
    BY <1>5, <1>7, <2>1, <2>2
<1>10. CredentialsAreSound'
  BY <1>1, <1>8, <1>9
  DEF CrInv, CredentialsAreSound, StoredIsLatest, LabelTellsTheKey, VerdictIsOfThisCredential,
      CrEnd
<1> QED
  BY <1>8, <1>10 DEF CrInv

\* A key is put in front of the others.
LEMMA AddKeyInv ==
    ASSUME CrInv, NEW l \in Labels, AddKey(l)
    PROVE  CrInv'
<1>1. /\ \A q \in CrRequests : crTxn[q] = CrIdle
      /\ crKeys' = <<l>> \o crKeys /\ crSettled' = FALSE
      /\ crServed < CrMax /\ crServed' = crServed + 1
      /\ UNCHANGED <<crRow, crLatest, crCareful, crTxn, crOverlap>>
  BY DEF AddKey, CrQuiet
<1>2. /\ crKeys' \in Seq(Labels) /\ crKeys' # << >>
      /\ Len(crKeys') = Len(crKeys) + 1 /\ Len(crKeys) \in Nat
      /\ \A i \in 1..Len(crKeys) : crKeys'[i + 1] = crKeys[i]
  <2>1. <<l>> \in Seq(Labels) /\ Len(<<l>>) = 1 /\ crKeys \in Seq(Labels)
    BY DEF CrInv, KeysOK
  <2> QED
    BY <1>1, <2>1, ConcatProperties, LenProperties
<1>3. Configured \subseteq Configured'
  <2> SUFFICES ASSUME NEW i \in 1..Len(crKeys) PROVE crKeys[i] \in Configured'
    BY DEF Configured
  <2>1. i + 1 \in 1..Len(crKeys') /\ crKeys'[i + 1] = crKeys[i]
    BY <1>2
  <2> QED
    BY <2>1 DEF Configured
<1>4. RowsOK' /\ SettledOK'
  BY <1>1 DEF CrInv, RowsOK, SettledOK
<1>5. ReadsOK' /\ AloneOK'
  BY <1>1 DEF CrInv, ReadsOK, ReadOK, AloneOK, Current, CrIdle
<1>6. KeysOK'
  <2>1. crServed' \in 0..CrMax
    BY <1>1, CrAssumption DEF CrInv, KeysOK
  <2> QED
    BY <1>1, <1>2, <2>1 DEF CrInv, KeysOK
<1>7. CredentialsAreSound'
  BY <1>1, <1>3
  DEF CrInv, CredentialsAreSound, StoredStaysReadable, StoredIsLatest, LabelTellsTheKey,
      VerdictIsOfThisCredential, DecryptCredential
<1> QED
  BY <1>4, <1>5, <1>6, <1>7 DEF CrInv

\* The oldest key is dropped.
LEMMA DropKeyInv ==
    ASSUME CrInv, DropKey
    PROVE  CrInv'
<1>1. /\ \A q \in CrRequests : crTxn[q] = CrIdle
      /\ Len(crKeys) > 1 /\ crKeys' = SubSeq(crKeys, 1, Len(crKeys) - 1)
      /\ crCareful' = (crCareful /\ crSettled)
      /\ crServed < CrMax /\ crServed' = crServed + 1
      /\ UNCHANGED <<crRow, crLatest, crSettled, crTxn, crOverlap>>
  BY DEF DropKey, CrQuiet
<1>2. /\ crKeys' \in Seq(Labels) /\ crKeys' # << >> /\ Len(crKeys') >= 1
      /\ crKeys'[1] = crKeys[1]
  <2>1. crKeys \in Seq(Labels) /\ Len(crKeys) \in Nat
    BY LenProperties DEF CrInv, KeysOK
  <2>2. /\ crKeys' \in Seq(Labels) /\ Len(crKeys') = Len(crKeys) - 1
        /\ \A i \in 1..(Len(crKeys) - 1) : crKeys'[i] = crKeys[i]
    BY <1>1, <2>1, SubSeqProperties
  <2>3. Len(crKeys') >= 1 /\ 1 \in 1..(Len(crKeys) - 1)
    BY <1>1, <2>1, <2>2
  <2> QED
    BY <2>2, <2>3, EmptySeq
<1>3. Primary' = Primary /\ Primary \in Configured'
  <2>1. Head(crKeys') = crKeys'[1] /\ Head(crKeys') \in {crKeys'[i] : i \in 1..Len(crKeys')}
    BY <1>2, PrimaryIsConfigured
  <2>2. Head(crKeys) = crKeys[1]
    BY PrimaryIsConfigured DEF CrInv, KeysOK
  <2> QED
    BY <1>2, <2>1, <2>2 DEF Primary, Configured
<1>4. RowsOK' /\ SettledOK'
  BY <1>1, <1>3 DEF CrInv, RowsOK, SettledOK, UnderPrimary
<1>5. ReadsOK' /\ AloneOK'
  BY <1>1 DEF CrInv, ReadsOK, ReadOK, AloneOK, Current, CrIdle
<1>6. KeysOK'
  <2>1. crServed' \in 0..CrMax
    BY <1>1, CrAssumption DEF CrInv, KeysOK
  <2>2. crCareful' \in BOOLEAN
    BY <1>1
  <2> QED
    BY <1>1, <1>2, <2>1, <2>2 DEF CrInv, KeysOK
<1>7. StoredStaysReadable'
  <2> SUFFICES ASSUME crCareful', NEW c \in Connectors, crRow[c].secret # None
               PROVE  crRow[c].under \in Configured'
    BY <1>1 DEF StoredStaysReadable, DecryptCredential
  <2>1. UnderPrimary(crRow[c])
    BY <1>1 DEF CrInv, SettledOK
  <2> QED
    BY <1>3, <2>1 DEF UnderPrimary
<1>8. CredentialsAreSound'
  BY <1>1, <1>7
  DEF CrInv, CredentialsAreSound, StoredIsLatest, LabelTellsTheKey, VerdictIsOfThisCredential
<1> QED
  BY <1>4, <1>5, <1>6, <1>8 DEF CrInv

-----------------------------------------------------------------------------
(* The specification.                                                      *)

\* No step breaks the invariant.
LEMMA CrNextInv == CrInv /\ [CrNext]_crVars => CrInv'
<1> SUFFICES ASSUME CrInv, [CrNext]_crVars PROVE CrInv'
  OBVIOUS
<1>1. CASE UNCHANGED crVars
  <2>1. UNCHANGED <<crRow, crKeys, crLatest, crSettled, crCareful, crTxn, crServed, crOverlap>>
    BY <1>1 DEF crVars
  <2>2. RowsOK' /\ KeysOK' /\ SettledOK' /\ CredentialsAreSound'
    BY <2>1, RowsAlone DEF CrInv, KeysOK
  <2>3. ReadsOK' /\ AloneOK'
    BY <2>1 DEF CrInv, ReadsOK, ReadOK, Written, NeedsRotation, UnderPrimary, Primary,
                AloneOK, Current
  <2> QED
    BY <2>2, <2>3 DEF CrInv
<1>2. ASSUME NEW q \in CrRequests,
             \/ \E c \in Connectors :
                   \/ \E s \in Secrets : SetCredentialBegin(q, c, s)
                   \/ DeleteCredentialBegin(q, c) \/ TestConnectionBegin(q, c)
             \/ RotateBegin(q)
      PROVE  CrInv'
  BY <1>2, CrBeginInv
<1>3. ASSUME NEW q \in CrRequests, SetOrDelete(q) \/ TestConnection(q) PROVE CrInv'
  BY <1>3, SetOrDeleteInv, TestInv
<1>4. ASSUME NEW q \in CrRequests, NEW dry \in BOOLEAN, RotateCredentialKeys(q, dry)
      PROVE  CrInv'
  BY <1>4, RotateInv
<1>5. ASSUME NEW l \in Labels, AddKey(l) PROVE CrInv'
  BY <1>5, AddKeyInv
<1>6. CASE DropKey
  BY <1>6, DropKeyInv
<1> QED
  BY <1>1, <1>2, <1>3, <1>4, <1>5, <1>6 DEF CrNext

\* Whatever the requests, rotations and keys, and their order, rows and requests
\* in flight agree.
THEOREM CrInvariant == CrSpec => []CrInv
BY CrInitInv, CrNextInv, PTL DEF CrSpec

\* Every column, key and history keeps its type (models.py, crypto.py).
THEOREM CrTypeCorrect == CrSpec => []CrTypeOK
<1>1. CrInv => CrTypeOK
  BY DEF CrInv, CrTypeOK, RowsOK, ReadsOK, ReadOK, KeysOK, Row
<1> QED
  BY <1>1, CrInvariant, PTL

\* A stored credential can be read as long as no key was dropped before a
\* rotation succeeded under the keys of the day, whatever overlapped the
\* rotation; without overlap it is the one last set, under the key its label
\* names, and its verdict is its own (integrations.py, crypto.py,
\* credential_rotation.py).
THEOREM CredentialsStaySound == CrSpec => []CredentialsAreSound
<1>1. CrInv => CredentialsAreSound
  BY DEF CrInv
<1> QED
  BY <1>1, CrInvariant, PTL

-----------------------------------------------------------------------------
(* Accounts.                                                               *)

\* A user row as it can be: nothing here ever writes the Entra id.
Held == {a \in User : /\ a.fails < Threshold /\ a.password \in Passwords \cup {0}
                      /\ ~ a.linked}

Flight == [op : Operations \ {"idle"}, arg : Nat, account : Held, sessions : SUBSET UserSession]

\* The types of everything, what requests in flight have read included.
AcTypes ==
    /\ account \in Held
    /\ history \in PasswordHistory /\ Len(history) <= Generations
    /\ sessions \in SUBSET UserSession /\ IsFiniteSet(sessions)
    /\ codes \in SUBSET MfaBackupCode
    /\ cookie \in [Browsers -> Phases]
    /\ txn \in [Browsers -> {Idle} \cup Flight]
    /\ \A b \in Browsers :
          /\ txn[b].op \in {"set", "change"} => txn[b].arg \in Passwords
          /\ txn[b] # Idle => IsFiniteSet(txn[b].sessions)
    /\ issued \in Nat /\ opened \in Nat /\ requests \in Nat
    /\ enforced \in BOOLEAN /\ overlap \in BOOLEAN

\* Where requests do not overlap, the one in flight finds what it has read.
AcAlone ==
    ~ overlap =>
        \A b \in Browsers : txn[b] # Idle =>
            /\ \A c \in Browsers : c # b => txn[c] = Idle
            /\ txn[b].account = account /\ txn[b].sessions = sessions
            /\ txn[b].op \in {"set", "change"} => ~ Reused(history, txn[b].arg)
            /\ txn[b].op \in {"verify", "reenroll"} => account.active
            /\ txn[b].op = "verify" => account.enrolled

\* Where requests do not overlap, the account agrees with itself: the history is
\* there as long as a password is, and backup codes only with a second factor.
AcOwner ==
    ~ overlap =>
        /\ IsInjective(history)
        /\ account.password # 0 => history # <<>> /\ Last(history) = account.password
        /\ account.password = 0 => history = <<>>
        /\ codes # {} => account.enrolled
        /\ account.enrolled <=> account.secret # 0
        /\ account.needsReset => account.lockouts >= ResetCount
        /\ account.enrolled /\ ~ account.active => sessions = {}

\* What a sign-in under way will revoke.
Revokes(b) == Excess(txn[b].sessions)
InFlight == {b \in Browsers : txn[b] # Idle}
SignIns == IF overlap THEN Cardinality(Browsers) ELSE 1

\* Whichever of the sign-ins under way commit, there is room for their sessions.
AcRoom ==
    Cap > 0 => \A F \in SUBSET InFlight :
        Cardinality(sessions \ UNION {Revokes(b) : b \in F}) + Cardinality(F)
            <= Cap + SignIns - 1

\* Before the first invitation there is nothing.
AcNobody ==
    account.kind = "none" =>
        /\ account.password = 0 /\ account.invite = "none"
        /\ codes = {} /\ sessions = {}
        /\ \A b \in Browsers : txn[b] = Idle /\ cookie[b] = "none"

AcCore == AcTypes /\ AcAlone /\ AcOwner /\ AcRoom
AcInv == AcTypes /\ AcAlone /\ AcOwner /\ AcRoom /\ AcNobody

-----------------------------------------------------------------------------

\* The oldest sessions of a set.

\* Leaving out the n oldest of a set leaves n fewer.
LEMMA WithoutOldest ==
    ASSUME NEW S \in SUBSET Int, IsFiniteSet(S), NEW n \in Nat, n <= Cardinality(S)
    PROVE  Cardinality(S \ Oldest(S, n)) + n <= Cardinality(S)
<1> DEFINE U == S \ Oldest(S, n)
<1>1. IsFiniteSet(U) /\ Cardinality(U) \in Nat /\ Cardinality(S) \in Nat
  BY FS_Subset, FS_CardinalityType
<1>2. CASE U = {}
  BY <1>1, <1>2, FS_EmptySet
<1>3. CASE U # {}
  <2>1. PICK m \in U : \A x \in U : m =< x
    <3>1. U \in SUBSET Int
      OBVIOUS
    <3> HIDE DEF U
    <3> QED
      BY <1>1, <1>3, <3>1, LeastExists
  <2> DEFINE L == {y \in S : y < m}
  <2>2. IsFiniteSet(L) /\ Cardinality(L) \in Nat
    BY FS_Subset, FS_CardinalityType
  <2>3. ~ (Cardinality(L) < n)
    BY DEF Oldest
  <2>4. Cardinality(L) >= n
    BY <2>2, <2>3
  <2>5. L \cap U = {}
    <3>1. ASSUME NEW x \in L, x \in U PROVE FALSE
      <4>1. x \in Int /\ m \in Int /\ x < m /\ m =< x
        BY <2>1, <3>1
      <4> QED
        BY <4>1
    <3> QED
      BY <3>1
  <2>6. IsFiniteSet(L \cup U) /\ Cardinality(L \cup U) = Cardinality(L) + Cardinality(U)
    <3>1. /\ IsFiniteSet(L \cup U)
          /\ Cardinality(L \cup U) = Cardinality(L) + Cardinality(U) - Cardinality(L \cap U)
      <4> HIDE DEF L, U
      <4> QED
        BY <1>1, <2>2, FS_Union
    <3>2. Cardinality(L \cap U) = 0
      BY <2>5, FS_EmptySet
    <3> HIDE DEF L, U
    <3> QED
      BY <1>1, <2>2, <3>1, <3>2
  <2>7. L \cup U \subseteq S
    OBVIOUS
  <2>8. Cardinality(L \cup U) <= Cardinality(S)
    <3> HIDE DEF L, U
    <3> QED
      BY <2>7, FS_Subset
  <2> HIDE DEF L, U
  <2>9. Cardinality(U) + n <= Cardinality(S)
    BY <1>1, <2>2, <2>4, <2>6, <2>8
  <2> QED
    BY <2>9 DEF U
<1> QED
  BY <1>2, <1>3

\* A sign-in that revokes what it should of what it has read leaves fewer
\* sessions than the cap.
LEMMA ExcessMakesRoom ==
    ASSUME NEW S \in SUBSET UserSession, IsFiniteSet(S), Cap > 0
    PROVE  Cardinality(S \ Excess(S)) <= Cap - 1
<1> DEFINE n == Cardinality(S) + 1 - Cap
<1>1. Cardinality(S) \in Nat /\ Cap \in Nat /\ S \in SUBSET Int
  BY FS_CardinalityType, AccountsAssumption DEF UserSession
<1>2. Excess(S) = Oldest(S, n)
  BY DEF Excess
<1>3. CASE n \in Nat
  <2>1. n <= Cardinality(S)
    BY <1>1
  <2> HIDE DEF n
  <2>2. Cardinality(S \ Oldest(S, n)) + n <= Cardinality(S)
    BY <1>1, <1>3, <2>1, WithoutOldest
  <2>3. Cardinality(S \ Oldest(S, n)) \in Nat
    <3>1. IsFiniteSet(S \ Oldest(S, n))
      BY FS_Subset
    <3> QED
      BY <3>1, FS_CardinalityType
  <2> QED
    BY <1>1, <1>2, <2>2, <2>3 DEF n
<1>4. CASE n \notin Nat
  <2>1. Cardinality(S) <= Cap - 1
    BY <1>1, <1>4
  <2>2. IsFiniteSet(S \ Excess(S)) /\ Cardinality(S \ Excess(S)) <= Cardinality(S)
        /\ Cardinality(S \ Excess(S)) \in Nat
    BY FS_Subset, FS_CardinalityType
  <2> QED
    BY <1>1, <2>1, <2>2
<1> QED
  BY <1>3, <1>4

-----------------------------------------------------------------------------

\* The password history.

\* The pruned history: the last of the old ones, then the new password.
LEMMA RecordedIs ==
    ASSUME history \in PasswordHistory, Len(history) <= Generations, NEW p \in Passwords
    PROVE  /\ Recorded(p) \in PasswordHistory
           /\ Len(Recorded(p)) \in 1..Generations
           /\ Recorded(p)[Len(Recorded(p))] = p
           /\ \E k \in {0, 1} :
                 /\ Len(Recorded(p)) = Len(history) + 1 - k
                 /\ \A i \in 1..(Len(Recorded(p)) - 1) :
                       i + k \in 1..Len(history) /\ Recorded(p)[i] = history[i + k]
<1> DEFINE all == Append(history, p)
           g == Len(all) - Generations
<1>1. /\ Generations \in Nat /\ Generations # 0 /\ Len(history) \in Nat
      /\ all \in Seq(Passwords) /\ Len(all) = Len(history) + 1
      /\ \A i \in 1..Len(history) : all[i] = history[i]
      /\ all[Len(history) + 1] = p
  BY AccountsAssumption, AppendProperties DEF PasswordHistory
<1>2. PICK k \in {0, 1} : Max({0, g}) = k /\ k = (IF g = 1 THEN 1 ELSE 0)
  <2>1. g \in Int /\ g <= 1
    BY <1>1
  <2>2. CASE g = 1
    <3>1. {0, g} \in SUBSET Int /\ {0, g} # {} /\ IsFiniteSet({0, g})
      <4>1. IsFiniteSet({0}) /\ IsFiniteSet({0} \cup {g}) /\ {0} \cup {g} = {0, g}
        BY FS_Singleton, FS_AddElement
      <4> QED
        BY <2>1, <4>1
    <3>2. \E x \in {0, g} : \A y \in {0, g} : x >= y
      BY <2>2
    <3>3. Max({0, g}) \in {0, g} /\ Max({0, g}) >= g
      BY <3>2 DEF Max
    <3> QED
      BY <2>2, <3>3
  <2>3. CASE g # 1
    <3>1. g <= 0
      BY <2>1, <2>3
    <3>2. \E x \in {0, g} : \A y \in {0, g} : x >= y
      BY <2>1, <3>1
    <3>3. Max({0, g}) \in {0, g} /\ Max({0, g}) >= 0
      BY <3>2 DEF Max
    <3>4. Max({0, g}) = 0
      BY <2>1, <3>1, <3>3
    <3> QED
      BY <2>3, <3>4
  <2> QED
    BY <2>2, <2>3
<1>3. Recorded(p) = SubSeq(all, 1 + k, Len(all))
  BY <1>2 DEF Recorded
<1>4. /\ Len(all) - k <= Generations /\ 1 <= Len(all) - k
  BY <1>1, <1>2
<1> HIDE DEF all, g
<1>5. /\ Recorded(p) \in Seq(Passwords)
      /\ Len(Recorded(p)) = Len(all) - k
      /\ \A i \in 1..(Len(all) - k) : Recorded(p)[i] = all[i + k]
  <2>1. 1 + k \in 1..(Len(all) + 1) /\ Len(all) \in (1 + k - 1)..Len(all)
    BY <1>1, <1>4
  <2>2. Len(SubSeq(all, 1 + k, Len(all))) = Len(all) - (1 + k) + 1
    BY <1>1, <2>1, SubSeqProperties
  <2>3. \A i \in 1..(Len(all) - (1 + k) + 1) : SubSeq(all, 1 + k, Len(all))[i] = all[1 + k + i - 1]
    BY <1>1, <2>1, SubSeqProperties
  <2>4. SubSeq(all, 1 + k, Len(all)) \in Seq(Passwords)
    BY <1>1, <2>1, SubSeqProperties
  <2> QED
    BY <1>1, <1>3, <2>2, <2>3, <2>4
<1>6. \A i \in 1..(Len(Recorded(p)) - 1) :
          i + k \in 1..Len(history) /\ Recorded(p)[i] = history[i + k]
  BY <1>1, <1>4, <1>5
<1>7. Recorded(p)[Len(Recorded(p))] = p
  BY <1>1, <1>4, <1>5
<1> QED
  BY <1>1, <1>4, <1>5, <1>6, <1>7 DEF PasswordHistory

\* A password that is not in the history keeps the history's members distinct.
LEMMA RecordedIsFresh ==
    ASSUME history \in PasswordHistory, Len(history) <= Generations, NEW p \in Passwords,
           IsInjective(history), ~ Reused(history, p)
    PROVE  IsInjective(Recorded(p)) /\ Recorded(p) # <<>> /\ Last(Recorded(p)) = p
<1> DEFINE n == Len(Recorded(p))
<1>1. /\ Recorded(p) \in PasswordHistory /\ n \in Nat /\ n >= 1 /\ Recorded(p)[n] = p
      /\ DOMAIN Recorded(p) = 1..n
  BY RecordedIs, AccountsAssumption DEF PasswordHistory
<1>2. PICK k \in {0, 1} : \A i \in 1..(n - 1) :
          i + k \in 1..Len(history) /\ Recorded(p)[i] = history[i + k]
  BY RecordedIs
<1>3. \A i \in 1..Len(history) : history[i] # p
  BY DEF Reused, Range, PasswordHistory
<1>4. \A i, j \in 1..Len(history) : history[i] = history[j] => i = j
  BY DEF IsInjective, PasswordHistory
<1> HIDE DEF n
<1>5. ASSUME NEW i \in 1..n, NEW j \in 1..n, Recorded(p)[i] = Recorded(p)[j] PROVE i = j
  <2>4. ASSUME NEW x \in 1..(n - 1) PROVE Recorded(p)[x] # p
    <3>1. x + k \in 1..Len(history) /\ Recorded(p)[x] = history[x + k]
      BY <1>2
    <3> QED
      BY <1>3, <3>1
  <2>1. CASE i = n /\ j # n
    <3>1. j \in 1..(n - 1)
      BY <1>1, <2>1
    <3> QED
      BY <1>1, <1>5, <2>1, <2>4, <3>1
  <2>2. CASE i # n /\ j = n
    <3>1. i \in 1..(n - 1)
      BY <1>1, <2>2
    <3> QED
      BY <1>1, <1>5, <2>2, <2>4, <3>1
  <2>3. CASE i # n /\ j # n
    <3>1. i \in 1..(n - 1) /\ j \in 1..(n - 1)
      BY <1>1, <2>3
    <3>2. i + k = j + k
      BY <1>2, <1>4, <1>5, <3>1
    <3> QED
      BY <1>2, <3>2
  <2> QED
    BY <2>1, <2>2, <2>3
<1>6. IsInjective(Recorded(p))
  BY <1>1, <1>5 DEF IsInjective
<1> QED
  BY <1>1, <1>6 DEF Last, n, PasswordHistory

-----------------------------------------------------------------------------

\* The user row.

Fields == {"kind", "active", "gone", "linked", "password", "invite", "secret", "enrolled",
           "fails", "lockouts", "locked", "needsReset"}

\* A row, column by column.
LEMMA HeldFields ==
    ASSUME NEW a \in Held
    PROVE  /\ DOMAIN a = Fields
           /\ a = [f \in Fields |-> a[f]]
           /\ a.kind \in {"none", "local", "sso"} /\ a.active \in BOOLEAN /\ a.gone \in BOOLEAN
           /\ a.linked \in BOOLEAN /\ ~ a.linked /\ a.password \in Nat
           /\ a.password \in Passwords \cup {0}
           /\ a.invite \in {"none", "valid", "expired"} /\ a.secret \in Nat
           /\ a.enrolled \in BOOLEAN /\ a.fails \in Nat /\ a.fails < Threshold
           /\ a.lockouts \in Nat /\ a.locked \in BOOLEAN /\ a.needsReset \in BOOLEAN
BY DEF Held, User, Fields

\* And back.
LEMMA FieldsHeld ==
    ASSUME NEW a, a = [f \in Fields |-> a[f]],
           a.kind \in {"none", "local", "sso"}, a.active \in BOOLEAN, a.gone \in BOOLEAN,
           a.linked \in BOOLEAN, ~ a.linked, a.password \in Nat,
           a.password \in Passwords \cup {0},
           a.invite \in {"none", "valid", "expired"}, a.secret \in Nat,
           a.enrolled \in BOOLEAN, a.fails \in Nat, a.fails < Threshold,
           a.lockouts \in Nat, a.locked \in BOOLEAN, a.needsReset \in BOOLEAN
    PROVE  a \in Held
<1>1. a = [kind |-> a.kind, active |-> a.active, gone |-> a.gone, linked |-> a.linked,
           password |-> a.password, invite |-> a.invite, secret |-> a.secret,
           enrolled |-> a.enrolled, fails |-> a.fails, lockouts |-> a.lockouts,
           locked |-> a.locked, needsReset |-> a.needsReset]
  BY DEF Fields
<1>2. a \in User
  BY <1>1 DEF User
<1> QED
  BY <1>2 DEF Held

\* Of two rows, an update takes each column from one: the row it makes is one.
LEMMA WriteHeld ==
    ASSUME account \in Held, NEW new \in Held, NEW read,
           account' = [f \in DOMAIN account |-> IF new[f] # read[f] THEN new[f] ELSE account[f]]
    PROVE  account' \in Held
<1>1. DOMAIN account = Fields
  BY HeldFields
<1>2. \A f \in Fields : account'[f] = new[f] \/ account'[f] = account[f]
  BY <1>1
<1>3. account' = [f \in Fields |-> account'[f]]
  BY <1>1
<1>4. \A f \in {"kind", "active", "gone", "linked", "password", "invite", "secret", "enrolled",
                 "fails", "lockouts", "locked", "needsReset"} :
          account'[f] = new[f] \/ account'[f] = account[f]
  BY <1>2 DEF Fields
<1>5. /\ account'.kind \in {"none", "local", "sso"} /\ account'.active \in BOOLEAN
      /\ account'.gone \in BOOLEAN /\ account'.linked \in BOOLEAN /\ ~ account'.linked
      /\ account'.password \in Nat /\ account'.password \in Passwords \cup {0}
      /\ account'.invite \in {"none", "valid", "expired"}
  BY <1>4, HeldFields
<1>6. /\ account'.secret \in Nat /\ account'.enrolled \in BOOLEAN /\ account'.fails \in Nat
      /\ account'.fails < Threshold /\ account'.lockouts \in Nat
      /\ account'.locked \in BOOLEAN /\ account'.needsReset \in BOOLEAN
  BY <1>4, HeldFields
<1> QED
  BY <1>3, <1>5, <1>6, FieldsHeld

\* Where nobody has written since, an update writes the row it computed.
LEMMA WriteAlone ==
    ASSUME account \in Held, NEW new \in Held, NEW read, read = account,
           account' = [f \in DOMAIN account |-> IF new[f] # read[f] THEN new[f] ELSE account[f]]
    PROVE  account' = new
<1>1. DOMAIN account = Fields /\ new = [f \in Fields |-> new[f]]
  BY HeldFields
<1>2. \A f \in Fields : (IF new[f] # read[f] THEN new[f] ELSE account[f]) = new[f]
  OBVIOUS
<1> QED
  BY <1>1, <1>2

-----------------------------------------------------------------------------

\* What the helpers of auth.py and the requests write is a row again.
LEMMA NewRows ==
    ASSUME NEW a \in Held
    PROVE  /\ FailedLogin(a) \in Held
           /\ ClearedLogin(a) \in Held
           /\ \A p \in Passwords : /\ [a EXCEPT !.password = p, !.invite = "none"] \in Held
                                    /\ [a EXCEPT !.password = p] \in Held
           /\ \A n \in Nat : /\ [a EXCEPT !.secret = n, !.enrolled = TRUE, !.active = TRUE] \in Held
                             /\ [a EXCEPT !.secret = n, !.enrolled = TRUE] \in Held
           /\ \A x \in BOOLEAN : [a EXCEPT !.active = x] \in Held
           /\ \A x \in {"none", "valid", "expired"} : [a EXCEPT !.invite = x] \in Held
           /\ [a EXCEPT !.locked = FALSE] \in Held
           /\ [a EXCEPT !.secret = 0, !.enrolled = FALSE, !.active = FALSE,
                        !.needsReset = FALSE] \in Held
           /\ [a EXCEPT !.linked = FALSE, !.secret = 0, !.enrolled = FALSE,
                        !.password = 0, !.gone = TRUE] \in Held
           /\ [a EXCEPT !.locked = FALSE, !.fails = 0, !.lockouts = 0, !.needsReset = FALSE]
                   \in Held
<1> USE AccountsAssumption, HeldFields
<1>1. FailedLogin(a) \in Held
  <2> DEFINE locks == a.fails + 1 >= Threshold
             n == [a EXCEPT !.fails = IF locks THEN 0 ELSE a.fails + 1,
                            !.lockouts = IF locks THEN a.lockouts + 1 ELSE a.lockouts,
                            !.locked = locks,
                            !.needsReset = a.needsReset \/ (locks /\ a.lockouts + 1 >= ResetCount)]
  <2>1. FailedLogin(a) = n
    BY DEF FailedLogin
  <2>2. n.fails \in Nat /\ n.fails < Threshold
    <3>1. n.fails = IF locks THEN 0 ELSE a.fails + 1
      OBVIOUS
    <3> QED
      BY <3>1
  <2>3. n.lockouts \in Nat
    OBVIOUS
  <2>4. n.locked \in BOOLEAN /\ n.needsReset \in BOOLEAN
    OBVIOUS
  <2>5. n = [f \in Fields |-> n[f]]
    OBVIOUS
  <2>6. /\ n.kind = a.kind /\ n.active = a.active /\ n.gone = a.gone /\ n.linked = a.linked
        /\ n.password = a.password /\ n.invite = a.invite /\ n.secret = a.secret
        /\ n.enrolled = a.enrolled
    OBVIOUS
  <2> HIDE DEF n
  <2>7. n \in Held
    BY <2>2, <2>3, <2>4, <2>5, <2>6, FieldsHeld
  <2> QED
    BY <2>1, <2>7
<1>0. Threshold \in Nat /\ 0 < Threshold
  OBVIOUS
<1>2. ClearedLogin(a) \in Held
  BY <1>0 DEF ClearedLogin, Held, User
<1>3. \A p \in Passwords : [a EXCEPT !.password = p, !.invite = "none"] \in Held
  BY DEF Held, User
<1>4. \A p \in Passwords : [a EXCEPT !.password = p] \in Held
  BY DEF Held, User
<1>5. \A n \in Nat : [a EXCEPT !.secret = n, !.enrolled = TRUE, !.active = TRUE] \in Held
  BY DEF Held, User
<1>6. \A n \in Nat : [a EXCEPT !.secret = n, !.enrolled = TRUE] \in Held
  BY DEF Held, User
<1>7. \A x \in BOOLEAN : [a EXCEPT !.active = x] \in Held
  BY DEF Held, User
<1>8. \A x \in {"none", "valid", "expired"} : [a EXCEPT !.invite = x] \in Held
  BY DEF Held, User
<1>9. [a EXCEPT !.locked = FALSE] \in Held
  BY DEF Held, User
<1>10. [a EXCEPT !.secret = 0, !.enrolled = FALSE, !.active = FALSE, !.needsReset = FALSE] \in Held
  BY DEF Held, User
<1>11. [a EXCEPT !.linked = FALSE, !.secret = 0, !.enrolled = FALSE, !.password = 0,
                 !.gone = TRUE] \in Held
  BY DEF Held, User
<1>12. [a EXCEPT !.locked = FALSE, !.fails = 0, !.lockouts = 0, !.needsReset = FALSE] \in Held
  BY <1>0 DEF Held, User
<1> QED
  BY <1>1, <1>2, <1>3, <1>4, <1>5, <1>6, <1>7, <1>8, <1>9, <1>10, <1>11, <1>12

\* An account just invited is one.
LEMMA InvitedHeld ==
    ASSUME NEW kind \in {"none", "local", "sso"}
    PROVE  Invited(kind) \in Held
BY AccountsAssumption DEF Invited, Held, User

\* An update of a request in flight.
LEMMA WriteStep ==
    ASSUME AcTypes, AcAlone, NEW b \in Browsers, txn[b] # Idle, NEW new \in Held, Write(b, new)
    PROVE  /\ account' \in Held
           /\ ~ overlap => account' = new /\ txn[b].account = account
<1>1. account' = [f \in DOMAIN account |->
                     IF new[f] # txn[b].account[f] THEN new[f] ELSE account[f]]
  BY DEF Write
<1>2. account \in Held
  BY DEF AcTypes
<1>3. account' \in Held
  BY <1>1, <1>2, WriteHeld
<1>4. ~ overlap => txn[b].account = account
  BY DEF AcAlone
<1>5. ~ overlap => account' = new
  BY <1>1, <1>2, <1>4, WriteAlone
<1> QED
  BY <1>3, <1>4, <1>5

-----------------------------------------------------------------------------

\* Room for the sessions of the sign-ins under way.

\* Sessions go and requests end: the room stays.
LEMMA RoomStays ==
    ASSUME AcTypes, AcRoom, UNCHANGED overlap, sessions' \subseteq sessions,
           \A b \in Browsers : txn'[b] # Idle => txn'[b] = txn[b]
    PROVE  AcRoom'
<1> SUFFICES ASSUME Cap > 0, NEW F \in SUBSET InFlight'
             PROVE  Cardinality(sessions' \ UNION {Revokes(b)' : b \in F}) + Cardinality(F)
                        <= Cap + SignIns - 1
  BY DEF AcRoom, SignIns
<1>1. F \in SUBSET InFlight /\ \A b \in F : Revokes(b)' = Revokes(b)
  BY DEF InFlight, Revokes
<1>2. UNION {Revokes(b)' : b \in F} = UNION {Revokes(b) : b \in F}
  BY <1>1
<1> DEFINE R == UNION {Revokes(b) : b \in F}
<1>3. Cardinality(sessions \ R) + Cardinality(F) <= Cap + SignIns - 1
  BY <1>1 DEF AcRoom
<1> HIDE DEF R
<1>4. IsFiniteSet(sessions \ R) /\ sessions' \ R \subseteq sessions \ R
  BY FS_Subset DEF AcTypes
<1>5. /\ Cardinality(sessions' \ R) <= Cardinality(sessions \ R)
      /\ Cardinality(sessions' \ R) \in Nat /\ Cardinality(sessions \ R) \in Nat
  BY <1>4, FS_Subset, FS_CardinalityType
<1>6. IsFiniteSet(F) /\ Cardinality(F) \in Nat
  BY AccountsAssumption, FS_Subset, FS_CardinalityType DEF InFlight
<1>7. SignIns \in Nat /\ Cap \in Nat
  BY AccountsAssumption, FS_CardinalityType DEF SignIns
<1>8. Cardinality(sessions' \ R) + Cardinality(F) <= Cap + SignIns - 1
  BY <1>3, <1>5, <1>6, <1>7
<1> QED
  BY <1>2, <1>8 DEF R

\* A request that begins has read the sessions that are there.
LEMMA RoomAtBegin ==
    ASSUME AcTypes, AcRoom, NEW b \in Browsers, NEW t, t.sessions = sessions,
           overlap \/ \A c \in Browsers : txn[c] = Idle,
           UNCHANGED <<overlap, sessions>>, txn' = [txn EXCEPT ![b] = t]
    PROVE  AcRoom'
<1> SUFFICES ASSUME Cap > 0, NEW F \in SUBSET InFlight'
             PROVE  Cardinality(sessions \ UNION {Revokes(c)' : c \in F}) + Cardinality(F)
                        <= Cap + SignIns - 1
  BY DEF AcRoom, SignIns
<1>0. txn'[b] = t /\ \A c \in Browsers : c # b => txn'[c] = txn[c]
  BY DEF AcTypes
<1>1. /\ IsFiniteSet(F) /\ Cardinality(F) \in Nat
      /\ Cardinality(F) <= SignIns
  <2>1. F \subseteq Browsers
    BY DEF InFlight
  <2>2. /\ IsFiniteSet(F) /\ Cardinality(F) \in Nat
        /\ Cardinality(F) <= Cardinality(Browsers)
    BY <2>1, AccountsAssumption, FS_Subset, FS_CardinalityType
  <2>3. CASE overlap
    BY <2>2, <2>3 DEF SignIns
  <2>4. CASE ~ overlap
    <3>1. \A c, d \in F : c = d
      <4>1. \A c \in F : c \in Browsers /\ txn'[c] # Idle
        BY DEF InFlight
      <4> QED
        BY <1>0, <2>4, <4>1
    <3> QED
      BY <2>2, <2>4, <3>1, AtMostOne DEF SignIns
  <2> QED
    BY <2>2, <2>3, <2>4
<1>2. SignIns \in Nat /\ Cap \in Nat
  BY AccountsAssumption, FS_CardinalityType DEF SignIns
<1> DEFINE R == UNION {Revokes(c)' : c \in F}
<1>3. CASE b \in F
  <2>1. Revokes(b)' = Excess(sessions)
    BY <1>0 DEF Revokes, Excess
  <2>2. Excess(sessions) \subseteq R
    BY <1>3, <2>1
  <2> HIDE DEF R
  <2>3. /\ IsFiniteSet(sessions \ Excess(sessions))
        /\ sessions \ R \subseteq sessions \ Excess(sessions)
        /\ sessions \in SUBSET UserSession /\ IsFiniteSet(sessions)
    BY <2>2, FS_Subset DEF AcTypes
  <2>4. Cardinality(sessions \ Excess(sessions)) <= Cap - 1
    BY <2>3, ExcessMakesRoom
  <2>5. /\ Cardinality(sessions \ R) <= Cardinality(sessions \ Excess(sessions))
        /\ Cardinality(sessions \ R) \in Nat
        /\ Cardinality(sessions \ Excess(sessions)) \in Nat
    BY <2>3, FS_Subset, FS_CardinalityType
  <2>6. Cardinality(sessions \ R) + Cardinality(F) <= Cap + SignIns - 1
    BY <1>1, <1>2, <2>4, <2>5
  <2> QED
    BY <2>6 DEF R
<1>4. CASE b \notin F
  <2>1. F \in SUBSET InFlight /\ \A c \in F : Revokes(c)' = Revokes(c)
    BY <1>0, <1>4 DEF InFlight, Revokes
  <2>2. UNION {Revokes(c)' : c \in F} = UNION {Revokes(c) : c \in F}
    BY <2>1
  <2> QED
    BY <2>1, <2>2 DEF AcRoom
<1> QED
  BY <1>3, <1>4

\* A sign-in commits: its session takes the place kept for it.
LEMMA RoomTaken ==
    ASSUME AcTypes, AcRoom, NEW b \in Browsers, txn[b] # Idle, UNCHANGED overlap,
           sessions' = (sessions \ Excess(txn[b].sessions)) \cup {opened + 1},
           txn' = [txn EXCEPT ![b] = Idle]
    PROVE  AcRoom'
<1> SUFFICES ASSUME Cap > 0, NEW F \in SUBSET InFlight'
             PROVE  Cardinality(sessions' \ UNION {Revokes(c)' : c \in F}) + Cardinality(F)
                        <= Cap + SignIns - 1
  BY DEF AcRoom, SignIns
<1>0. txn'[b] = Idle /\ \A c \in Browsers : c # b => txn'[c] = txn[c]
  BY DEF AcTypes
<1>1. b \notin F /\ F \cup {b} \in SUBSET InFlight /\ \A c \in F : Revokes(c)' = Revokes(c)
  BY <1>0 DEF InFlight, Revokes
<1> DEFINE R == UNION {Revokes(c) : c \in F}
           S == sessions \ (R \cup Revokes(b))
<1>2. Cardinality(S) + Cardinality(F \cup {b}) <= Cap + SignIns - 1
  <2>1. UNION {Revokes(c) : c \in F \cup {b}} = R \cup Revokes(b)
    OBVIOUS
  <2> QED
    BY <1>1, <2>1 DEF AcRoom
<1>3. UNION {Revokes(c)' : c \in F} = R
  BY <1>1
<1> HIDE DEF R
<1>4. sessions' \ R \subseteq S \cup {opened + 1}
  BY DEF Revokes
<1>5. IsFiniteSet(S) /\ Cardinality(S) \in Nat
  BY FS_Subset, FS_CardinalityType DEF AcTypes
<1>6. /\ IsFiniteSet(F) /\ Cardinality(F) \in Nat
      /\ Cardinality(F \cup {b}) = Cardinality(F) + 1
  <2>1. F \subseteq Browsers
    BY <1>1 DEF InFlight
  <2>2. IsFiniteSet(F)
    BY <2>1, AccountsAssumption, FS_Subset
  <2> QED
    BY <1>1, <2>2, FS_AddElement, FS_CardinalityType
<1> HIDE DEF S
<1>7. IsFiniteSet(S \cup {opened + 1}) /\ Cardinality(S \cup {opened + 1}) <= Cardinality(S) + 1
      /\ Cardinality(S \cup {opened + 1}) \in Nat
  <2>1. /\ IsFiniteSet(S \cup {opened + 1})
        /\ \/ Cardinality(S \cup {opened + 1}) = Cardinality(S) + 1
           \/ Cardinality(S \cup {opened + 1}) = Cardinality(S)
    BY <1>5, FS_AddElement
  <2> QED
    BY <1>5, <2>1
<1>8. Cardinality(sessions' \ R) <= Cardinality(S \cup {opened + 1})
      /\ Cardinality(sessions' \ R) \in Nat
  BY <1>4, <1>7, FS_Subset, FS_CardinalityType
<1>9. SignIns \in Nat /\ Cap \in Nat
  BY AccountsAssumption, FS_CardinalityType DEF SignIns
<1>10. Cardinality(sessions' \ R) + Cardinality(F) <= Cap + SignIns - 1
  BY <1>2, <1>5, <1>6, <1>7, <1>8, <1>9
<1> QED
  BY <1>3, <1>10

-----------------------------------------------------------------------------

\* The steps.

\* The two starts: no account, and one signed in.
LEMMA AcInitInv == Init => AcInv
<1> SUFFICES ASSUME Init PROVE AcInv
  OBVIOUS
<1> DEFINE one == IF overlap THEN 1 ELSE 0
<1>1. /\ issued = one /\ opened = one /\ sessions = 1..one /\ codes = 1..one
      /\ overlap \in BOOLEAN /\ enforced \in BOOLEAN /\ requests = 0
      /\ cookie = [b \in Browsers |-> "none"] /\ txn = [b \in Browsers |-> Idle]
      /\ account = IF overlap THEN SignedIn ELSE Invited("none")
      /\ history = IF overlap THEN <<1>> ELSE <<>>
  BY DEF Init
<1>2. one \in {0, 1} /\ IsFiniteSet(1..one) /\ Cardinality(1..one) = one
  <2>1. one \in Int /\ 1 \in Int
    BY <1>1
  <2> QED
    BY <1>1, <2>1, FS_Interval
<1>3. AcTypes
  <2>1. account \in Held
    <3>1. Invited("none") \in Held
      BY InvitedHeld
    <3>2. overlap => SignedIn \in Held
      BY AccountsAssumption, InvitedHeld DEF SignedIn, Invited, Held, User
    <3> QED
      BY <1>1, <3>1, <3>2
  <2>2. history \in PasswordHistory /\ Len(history) <= Generations
    BY <1>1, AccountsAssumption DEF PasswordHistory
  <2>3. sessions \in SUBSET UserSession /\ codes \in SUBSET MfaBackupCode
    BY <1>1, <1>2 DEF UserSession, MfaBackupCode
  <2>4. \A b \in Browsers : txn[b] = Idle /\ Idle.op = "idle"
    BY <1>1 DEF Idle
  <2> HIDE DEF one
  <2> QED
    BY <1>1, <1>2, <2>1, <2>2, <2>3, <2>4 DEF AcTypes, Phases
<1>4. AcAlone
  BY <1>1 DEF AcAlone
<1>5. AcOwner
  BY <1>1 DEF AcOwner, Invited, IsInjective
<1>6. AcRoom
  <2>1. InFlight = {}
    BY <1>1 DEF InFlight
  <2>2. SUFFICES ASSUME Cap > 0
                 PROVE  Cardinality(sessions \ UNION {Revokes(b) : b \in {}}) + Cardinality({})
                            <= Cap + SignIns - 1
    BY <2>1 DEF AcRoom
  <2>3. sessions \ UNION {Revokes(b) : b \in {}} = 1..one /\ Cardinality({}) = 0
    BY <1>1, FS_EmptySet
  <2>4. SignIns \in Nat /\ SignIns >= 1
    <3>1. Cardinality(Browsers) \in Nat /\ Cardinality(Browsers) # 0
      BY AccountsAssumption, FS_CardinalityType, FS_EmptySet
    <3> QED
      BY <3>1 DEF SignIns
  <2>5. Cap \in Nat /\ one <= 1
    BY <1>2, AccountsAssumption
  <2> HIDE DEF one
  <2>6. Cardinality(sessions \ UNION {Revokes(b) : b \in {}}) = one
    BY <1>2, <2>3
  <2>7. one + 0 <= Cap + SignIns - 1
    BY <1>2, <2>2, <2>4, <2>5
  <2> QED
    BY <2>3, <2>6, <2>7
<1>7. AcNobody
  BY <1>1 DEF AcNobody, Invited, SignedIn
<1> QED
  BY <1>3, <1>4, <1>5, <1>6, <1>7 DEF AcInv

\* A step that leaves the requests alone, where they do not overlap, finds none.
LEMMA QuietStep ==
    ASSUME AcInv, Ready, UNCHANGED <<txn, overlap>>, sessions' \subseteq sessions,
           AcTypes', AcOwner'
    PROVE  AcCore'
<1>1. AcAlone'
  BY DEF Ready, AcAlone
<1>2. AcRoom'
  BY RoomStays DEF AcInv
<1> QED
  BY <1>1, <1>2 DEF AcInv, AcCore

\* A request ends, where they do not overlap the last.
LEMMA EndsAlone ==
    ASSUME AcInv, NEW b \in Browsers, txn[b] # Idle, UNCHANGED overlap,
           txn' = [txn EXCEPT ![b] = Idle]
    PROVE  /\ AcAlone'
           /\ \A c \in Browsers : txn'[c] # Idle => c # b /\ txn'[c] = txn[c]
           /\ txn' \in [Browsers -> {Idle} \cup Flight]
           /\ \A c \in Browsers :
                 /\ txn'[c].op \in {"set", "change"} => txn'[c].arg \in Passwords
                 /\ txn'[c] # Idle => IsFiniteSet(txn'[c].sessions)
<1>1. txn \in [Browsers -> {Idle} \cup Flight] /\ Idle.op = "idle"
  BY DEF AcInv, AcTypes, Idle
<1>2. txn'[b] = Idle /\ \A c \in Browsers : c # b => txn'[c] = txn[c]
  BY <1>1
<1>3. AcAlone'
  BY <1>2 DEF AcInv, AcAlone
<1> QED
  BY <1>1, <1>2, <1>3 DEF AcInv, AcTypes

\* A request that ends without a session leaves room, and the others alone.
LEMMA AcEndStep ==
    ASSUME AcInv, NEW b \in Browsers, txn[b] # Idle, UNCHANGED overlap,
           txn' = [txn EXCEPT ![b] = Idle], sessions' \subseteq sessions,
           AcTypes', AcOwner'
    PROVE  AcCore'
<1>1. AcAlone' /\ \A c \in Browsers : txn'[c] # Idle => txn'[c] = txn[c]
  BY EndsAlone
<1>2. AcRoom'
  BY <1>1, RoomStays DEF AcInv
<1> QED
  BY <1>1, <1>2 DEF AcInv, AcCore

\* A sign-in that commits revokes the sessions in excess and takes the room made.
LEMMA AcEndCreates ==
    ASSUME AcInv, NEW b \in Browsers, txn[b] # Idle, UNCHANGED overlap,
           txn' = [txn EXCEPT ![b] = Idle], CreateSession(txn[b].sessions),
           AcTypes', AcOwner'
    PROVE  AcCore'
<1>1. AcAlone'
  BY EndsAlone
<1>2. AcRoom'
  BY RoomTaken DEF AcInv, CreateSession
<1> QED
  BY <1>1, <1>2 DEF AcInv, AcCore

\* A request begins.
LEMMA AcBeginStep ==
    ASSUME AcInv, NEW b \in Browsers, NEW op \in Operations \ {"idle"}, NEW arg \in Nat,
           op \in {"set", "change"} => arg \in Passwords /\ (~ overlap => ~ Reused(history, arg)),
           ~ overlap /\ op \in {"verify", "reenroll"} => account.active,
           ~ overlap /\ op = "verify" => account.enrolled,
           Begin(b, op, arg)
    PROVE  AcCore'
<1> DEFINE t == [op |-> op, arg |-> arg, account |-> account, sessions |-> sessions]
<1>1. /\ Ready /\ txn[b] = Idle /\ txn' = [txn EXCEPT ![b] = t]
      /\ UNCHANGED <<account, history, sessions, codes, cookie, issued, opened, enforced, overlap>>
      /\ requests' \in Nat
  BY DEF Begin, Counted, Another, ownedRows, mode, AcInv, AcTypes
<1>2. /\ t \in Flight /\ t.op = op /\ t.arg = arg /\ t.account = account /\ t.sessions = sessions
  BY DEF AcInv, AcTypes, Flight
<1> HIDE DEF t
<1>3. /\ txn \in [Browsers -> {Idle} \cup Flight]
      /\ txn'[b] = t /\ \A c \in Browsers : c # b => txn'[c] = txn[c]
      /\ txn' \in [Browsers -> {Idle} \cup Flight]
  BY <1>1, <1>2 DEF AcInv, AcTypes
<1>4. AcTypes'
  <2>1. \A c \in Browsers :
            /\ txn'[c].op \in {"set", "change"} => txn'[c].arg \in Passwords
            /\ txn'[c] # Idle => IsFiniteSet(txn'[c].sessions)
    BY <1>2, <1>3 DEF AcInv, AcTypes
  <2> QED
    BY <1>1, <1>3, <2>1 DEF AcInv, AcTypes
<1>5. AcAlone'
  <2> SUFFICES ASSUME ~ overlap, NEW c \in Browsers, txn'[c] # Idle
               PROVE  /\ \A d \in Browsers : d # c => txn'[d] = Idle
                      /\ txn'[c].account = account /\ txn'[c].sessions = sessions
                      /\ txn'[c].op \in {"set", "change"} => ~ Reused(history, txn'[c].arg)
                      /\ txn'[c].op \in {"verify", "reenroll"} => account.active
                      /\ txn'[c].op = "verify" => account.enrolled
    BY <1>1 DEF AcAlone
  <2>1. \A d \in Browsers : txn[d] = Idle
    BY <1>1 DEF Ready
  <2>2. c = b
    BY <1>3, <2>1
  <2> QED
    BY <1>2, <1>3, <2>1, <2>2
<1>6. AcOwner'
  BY <1>1 DEF AcInv, AcOwner
<1>7. AcRoom'
  BY <1>1, <1>2, RoomAtBegin DEF AcInv, Ready
<1> QED
  BY <1>4, <1>5, <1>6, <1>7 DEF AcCore

\* Every request that begins.
LEMMA AcBeginSteps ==
    ASSUME AcInv, NEW b \in Browsers,
           \/ \E op \in {"right", "wrong"} : LoginBegin(b, op)
           \/ \E p \in Passwords : SetPasswordBegin(b, p)
           \/ EnrollConfirmBegin(b)
           \/ \E c \in codes \cup {0} : VerifyBegin(b, c)
           \/ \E p \in Passwords : ChangePasswordBegin(b, p)
           \/ ReenrollConfirmBegin(b)
    PROVE  AcCore'
<1>0. \A p \in Passwords : p \in Nat
  BY AccountsAssumption
<1>1. CASE \E op \in {"right", "wrong"} : LoginBegin(b, op)
  BY <1>1, AcBeginStep DEF LoginBegin, Operations
<1>2. CASE \E p \in Passwords : SetPasswordBegin(b, p)
  <2>1. PICK p \in Passwords : SetPasswordBegin(b, p)
    BY <1>2
  <2>2. ~ overlap => ~ Reused(history, p)
    <3>1. CASE account.password # 0
      BY <2>1, <3>1 DEF SetPasswordBegin
    <3>2. CASE account.password = 0 /\ ~ overlap
      <4>1. history = <<>>
        BY <3>2 DEF AcInv, AcOwner
      <4> QED
        BY <4>1 DEF Reused, Range
    <3> QED
      BY <3>1, <3>2
  <2> QED
    BY <1>0, <2>1, <2>2, AcBeginStep DEF SetPasswordBegin, Operations
<1>3. CASE EnrollConfirmBegin(b)
  BY <1>3, AcBeginStep DEF EnrollConfirmBegin, Operations
<1>4. CASE \E c \in codes \cup {0} : VerifyBegin(b, c)
  <2>1. PICK c \in codes \cup {0} : VerifyBegin(b, c)
    BY <1>4
  <2>2. c \in Nat
    BY DEF AcInv, AcTypes, MfaBackupCode
  <2>3. account.active /\ (~ overlap => account.enrolled)
    BY <2>1 DEF VerifyBegin, AcInv, AcOwner
  <2> QED
    BY <2>1, <2>2, <2>3, AcBeginStep DEF VerifyBegin, Operations
<1>5. CASE \E p \in Passwords : ChangePasswordBegin(b, p)
  BY <1>0, <1>5, AcBeginStep DEF ChangePasswordBegin, Operations
<1>6. CASE ReenrollConfirmBegin(b)
  BY <1>6, AcBeginStep DEF ReenrollConfirmBegin, Resolved, Operations
<1> QED
  BY <1>1, <1>2, <1>3, <1>4, <1>5, <1>6

\* A sign-in with a password is answered.
LEMMA LoginStep ==
    ASSUME AcInv, NEW b \in Browsers, LoginFails(b) \/ LoginPasses(b)
    PROVE  AcCore'
<1>1. /\ txn[b].op \in {"wrong", "right"} /\ txn' = [txn EXCEPT ![b] = Idle]
      /\ UNCHANGED <<history, sessions, codes, issued, opened, requests, enforced, overlap>>
  BY DEF LoginFails, LoginPasses, End, ownedRows, counters, mode
<1>2. txn[b] # Idle /\ txn[b] \in Flight /\ txn[b].account \in Held
  BY <1>1 DEF AcInv, AcTypes, Idle, Flight
<1> DEFINE a == txn[b].account
<1>3. PICK new \in Held : /\ Write(b, new) /\ (new = FailedLogin(a) \/ new = ClearedLogin(a))
  BY <1>2, NewRows DEF LoginFails, LoginPasses
<1>4. account' \in Held /\ (~ overlap => account' = new /\ a = account)
  BY <1>2, <1>3, WriteStep DEF AcInv
<1>5. cookie' \in [Browsers -> Phases]
  BY DEF LoginFails, LoginPasses, Holds, Phase, Phases, AcInv, AcTypes
<1>6. AcTypes'
  BY <1>1, <1>2, <1>4, <1>5, EndsAlone DEF AcInv, AcTypes
<1>7. AcOwner'
  <2> SUFFICES ASSUME ~ overlap PROVE AcOwner'
    BY <1>1 DEF AcOwner
  <2>1. account' = new /\ a = account
    BY <1>4
  <2>2. /\ account'.password = account.password /\ account'.enrolled = account.enrolled
        /\ account'.secret = account.secret /\ account'.active = account.active
    <3>1. DOMAIN account = Fields
      BY HeldFields DEF AcInv, AcTypes
    <3> QED
      BY <1>3, <2>1, <3>1 DEF FailedLogin, ClearedLogin, Fields
  <2>3. account'.needsReset => account'.lockouts >= ResetCount
    <3>1. account \in Held /\ DOMAIN account = Fields /\ account.lockouts \in Nat
      BY HeldFields DEF AcInv, AcTypes
    <3>2. account.needsReset => account.lockouts >= ResetCount
      BY DEF AcInv, AcOwner
    <3>3. ResetCount \in Nat
      BY AccountsAssumption
    <3>4. CASE new = ClearedLogin(account)
      BY <2>1, <3>1, <3>2, <3>4 DEF ClearedLogin, Fields
    <3>5. CASE new = FailedLogin(account)
      <4> DEFINE locks == account.fails + 1 >= Threshold
      <4>1. account'.lockouts = IF locks THEN account.lockouts + 1 ELSE account.lockouts
        BY <2>1, <3>1, <3>5 DEF FailedLogin, Fields
      <4>2. account'.needsReset =>
                account.needsReset \/ (locks /\ account.lockouts + 1 >= ResetCount)
        BY <2>1, <3>1, <3>5 DEF FailedLogin, Fields
      <4> HIDE DEF locks
      <4>3. CASE locks
        BY <3>1, <3>2, <3>3, <4>1, <4>2, <4>3
      <4>4. CASE ~ locks
        BY <3>1, <3>2, <3>3, <4>1, <4>2, <4>4
      <4> QED
        BY <4>3, <4>4
    <3> QED
      BY <1>3, <2>1, <3>4, <3>5
  <2> QED
    BY <1>1, <2>2, <2>3 DEF AcInv, AcOwner
<1> QED
  BY <1>1, <1>2, <1>6, <1>7, AcEndStep

\* A password is set or changed.
LEMMA PasswordStep ==
    ASSUME AcInv, NEW b \in Browsers, SetPassword(b) \/ ChangePassword(b)
    PROVE  AcCore'
<1>1. /\ txn[b].op \in {"set", "change"} /\ txn' = [txn EXCEPT ![b] = Idle]
      /\ history' = Recorded(txn[b].arg)
      /\ UNCHANGED <<sessions, codes, issued, opened, requests, enforced, overlap>>
  BY DEF SetPassword, ChangePassword, End, counters, mode
<1>2. /\ txn[b] # Idle /\ txn[b].account \in Held /\ txn[b].arg \in Passwords
  BY <1>1 DEF AcInv, AcTypes, Idle, Flight
<1> DEFINE a == txn[b].account
           p == txn[b].arg
<1>3. PICK new \in Held : /\ Write(b, new)
                         /\ \/ new = [a EXCEPT !.password = p, !.invite = "none"]
                            \/ new = [a EXCEPT !.password = p]
  BY <1>2, NewRows DEF SetPassword, ChangePassword
<1>4. account' \in Held /\ (~ overlap => account' = new /\ a = account)
  BY <1>2, <1>3, WriteStep DEF AcInv
<1>5. cookie' \in [Browsers -> Phases]
  BY DEF SetPassword, ChangePassword, Holds, Phase, Phases, AcInv, AcTypes
<1>6. history' \in PasswordHistory /\ Len(history') <= Generations
  <2>1. history \in PasswordHistory /\ Len(history) <= Generations /\ Generations \in Nat
    BY AccountsAssumption DEF AcInv, AcTypes
  <2>2. history' \in PasswordHistory /\ Len(history') \in 1..Generations
    BY <1>1, <1>2, <2>1, RecordedIs
  <2> QED
    BY <2>1, <2>2
<1>7. AcTypes'
  BY <1>1, <1>2, <1>4, <1>5, <1>6, EndsAlone DEF AcInv, AcTypes
<1>8. AcOwner'
  <2> SUFFICES ASSUME ~ overlap PROVE AcOwner'
    BY <1>1 DEF AcOwner
  <2>1. account' = new /\ a = account /\ DOMAIN account = Fields
    BY <1>4, HeldFields DEF AcInv, AcTypes
  <2>2. /\ account'.password = p /\ account'.enrolled = account.enrolled
        /\ account'.secret = account.secret /\ account'.active = account.active
        /\ account'.needsReset = account.needsReset /\ account'.lockouts = account.lockouts
    BY <1>3, <2>1 DEF Fields
  <2>3. p # 0
    BY <1>2, AccountsAssumption
  <2>4. ~ Reused(history, p)
    BY <1>1, <1>2 DEF AcInv, AcAlone
  <2>5. IsInjective(history') /\ history' # <<>> /\ Last(history') = p
    BY <1>1, <1>2, <2>4, RecordedIsFresh DEF AcInv, AcTypes, AcOwner
  <2> QED
    BY <1>1, <2>2, <2>3, <2>5 DEF AcInv, AcOwner
<1> QED
  BY <1>1, <1>2, <1>7, <1>8, AcEndStep

\* A session more, those that are too many less.
LEMMA CreatedTypes ==
    ASSUME AcTypes, NEW read, CreateSession(read)
    PROVE  /\ sessions' \in SUBSET UserSession /\ IsFiniteSet(sessions')
           /\ opened' \in Nat /\ opened' = opened + 1
<1>1. /\ opened \in Nat /\ opened' = opened + 1
      /\ sessions' = (sessions \ Excess(read)) \cup {opened + 1}
      /\ sessions \in SUBSET UserSession /\ IsFiniteSet(sessions)
  BY DEF CreateSession, AcTypes
<1>2. IsFiniteSet(sessions \ Excess(read))
  BY <1>1, FS_Subset
<1>3. IsFiniteSet(sessions')
  BY <1>1, <1>2, FS_AddElement
<1>4. opened + 1 \in UserSession
  BY <1>1 DEF UserSession
<1> QED
  BY <1>1, <1>3, <1>4

\* The second factor is enrolled or used, and opens a session.
LEMMA SignInStep ==
    ASSUME AcInv, NEW b \in Browsers, EnrollConfirm(b) \/ Verify(b)
    PROVE  AcCore' /\ (~ overlap => account'.active /\ account'.enrolled)
<1>1. /\ txn[b].op \in {"confirm", "verify"} /\ txn' = [txn EXCEPT ![b] = Idle]
      /\ CreateSession(txn[b].sessions)
      /\ UNCHANGED <<history, requests, enforced, overlap>>
      /\ cookie' = [cookie EXCEPT ![b] = "none"]
  BY DEF EnrollConfirm, Verify, End, Holds, mode
<1>2. txn[b] # Idle /\ txn[b].account \in Held
  BY <1>1 DEF AcInv, AcTypes, Idle, Flight
<1>3. /\ sessions' \in SUBSET UserSession /\ IsFiniteSet(sessions') /\ opened' \in Nat
  BY <1>1, CreatedTypes DEF AcInv
<1>4. cookie' \in [Browsers -> Phases]
  BY <1>1 DEF AcInv, AcTypes, Phases
<1>5. CASE EnrollConfirm(b)
  <2>1. issued \in Nat /\ issued' = issued + 1 /\ codes' = codes \cup {issued + 1}
    BY <1>5 DEF EnrollConfirm, AcInv, AcTypes
  <2> DEFINE new == [txn[b].account EXCEPT !.secret = issued + 1, !.enrolled = TRUE,
                                            !.active = TRUE]
  <2>2. new \in Held /\ Write(b, new)
    <3>1. issued + 1 \in Nat
      BY <2>1
    <3>2. \A n \in Nat :
              [txn[b].account EXCEPT !.secret = n, !.enrolled = TRUE, !.active = TRUE] \in Held
      BY <1>2, NewRows
    <3> QED
      BY <1>5, <3>1, <3>2 DEF EnrollConfirm
  <2>3. account' \in Held /\ (~ overlap => account' = new /\ txn[b].account = account)
    <3> HIDE DEF new
    <3> QED
      BY <1>2, <2>2, WriteStep DEF AcInv
  <2>4. codes' \in SUBSET MfaBackupCode
    BY <2>1 DEF AcInv, AcTypes, MfaBackupCode
  <2>5. AcTypes'
    <3>1. issued' \in Nat
      BY <2>1
    <3> QED
      BY <1>1, <1>2, <1>3, <1>4, <2>3, <2>4, <3>1, EndsAlone DEF AcInv, AcTypes
  <2>6. ~ overlap =>
            /\ account'.password = account.password /\ account'.enrolled = TRUE
            /\ account'.secret = issued + 1 /\ account'.active = TRUE
            /\ account'.needsReset = account.needsReset /\ account'.lockouts = account.lockouts
    <3>1. DOMAIN txn[b].account = Fields
      BY <1>2, HeldFields
    <3> QED
      BY <2>3, <3>1 DEF Fields
  <2>7. AcOwner'
    BY <1>1, <2>1, <2>6 DEF AcInv, AcOwner
  <2> QED
    BY <1>1, <1>2, <2>5, <2>6, <2>7, AcEndCreates
<1>6. CASE Verify(b)
  <2>1. account' = account /\ issued' = issued /\ codes' \subseteq codes /\ txn[b].op = "verify"
    BY <1>6 DEF Verify, End
  <2>2. ~ overlap => account.active /\ account.enrolled
    BY <1>2, <2>1 DEF AcInv, AcAlone
  <2>3. AcTypes'
    BY <1>1, <1>2, <1>3, <1>4, <2>1, EndsAlone DEF AcInv, AcTypes
  <2>4. AcOwner'
    BY <1>1, <2>1, <2>2 DEF AcInv, AcOwner
  <2> QED
    BY <1>1, <1>2, <2>1, <2>2, <2>3, <2>4, AcEndCreates
<1> QED
  BY <1>5, <1>6

\* The second factor is enrolled again.
LEMMA ReenrollStep ==
    ASSUME AcInv, NEW b \in Browsers, ReenrollConfirm(b)
    PROVE  AcCore'
<1>1. /\ txn[b].op = "reenroll" /\ txn' = [txn EXCEPT ![b] = Idle]
      /\ UNCHANGED <<history, sessions, opened, requests, enforced, overlap>>
      /\ cookie' = [cookie EXCEPT ![b] = "none"]
      /\ issued \in Nat /\ issued' = issued + 1 /\ codes' = {issued + 1}
  BY DEF ReenrollConfirm, End, Holds, mode, AcInv, AcTypes
<1>2. txn[b] # Idle /\ txn[b].account \in Held
  BY <1>1 DEF AcInv, AcTypes, Idle, Flight
<1> DEFINE new == [txn[b].account EXCEPT !.secret = issued + 1, !.enrolled = TRUE]
<1>3. new \in Held /\ Write(b, new)
  <2>1. issued + 1 \in Nat
    BY <1>1
  <2>2. \A n \in Nat : [txn[b].account EXCEPT !.secret = n, !.enrolled = TRUE] \in Held
    BY <1>2, NewRows
  <2> QED
    BY <2>1, <2>2 DEF ReenrollConfirm
<1>4. account' \in Held /\ (~ overlap => account' = new /\ txn[b].account = account)
  <2> HIDE DEF new
  <2> QED
    BY <1>2, <1>3, WriteStep DEF AcInv
<1>5. codes' \in SUBSET MfaBackupCode /\ cookie' \in [Browsers -> Phases]
  BY <1>1 DEF AcInv, AcTypes, MfaBackupCode, Phases
<1>6. AcTypes'
  <2>1. issued' \in Nat
    BY <1>1
  <2> QED
    BY <1>1, <1>2, <1>4, <1>5, <2>1, EndsAlone DEF AcInv, AcTypes
<1>7. ~ overlap =>
          /\ account'.password = account.password /\ account'.enrolled = TRUE
          /\ account'.secret = issued + 1 /\ account'.active = account.active
          /\ account'.needsReset = account.needsReset /\ account'.lockouts = account.lockouts
  <2>1. DOMAIN txn[b].account = Fields
    BY <1>2, HeldFields
  <2> QED
    BY <1>4, <2>1 DEF Fields
<1>8. ~ overlap => account.active
  BY <1>1, <1>2 DEF AcInv, AcAlone
<1>9. AcOwner'
  BY <1>1, <1>7, <1>8 DEF AcInv, AcOwner
<1> QED
  BY <1>1, <1>2, <1>6, <1>9, AcEndStep

-----------------------------------------------------------------------------

\* Cookies.
LEMMA CookieStep ==
    ASSUME AcInv, NEW b \in Browsers, MfaEnroll(b) \/ Reenroll(b) \/ CookieLapses(b)
    PROVE  AcCore'
<1>1. /\ Ready /\ UNCHANGED <<account, history, sessions, codes, txn, issued, opened, requests,
                              enforced, overlap>>
  BY DEF MfaEnroll, Reenroll, CookieLapses, ownedRows, counters, mode
<1>2. cookie' \in [Browsers -> Phases]
  BY DEF MfaEnroll, Reenroll, CookieLapses, Holds, Phases, AcInv, AcTypes
<1>3. AcTypes'
  BY <1>1, <1>2 DEF AcInv, AcTypes
<1>4. AcOwner'
  BY <1>1 DEF AcInv, AcOwner
<1> QED
  BY <1>1, <1>3, <1>4, QuietStep

\* No account is ever linked, so that single sign-on lets nobody in.
LEMMA SsoStep ==
    ASSUME AcInv, SsoCallback
    PROVE  UNCHANGED vars
<1>1. ~ account.linked
  BY HeldFields DEF AcInv, AcTypes
<1> QED
  BY <1>1 DEF SsoCallback

\* Sessions and codes of a signed-in account, and sessions that run out.
LEMMA SelfServiceStep ==
    ASSUME AcInv,
           \/ RegenerateCodes \/ RevokeAllSessions \/ SessionExpires
           \/ \E s \in sessions : Logout(s)
    PROVE  AcCore'
<1>1. /\ Ready /\ UNCHANGED <<account, history, cookie, txn, opened, requests, enforced, overlap>>
      /\ sessions' \subseteq sessions
  BY DEF RegenerateCodes, RevokeAllSessions, SessionExpires, Logout, counters, mode
<1>2. /\ codes' \in SUBSET MfaBackupCode /\ issued' \in Nat
      /\ codes' # {} => codes # {} \/ account.enrolled
  <2>1. codes \in SUBSET MfaBackupCode /\ issued \in Nat
    BY DEF AcInv, AcTypes
  <2>2. CASE RegenerateCodes
    <3>1. issued' = issued + 1 /\ codes' = {issued + 1} /\ account.enrolled
      BY <2>2 DEF RegenerateCodes
    <3> QED
      BY <2>1, <3>1 DEF MfaBackupCode
  <2>3. CASE RevokeAllSessions \/ SessionExpires \/ \E s \in sessions : Logout(s)
    BY <2>1, <2>3 DEF RevokeAllSessions, SessionExpires, Logout, counters
  <2> QED
    BY <2>2, <2>3
<1>3. sessions' \in SUBSET UserSession /\ IsFiniteSet(sessions')
  BY <1>1, FS_Subset DEF AcInv, AcTypes
<1>4. AcTypes'
  BY <1>1, <1>2, <1>3 DEF AcInv, AcTypes
<1>5. AcOwner'
  <2>1. sessions = {} => sessions' = {}
    BY <1>1
  <2> QED
    BY <1>1, <1>2, <2>1 DEF AcInv, AcOwner
<1> QED
  BY <1>1, <1>4, <1>5, QuietStep

\* An administrator's request, and what time does to an account, given that
\* the row it writes agrees with itself.
LEMMA AccountStep ==
    ASSUME AcInv, Ready, UNCHANGED <<cookie, txn, issued, opened, enforced, overlap>>,
           account' \in Held, requests' \in Nat,
           sessions' \subseteq sessions, codes' \subseteq codes,
           history' = history \/ history' = <<>>, AcOwner'
    PROVE  AcCore'
<1>1. sessions' \in SUBSET UserSession /\ IsFiniteSet(sessions') /\ codes' \in SUBSET MfaBackupCode
  BY FS_Subset DEF AcInv, AcTypes
<1>2. history' \in PasswordHistory /\ Len(history') <= Generations
  <2>1. <<>> \in Seq(Passwords) /\ Len(<<>>) = 0 /\ 0 <= Generations
    BY AccountsAssumption
  <2> QED
    BY <2>1 DEF AcInv, AcTypes, PasswordHistory
<1>3. AcTypes'
  BY <1>1, <1>2 DEF AcInv, AcTypes
<1> QED
  BY <1>3, QuietStep

\* What an administrator does to the account, row by row.
LEMMA AcAdminStep ==
    ASSUME AcInv,
           \/ \E kind \in {"local", "sso"} : InviteUser(kind)
           \/ \E active \in BOOLEAN : PatchUser(active)
           \/ ResetMfa \/ DeactivateUser \/ AnonymizeUser \/ UnlockUser \/ ResetPassword
    PROVE  AcCore'
<1>1. /\ Ready /\ UNCHANGED <<cookie, txn, issued, opened, enforced, overlap>> /\ requests' \in Nat
  BY DEF AdminRequest, Another, InviteUser, PatchUser, ResetMfa, DeactivateUser, AnonymizeUser,
         UnlockUser, ResetPassword, mode, AcInv, AcTypes
<1>2. account \in Held /\ DOMAIN account = Fields
  BY HeldFields DEF AcInv, AcTypes
<1>3. CASE \E kind \in {"local", "sso"} : InviteUser(kind)
  <2>1. PICK kind \in {"local", "sso"} : InviteUser(kind)
    BY <1>3
  <2>2. account' = Invited(kind) /\ UNCHANGED <<history, sessions, codes>> /\ account.kind = "none"
    BY <2>1 DEF InviteUser, ownedRows
  <2>3. account' \in Held
    BY <2>2, InvitedHeld
  <2>4. ~ overlap => history = <<>> /\ codes = {}
    BY <2>2 DEF AcInv, AcOwner, AcNobody
  <2>5. AcOwner'
    BY <1>1, <2>2, <2>4 DEF Invited, AcInv, AcOwner
  <2> QED
    BY <1>1, <2>2, <2>3, <2>5, AccountStep
<1>4. CASE \E active \in BOOLEAN : PatchUser(active)
  <2>1. PICK active \in BOOLEAN : PatchUser(active)
    BY <1>4
  <2>2. /\ account' = [account EXCEPT !.active = active]
        /\ sessions' = IF account.active /\ ~ active THEN {} ELSE sessions
        /\ UNCHANGED <<history, codes>>
    BY <2>1 DEF PatchUser
  <2>3. account' \in Held
    BY <1>2, <2>2, NewRows
  <2>4. AcOwner'
    BY <1>1, <1>2, <2>2 DEF AcInv, AcOwner, Fields
  <2> QED
    BY <1>1, <2>2, <2>3, <2>4, AccountStep
<1>5. CASE ResetMfa
  <2>1. /\ account' = [account EXCEPT !.secret = 0, !.enrolled = FALSE, !.active = FALSE,
                                      !.needsReset = FALSE]
        /\ codes' = {} /\ UNCHANGED <<history, sessions>>
    BY <1>5 DEF ResetMfa
  <2>2. account' \in Held
    BY <1>2, <2>1, NewRows
  <2>3. AcOwner'
    BY <1>1, <1>2, <2>1 DEF AcInv, AcOwner, Fields
  <2> QED
    BY <1>1, <2>1, <2>2, <2>3, AccountStep
<1>6. CASE DeactivateUser
  <2>1. /\ account' = [account EXCEPT !.active = FALSE]
        /\ sessions' = {} /\ UNCHANGED <<history, codes>>
    BY <1>6 DEF DeactivateUser
  <2>2. account' \in Held
    BY <1>2, <2>1, NewRows
  <2>3. AcOwner'
    BY <1>1, <1>2, <2>1 DEF AcInv, AcOwner, Fields
  <2> QED
    BY <1>1, <2>1, <2>2, <2>3, AccountStep
<1>7. CASE AnonymizeUser
  <2>1. /\ account' = [account EXCEPT !.linked = FALSE, !.secret = 0, !.enrolled = FALSE,
                                      !.password = 0, !.gone = TRUE]
        /\ sessions' = {} /\ codes' = {} /\ history' = <<>>
    BY <1>7 DEF AnonymizeUser
  <2>2. account' \in Held
    BY <1>2, <2>1, NewRows
  <2>3. IsInjective(history')
    BY <2>1 DEF IsInjective
  <2>4. AcOwner'
    BY <1>1, <1>2, <2>1, <2>3 DEF AcInv, AcOwner, Fields
  <2> QED
    BY <1>1, <2>1, <2>2, <2>4, AccountStep
<1>8. CASE UnlockUser
  <2>1. /\ account' = [account EXCEPT !.locked = FALSE, !.fails = 0, !.lockouts = 0,
                                      !.needsReset = FALSE]
        /\ UNCHANGED <<history, sessions, codes>>
    BY <1>8 DEF UnlockUser, ownedRows
  <2>2. account' \in Held
    BY <1>2, <2>1, NewRows
  <2>3. AcOwner'
    BY <1>1, <1>2, <2>1 DEF AcInv, AcOwner, Fields
  <2> QED
    BY <1>1, <2>1, <2>2, <2>3, AccountStep
<1>9. CASE ResetPassword
  <2>1. /\ account' = [account EXCEPT !.invite = "valid"]
        /\ sessions' = {} /\ UNCHANGED <<history, codes>>
    BY <1>9 DEF ResetPassword
  <2>2. account' \in Held
    BY <1>2, <2>1, NewRows
  <2>3. AcOwner'
    BY <1>1, <1>2, <2>1 DEF AcInv, AcOwner, Fields
  <2> QED
    BY <1>1, <2>1, <2>2, <2>3, AccountStep
<1> QED
  BY <1>3, <1>4, <1>5, <1>6, <1>7, <1>8, <1>9

\* An invitation or a lock runs out.
LEMMA LapseStep ==
    ASSUME AcInv, InviteLapses \/ ExpireStaleInvites \/ LockLapses
    PROVE  AcCore'
<1>1. /\ Ready /\ UNCHANGED <<history, sessions, codes, cookie, txn, issued, opened, requests,
                              enforced, overlap>>
      /\ \/ account' = [account EXCEPT !.invite = "expired"]
         \/ account' = [account EXCEPT !.invite = "none"]
         \/ account' = [account EXCEPT !.locked = FALSE]
  BY DEF InviteLapses, ExpireStaleInvites, LockLapses, ownedRows, counters, mode
<1>2. account \in Held /\ DOMAIN account = Fields
  BY HeldFields DEF AcInv, AcTypes
<1>3. account' \in Held
  BY <1>1, <1>2, NewRows
<1>4. requests' \in Nat
  BY <1>1 DEF AcInv, AcTypes
<1>5. /\ account'.password = account.password /\ account'.enrolled = account.enrolled
      /\ account'.secret = account.secret /\ account'.active = account.active
      /\ account'.needsReset = account.needsReset /\ account'.lockouts = account.lockouts
  BY <1>1, <1>2 DEF Fields
<1>6. AcOwner'
  BY <1>1, <1>5 DEF AcInv, AcOwner
<1> QED
  BY <1>1, <1>3, <1>4, <1>6, AccountStep

\* A row keeps its kind, and gets one when it is invited.
LEMMA KindStays ==
    ASSUME AcInv, Next
    PROVE  account'.kind = account.kind \/ account'.kind \in {"local", "sso"}
<1>1. account \in Held /\ DOMAIN account = Fields
  BY HeldFields DEF AcInv, AcTypes
<1>2. ASSUME NEW b \in Browsers, NEW new, Write(b, new), new.kind = txn[b].account.kind
      PROVE  account'.kind = account.kind
  BY <1>1, <1>2 DEF Write, Fields
<1>3. ASSUME NEW b \in Browsers, txn[b] # Idle
      PROVE  txn[b].account \in Held /\ DOMAIN txn[b].account = Fields
  BY <1>3, HeldFields DEF AcInv, AcTypes, Flight
<1>4. ASSUME NEW b \in Browsers, txn[b].op # "idle" PROVE txn[b] # Idle
  BY <1>4 DEF Idle
<1>5. ASSUME NEW b \in Browsers, LoginFails(b) \/ LoginPasses(b) PROVE account'.kind = account.kind
  <2>1. DOMAIN txn[b].account = Fields
    BY <1>3, <1>4, <1>5 DEF LoginFails, LoginPasses, End
  <2>2. /\ FailedLogin(txn[b].account).kind = txn[b].account.kind
        /\ ClearedLogin(txn[b].account).kind = txn[b].account.kind
    BY <2>1 DEF FailedLogin, ClearedLogin, Fields
  <2> QED
    BY <1>2, <1>5, <2>2 DEF LoginFails, LoginPasses
<1>6. ASSUME NEW b \in Browsers,
             SetPassword(b) \/ ChangePassword(b) \/ EnrollConfirm(b) \/ ReenrollConfirm(b)
      PROVE  account'.kind = account.kind
  <2>1. DOMAIN txn[b].account = Fields
    BY <1>3, <1>4, <1>6 DEF SetPassword, ChangePassword, EnrollConfirm, ReenrollConfirm, End
  <2>2. /\ [txn[b].account EXCEPT !.password = txn[b].arg, !.invite = "none"].kind
               = txn[b].account.kind
        /\ [txn[b].account EXCEPT !.password = txn[b].arg].kind = txn[b].account.kind
        /\ [txn[b].account EXCEPT !.secret = issued + 1, !.enrolled = TRUE, !.active = TRUE].kind
               = txn[b].account.kind
        /\ [txn[b].account EXCEPT !.secret = issued + 1, !.enrolled = TRUE].kind
               = txn[b].account.kind
    BY <2>1 DEF Fields
  <2> QED
    BY <1>2, <1>6, <2>2 DEF SetPassword, ChangePassword, EnrollConfirm, ReenrollConfirm
<1>7. CASE \E b \in Browsers : Verify(b) \/ MfaEnroll(b) \/ Reenroll(b) \/ CookieLapses(b)
  BY <1>7 DEF Verify, MfaEnroll, Reenroll, CookieLapses
<1>8. CASE \E b \in Browsers :
               \/ \E op \in {"right", "wrong"} : LoginBegin(b, op)
               \/ \E p \in Passwords : SetPasswordBegin(b, p)
               \/ EnrollConfirmBegin(b)
               \/ \E c \in codes \cup {0} : VerifyBegin(b, c)
               \/ \E p \in Passwords : ChangePasswordBegin(b, p)
               \/ ReenrollConfirmBegin(b)
  BY <1>8 DEF LoginBegin, SetPasswordBegin, EnrollConfirmBegin, VerifyBegin, ChangePasswordBegin,
              ReenrollConfirmBegin, Begin
<1>9. CASE SsoCallback
  BY <1>9, SsoStep DEF vars
<1>10. CASE \/ RegenerateCodes \/ RevokeAllSessions \/ SessionExpires
            \/ \E s \in sessions : Logout(s)
  BY <1>10 DEF RegenerateCodes, RevokeAllSessions, SessionExpires, Logout
<1>11. CASE \/ \E active \in BOOLEAN : PatchUser(active)
            \/ ResetMfa \/ DeactivateUser \/ AnonymizeUser \/ UnlockUser \/ ResetPassword
            \/ InviteLapses \/ ExpireStaleInvites \/ LockLapses
  BY <1>1, <1>11 DEF PatchUser, ResetMfa, DeactivateUser, AnonymizeUser, UnlockUser, ResetPassword,
                     InviteLapses, ExpireStaleInvites, LockLapses, Fields
<1>12. CASE \E kind \in {"local", "sso"} : InviteUser(kind)
  BY <1>12 DEF InviteUser, Invited
<1> QED
  BY <1>5, <1>6, <1>7, <1>8, <1>9, <1>10, <1>11, <1>12 DEF Next

\* Before the first invitation nothing happens but that invitation.
LEMMA NobodyStays ==
    ASSUME AcInv, Next
    PROVE  AcNobody'
<1>1. SUFFICES ASSUME account.kind = "none", account'.kind = "none" PROVE AcNobody'
  BY KindStays DEF AcNobody
<1>2. /\ account.password = 0 /\ account.invite = "none" /\ codes = {} /\ sessions = {}
      /\ \A b \in Browsers : txn[b] = Idle /\ cookie[b] = "none"
  BY <1>1 DEF AcInv, AcNobody
<1>3. Idle.op = "idle"
  BY DEF Idle
<1>4. CASE \E b \in Browsers :
               \/ \E op \in {"right", "wrong"} : LoginBegin(b, op)
               \/ \E p \in Passwords : SetPasswordBegin(b, p)
               \/ EnrollConfirmBegin(b)
               \/ \E c \in codes \cup {0} : VerifyBegin(b, c)
               \/ \E p \in Passwords : ChangePasswordBegin(b, p)
               \/ ReenrollConfirmBegin(b)
  BY <1>1, <1>2, <1>4 DEF LoginBegin, SetPasswordBegin, EnrollConfirmBegin, VerifyBegin,
                          ChangePasswordBegin, ReenrollConfirmBegin
<1>5. CASE \E b \in Browsers :
               \/ LoginFails(b) \/ LoginPasses(b) \/ SetPassword(b) \/ EnrollConfirm(b) \/ Verify(b)
               \/ ChangePassword(b) \/ ReenrollConfirm(b)
  BY <1>2, <1>3, <1>5 DEF LoginFails, LoginPasses, SetPassword, EnrollConfirm, Verify,
                          ChangePassword, ReenrollConfirm, End
<1>6. CASE \E b \in Browsers : MfaEnroll(b) \/ Reenroll(b) \/ CookieLapses(b)
  BY <1>1, <1>2, <1>6 DEF MfaEnroll, Reenroll, CookieLapses
<1>7. CASE SsoCallback
  BY <1>1, <1>7 DEF SsoCallback
<1>8. CASE \/ RegenerateCodes \/ RevokeAllSessions \/ SessionExpires
           \/ \E s \in sessions : Logout(s)
  BY <1>2, <1>8 DEF RegenerateCodes, RevokeAllSessions, SessionExpires, Logout, Resolved
<1>9. CASE \/ \E kind \in {"local", "sso"} : InviteUser(kind)
           \/ \E active \in BOOLEAN : PatchUser(active)
           \/ ResetMfa \/ DeactivateUser \/ AnonymizeUser \/ UnlockUser \/ ResetPassword
  BY <1>1, <1>9 DEF InviteUser, Invited, PatchUser, ResetMfa, DeactivateUser, AnonymizeUser,
                    UnlockUser, ResetPassword
<1>10. CASE InviteLapses \/ ExpireStaleInvites
  BY <1>2, <1>10 DEF InviteLapses, ExpireStaleInvites
<1>11. CASE LockLapses
  <2>1. /\ account' = [account EXCEPT !.locked = FALSE] /\ DOMAIN account = Fields
        /\ UNCHANGED <<codes, sessions, txn, cookie>>
    BY <1>11, HeldFields DEF LockLapses, ownedRows, AcInv, AcTypes
  <2> QED
    BY <1>2, <2>1 DEF AcNobody, Fields
<1> QED
  BY <1>4, <1>5, <1>6, <1>7, <1>8, <1>9, <1>10, <1>11 DEF Next

\* Every step keeps the invariant.
LEMMA AcStep == AcInv /\ [Next]_vars => AcInv'
<1> SUFFICES ASSUME AcInv, [Next]_vars PROVE AcInv'
  OBVIOUS
<1>1. CASE UNCHANGED vars
  <2>1. AcTypes'
    BY <1>1 DEF vars, AcInv, AcTypes
  <2>2. AcAlone'
    BY <1>1 DEF vars, AcInv, AcAlone
  <2>3. AcOwner'
    BY <1>1 DEF vars, AcInv, AcOwner
  <2>4. AcRoom'
    BY <1>1, RoomStays DEF vars, AcInv
  <2>5. AcNobody'
    BY <1>1 DEF vars, AcInv, AcNobody
  <2> QED
    BY <2>1, <2>2, <2>3, <2>4, <2>5 DEF AcInv
<1>2. CASE SsoCallback
  BY <1>1, <1>2, SsoStep
<1>3. CASE Next /\ ~ SsoCallback
  <2>1. AcCore'
    BY <1>3, AcBeginSteps, LoginStep, PasswordStep, SignInStep, ReenrollStep, CookieStep,
       SelfServiceStep, AcAdminStep, LapseStep DEF Next
  <2>2. AcNobody'
    BY <1>3, NobodyStays
  <2> QED
    BY <2>1, <2>2 DEF AcCore, AcInv
<1> QED
  BY <1>1, <1>2, <1>3

\* Types, agreement and the bound on sessions follow from the invariant.
LEMMA AcInvGives == AcInv => TypeOK /\ CredentialsAgree /\ SessionCap /\ DeactivationEndsSessions
<1> SUFFICES ASSUME AcInv PROVE TypeOK /\ CredentialsAgree /\ SessionCap /\ DeactivationEndsSessions
  OBVIOUS
<1>1. TypeOK
  <2>1. \A b \in Browsers : txn[b].op \in Operations
    BY DEF AcInv, AcTypes, Flight, Idle, Operations
  <2>2. account \in User /\ account.fails < Threshold /\ account.password \in Passwords \cup {0}
    BY DEF AcInv, AcTypes, Held
  <2> QED
    BY <2>1, <2>2 DEF AcInv, AcTypes, TypeOK
<1>2. CredentialsAgree
  BY DEF AcInv, AcOwner, CredentialsAgree, PasswordIsFresh, EnrolledMeansSecret, EscalationIsEarned
<1>3. SessionCap
  <2> SUFFICES ASSUME Cap > 0
               PROVE  Cardinality(sessions)
                      <= Cap + (IF overlap THEN Cardinality(Browsers) - 1 ELSE 0)
    BY DEF SessionCap
  <2>1. Cardinality(sessions \ UNION {Revokes(b) : b \in {}}) + Cardinality({}) <= Cap + SignIns - 1
    BY DEF AcInv, AcRoom
  <2>2. sessions \ UNION {Revokes(b) : b \in {}} = sessions /\ Cardinality({}) = 0
    BY FS_EmptySet
  <2>3. Cardinality(sessions) \in Nat /\ Cardinality(Browsers) \in Nat /\ Cap \in Nat
    BY AccountsAssumption, FS_CardinalityType DEF AcInv, AcTypes
  <2>4. Cardinality(sessions) + 0 <= Cap + SignIns - 1
    BY <2>1, <2>2
  <2> QED
    BY <2>3, <2>4 DEF SignIns
<1>4. DeactivationEndsSessions
  BY DEF AcInv, AcOwner, DeactivationEndsSessions
<1> QED
  BY <1>1, <1>2, <1>3, <1>4

\* Only a sign-in that ends opens a session.
LEMMA OpenedBySignIn ==
    ASSUME AcInv, [Next]_vars, ~ overlap, opened' > opened
    PROVE  account'.active /\ account'.enrolled
<1>0. opened \in Nat
  BY DEF AcInv, AcTypes
<1>1. CASE \E b \in Browsers : EnrollConfirm(b) \/ Verify(b)
  BY <1>1, SignInStep
<1>2. CASE ~ \E b \in Browsers : EnrollConfirm(b) \/ Verify(b)
  <2>1. opened' = opened
    <3>1. CASE UNCHANGED vars \/ SsoCallback
      BY <3>1, SsoStep DEF vars
    <3>2. CASE \E b \in Browsers :
                   \/ \E op \in {"right", "wrong"} : LoginBegin(b, op)
                   \/ \E p \in Passwords : SetPasswordBegin(b, p)
                   \/ EnrollConfirmBegin(b)
                   \/ \E c \in codes \cup {0} : VerifyBegin(b, c)
                   \/ \E p \in Passwords : ChangePasswordBegin(b, p)
                   \/ ReenrollConfirmBegin(b)
      BY <3>2 DEF LoginBegin, SetPasswordBegin, EnrollConfirmBegin, VerifyBegin,
                  ChangePasswordBegin, ReenrollConfirmBegin, Begin
    <3>3. CASE \E b \in Browsers :
                   \/ LoginFails(b) \/ LoginPasses(b) \/ SetPassword(b) \/ ChangePassword(b)
                   \/ ReenrollConfirm(b) \/ MfaEnroll(b) \/ Reenroll(b) \/ CookieLapses(b)
      BY <3>3 DEF LoginFails, LoginPasses, SetPassword, ChangePassword, ReenrollConfirm,
                  MfaEnroll, Reenroll, CookieLapses, counters
    <3>4. CASE \/ RegenerateCodes \/ RevokeAllSessions \/ SessionExpires
               \/ \E s \in sessions : Logout(s)
      BY <3>4 DEF RegenerateCodes, RevokeAllSessions, SessionExpires, Logout, counters
    <3>5. CASE \/ \E kind \in {"local", "sso"} : InviteUser(kind)
               \/ \E active \in BOOLEAN : PatchUser(active)
               \/ ResetMfa \/ DeactivateUser \/ AnonymizeUser \/ UnlockUser \/ ResetPassword
      BY <3>5 DEF InviteUser, PatchUser, ResetMfa, DeactivateUser, AnonymizeUser, UnlockUser,
                  ResetPassword, AdminRequest
    <3>6. CASE InviteLapses \/ ExpireStaleInvites \/ LockLapses
      BY <3>6 DEF InviteLapses, ExpireStaleInvites, LockLapses, counters
    <3> QED
      BY <1>2, <3>1, <3>2, <3>3, <3>4, <3>5, <3>6 DEF Next
  <2> QED
    BY <1>0, <2>1
<1> QED
  BY <1>1, <1>2

\* The invariant holds throughout, by induction over the steps.
LEMMA AcAlways == Spec => []AcInv
BY AcInitInv, AcStep, PTL DEF Spec

\* Rows, history, codes, cookies and requests in flight have their types, the
\* history at most as many passwords as it keeps generations (models.py, auth.py).
THEOREM AccountsTypes == Spec => []TypeOK
BY AcAlways, AcInvGives, PTL

\* Over any order of the owner's and the administrators' requests, one at a
\* time, the passwords of the history differ and the newest is in force, an
\* account is marked enrolled exactly when it has a secret, and only an account
\* locked out often enough waits for an administrator (auth.py, users.py).
THEOREM CredentialsAlwaysAgree == Spec => []CredentialsAgree
BY AcAlways, AcInvGives, PTL

\* However many sign-ins are under way and however they interleave, the sessions
\* stay within the cap and what those that commit together may add; one at a
\* time, a deactivated account has none, and one is opened only for an account
\* that is active and enrolled (_enforce_session_cap, mfa_verify, users.py).
THEOREM SessionsAlwaysDue == Spec => SessionsAreDue
<1>1. AcInv /\ [Next]_vars =>
          [~ overlap /\ opened' > opened => account'.active /\ account'.enrolled]_vars
  BY OpenedBySignIn
<1>2. AcInv => SessionCap /\ DeactivationEndsSessions
  BY AcInvGives
<1> HIDE DEF AcInv, SessionCap, DeactivationEndsSessions, Next, vars
<1>3. Spec => [](SessionCap /\ DeactivationEndsSessions)
  BY <1>2, AcAlways, PTL
<1>4. Spec => SessionsNeedEnrolment
  BY <1>1, AcAlways, PTL DEF Spec, SessionsNeedEnrolment
<1> QED
  BY <1>3, <1>4 DEF SessionsAreDue
=============================================================================
