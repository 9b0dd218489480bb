------------------------------ MODULE Custody -------------------------------
(***************************************************************************)
(* Files in the object store and the rows that name them, the snapshots    *)
(* taken of both, and their restore (storage.py, the upload and delete     *)
(* handlers of the routers, snapshots.py).                                 *)
(*                                                                         *)
(* No transaction spans the database and the bucket, so every handler is   *)
(* modelled in the order of its calls, and may end after any of them.  A   *)
(* key holds a fresh UUID and its bytes never change: a file is its key.   *)
(***************************************************************************)
EXTENDS Integers, FiniteSets, FiniteSetsExt

CONSTANTS Keys,                \* object keys
          CuRequests,          \* requests in flight at a time
          CuMax,               \* bound on requests
          Keep, SnapCap,       \* the settings keep and max_total_bytes
          MaxSnaps,            \* bound on snapshots begun
          CuCrashMax           \* bound on snapshots and restores that break off

ASSUME CuAssumption ==
    /\ Keep \in Nat \ {0} /\ SnapCap \in Nat /\ MaxSnaps \in Nat
    /\ CuMax \in Nat /\ CuCrashMax \in Nat

VARIABLES cuRow,       \* key -> the kind of row that names it, or "none"
          cuObjects,   \* keys in the bucket
          cuTxn,       \* request -> what it has done so far
          cuHalf,      \* history: keys whose object delete_document removed
          cuDropped,   \* history: keys removed from the bucket
          cuSets,      \* number of a complete snapshot -> manifest
          cuPartial,   \* the number of a .partial directory, 0 if there is none
          cuSnap,      \* the snapshot command
          cuTarget,    \* the database and bucket a snapshot is restored into
          cuServed, cuBegun, cuBroken

cuStore == <<cuRow, cuObjects, cuTxn, cuHalf, cuDropped, cuServed>>
cuShelf == <<cuSets, cuPartial, cuSnap, cuBegun>>
cuVars == <<cuStore, cuShelf, cuTarget, cuBroken>>

Kinds == {"evidence", "document", "logo"}
CuIdle == [op |-> "idle"]
Manifest == [refs : SUBSET Keys, objs : SUBSET Keys, missing : SUBSET Keys]
SnapIdle == [stage |-> "idle", sid |-> 0, refs |-> {}, todo |-> {}, copied |-> {}, rotate |-> {}]
EmptyTarget == [stage |-> "empty", sid |-> 0, refs |-> {}, items |-> {}, objs |-> {}]

\* _referenced_keys: the columns that hold an object key.
ReferencedKeys == {k \in Keys : cuRow[k] # "none"}

\* complete_snapshots: the directories with a manifest.
CompleteSnapshots == DOMAIN cuSets

CuTypeOK ==
    /\ cuRow \in [Keys -> Kinds \cup {"none"}]
    /\ cuObjects \subseteq Keys /\ cuHalf \subseteq Keys /\ cuDropped \subseteq Keys
    /\ Cardinality({k \in Keys : cuRow[k] = "logo"}) <= 1
    /\ \A q \in CuRequests : cuTxn[q].op \in {"idle", "put", "old", "delete"}
    /\ CompleteSnapshots \subseteq 1..MaxSnaps
    /\ \A s \in CompleteSnapshots : cuSets[s] \in Manifest
    /\ cuPartial \in 0..MaxSnaps /\ cuPartial \notin CompleteSnapshots
    /\ cuSnap.stage \in {"idle", "dump", "copy", "rotate"}
    /\ cuSnap.rotate \subseteq CompleteSnapshots
    /\ cuTarget.stage \in {"empty", "objects", "done", "torn"}
    /\ cuServed \in 0..CuMax /\ cuBegun \in 0..MaxSnaps /\ cuBroken \in 0..CuCrashMax

CuInit ==
    /\ cuRow = [k \in Keys |-> "none"]
    /\ cuObjects = {} /\ cuHalf = {} /\ cuDropped = {}
    /\ cuTxn = [q \in CuRequests |-> CuIdle]
    /\ cuSets = [s \in {} |-> {}]
    /\ cuPartial = 0 /\ cuSnap = SnapIdle /\ cuTarget = EmptyTarget
    /\ cuServed = 0 /\ cuBegun = 0 /\ cuBroken = 0

CuSet(q, t) == cuTxn' = [cuTxn EXCEPT ![q] = t]
CuElse == UNCHANGED <<cuShelf, cuTarget, cuBroken>>

-----------------------------------------------------------------------------

\* Uploads and deletions.

LogoKey == {k \in Keys : cuRow[k] = "logo"}
Unused(k) ==
    /\ cuRow[k] = "none" /\ k \notin cuObjects \cup cuDropped
    /\ \A q \in CuRequests : cuTxn[q].op = "delete" => cuTxn[q].keys # {k}

\* storage.upload_file, after the checks of the handler and before its row.
UploadFile(q, k, kind) ==
    /\ cuTxn[q] = CuIdle /\ Unused(k) /\ cuServed < CuMax
    /\ cuServed' = cuServed + 1
    /\ cuObjects' = cuObjects \cup {k}
    /\ CuSet(q, [op |-> "put", kind |-> kind, keys |-> {k},
                 old |-> IF kind = "logo" THEN LogoKey ELSE {}])
    /\ UNCHANGED <<cuRow, cuHalf, cuDropped>> /\ CuElse

UploadEvidence(q, k) == UploadFile(q, k, "evidence")

\* For a task: the evidence is linked to every objective of it in the same
\* transaction.
CollectTaskEvidenceFile(q, k) == UploadFile(q, k, "evidence")

\* A new evidence row takes the place in the system description; the one that
\* was there remains.
UploadDiagram(q, k) == UploadFile(q, k, "evidence")

UploadDocument(q, k) == UploadFile(q, k, "document")
UploadLogo(q, k) == UploadFile(q, k, "logo")

\* fetch_research_url stores every page before it writes their rows.
FetchPage(q, k) ==
    /\ cuTxn[q].op = "put" /\ cuTxn[q].kind = "document" /\ Unused(k)
    /\ cuObjects' = cuObjects \cup {k}
    /\ CuSet(q, [cuTxn[q] EXCEPT !.keys = @ \cup {k}])
    /\ UNCHANGED <<cuRow, cuHalf, cuDropped, cuServed>> /\ CuElse

\* The row, or rows.  A logo replaces the one that is there by now.
CommitRow(q) ==
    LET t == cuTxn[q]
    IN /\ t.op = "put"
       /\ cuRow' = [k \in Keys |-> IF k \in t.keys THEN t.kind
                                   ELSE IF t.kind = "logo" /\ cuRow[k] = "logo" THEN "none"
                                   ELSE cuRow[k]]
       /\ CuSet(q, IF t.old # {} THEN [t EXCEPT !.op = "old"] ELSE CuIdle)
       /\ UNCHANGED <<cuObjects, cuHalf, cuDropped, cuServed>> /\ CuElse

\* After the commit the logo that was read first is removed.
DropOldLogo(q) ==
    LET t == cuTxn[q]
    IN /\ t.op = "old"
       /\ cuObjects' = cuObjects \ t.old
       /\ cuDropped' = cuDropped \cup t.old
       /\ CuSet(q, CuIdle)
       /\ UNCHANGED <<cuRow, cuHalf, cuServed>> /\ CuElse

\* delete_document: the object first.
DeleteObject(q, k) ==
    /\ cuTxn[q] = CuIdle /\ cuRow[k] = "document" /\ cuServed < CuMax
    /\ cuServed' = cuServed + 1
    /\ cuObjects' = cuObjects \ {k}
    /\ cuDropped' = cuDropped \cup {k} /\ cuHalf' = cuHalf \cup {k}
    /\ CuSet(q, [op |-> "delete", keys |-> {k}])
    /\ UNCHANGED cuRow /\ CuElse

DeleteRow(q) ==
    /\ cuTxn[q].op = "delete"
    /\ cuRow' = [k \in Keys |-> IF k \in cuTxn[q].keys THEN "none" ELSE cuRow[k]]
    /\ CuSet(q, CuIdle)
    /\ UNCHANGED <<cuObjects, cuHalf, cuDropped, cuServed>> /\ CuElse

\* The request ends before its next call: the commit fails, the process dies,
\* or (for the old logo) the exception is swallowed.
BreakOff(q) ==
    /\ cuTxn[q] # CuIdle
    /\ CuSet(q, CuIdle)
    /\ UNCHANGED <<cuRow, cuObjects, cuHalf, cuDropped, cuServed>> /\ CuElse

-----------------------------------------------------------------------------

\* Snapshots.  One at a time: flock.

Newest(n, S) == {s \in S : Cardinality({t \in S : t > s}) < n}
Bytes(objs) == 1 + Cardinality(objs)

\* Mutant: the new snapshot is counted twice.
Rotated_early(existing) == existing \ Newest(Keep - 2, existing)

\* plan_space: what is deleted once the new snapshot is complete.
Rotated(existing) == existing \ Newest(Keep - 1, existing)

PlanSpace(existing) ==
    LET Size(s) == Bytes(cuSets[s].objs)
    IN MapThenSumSet(Size, existing \ Rotated(existing)) + Bytes(cuObjects) <= SnapCap

\* The database is exported with the keys it names, and only then dumped.
SnapshotBegin ==
    /\ cuSnap = SnapIdle /\ cuBegun < MaxSnaps
    /\ cuBegun' = cuBegun + 1
    /\ PlanSpace(CompleteSnapshots)
    /\ cuPartial' = cuBegun + 1
    /\ cuSnap' = [SnapIdle EXCEPT !.stage = "dump", !.sid = cuBegun + 1,
                                  !.refs = ReferencedKeys,
                                  !.rotate = Rotated(CompleteSnapshots)]
    /\ UNCHANGED <<cuStore, cuSets, cuTarget, cuBroken>>

\* Unfinished snapshots are cleared away first; too little room ends it there.
SnapshotRefused ==
    /\ cuSnap = SnapIdle /\ cuBegun < MaxSnaps
    /\ cuBegun' = cuBegun + 1
    /\ cuPartial' = 0
    /\ UNCHANGED <<cuStore, cuSets, cuSnap, cuTarget, cuBroken>>

\* _copy_objects: the bucket is listed after the dump, and copied one by one.
ListObjects ==
    /\ cuSnap.stage = "dump"
    /\ cuSnap' = [cuSnap EXCEPT !.stage = "copy", !.todo = cuObjects]
    /\ UNCHANGED <<cuStore, cuSets, cuPartial, cuBegun, cuTarget, cuBroken>>

CopyObject(k) ==
    /\ cuSnap.stage = "copy" /\ k \in cuSnap.todo /\ k \in cuObjects
    /\ cuSnap' = [cuSnap EXCEPT !.todo = @ \ {k}, !.copied = @ \cup {k}]
    /\ UNCHANGED <<cuStore, cuSets, cuPartial, cuBegun, cuTarget, cuBroken>>

\* A listed object is gone when it is opened: the snapshot is given up.
CopyFails(k) ==
    /\ cuSnap.stage = "copy" /\ k \in cuSnap.todo /\ k \notin cuObjects
    /\ cuSnap' = SnapIdle /\ cuPartial' = 0
    /\ UNCHANGED <<cuStore, cuSets, cuBegun, cuTarget, cuBroken>>

Shelve(sid, m) ==
    [s \in CompleteSnapshots \cup {sid} |-> IF s = sid THEN m ELSE cuSets[s]]

\* Mutant: the database is dumped after the objects were copied.
WriteManifest_late ==
    LET s == cuSnap
    IN /\ s.stage = "copy" /\ s.todo = {}
       /\ cuSets' = Shelve(s.sid, [refs |-> ReferencedKeys, objs |-> s.copied,
                                   missing |-> ReferencedKeys \ s.copied])
       /\ cuPartial' = 0
       /\ cuSnap' = [s EXCEPT !.stage = "rotate"]
       /\ UNCHANGED <<cuStore, cuBegun, cuTarget, cuBroken>>

\* The manifest, and the rename that makes the snapshot complete.
WriteManifest ==
    LET s == cuSnap
    IN /\ s.stage = "copy" /\ s.todo = {}
       /\ cuSets' = Shelve(s.sid, [refs |-> s.refs, objs |-> s.copied,
                                   missing |-> s.refs \ s.copied])
       /\ cuPartial' = 0
       /\ cuSnap' = [s EXCEPT !.stage = "rotate"]
       /\ UNCHANGED <<cuStore, cuBegun, cuTarget, cuBroken>>

RotateOut(s) ==
    /\ cuSnap.stage = "rotate" /\ s \in cuSnap.rotate
    /\ \A t \in cuSnap.rotate : s <= t
    /\ cuSets' = [t \in CompleteSnapshots \ {s} |-> cuSets[t]]
    /\ cuSnap' = [cuSnap EXCEPT !.rotate = @ \ {s}]
    /\ UNCHANGED <<cuStore, cuPartial, cuBegun, cuTarget, cuBroken>>

SnapshotEnd ==
    /\ cuSnap.stage = "rotate" /\ cuSnap.rotate = {}
    /\ cuSnap' = SnapIdle
    /\ UNCHANGED <<cuStore, cuSets, cuPartial, cuBegun, cuTarget, cuBroken>>

\* The machine stops, or pg_dump fails: what is on disk stays.
SnapshotCrash ==
    /\ cuSnap # SnapIdle /\ cuBroken < CuCrashMax
    /\ cuBroken' = cuBroken + 1
    /\ cuSnap' = SnapIdle
    /\ UNCHANGED <<cuStore, cuSets, cuPartial, cuBegun, cuTarget>>

-----------------------------------------------------------------------------

\* Restore and verify.

TargetIsEmpty == cuTarget.stage = "empty" /\ cuTarget.objs = {}

\* validate_set, the two emptiness checks, and pg_restore in one transaction.
RestoreDatabase(s) ==
    /\ s \in CompleteSnapshots /\ TargetIsEmpty
    /\ cuTarget' = [cuTarget EXCEPT !.stage = "objects", !.sid = s,
                                    !.refs = cuSets[s].refs, !.items = cuSets[s].objs]
    /\ UNCHANGED <<cuStore, cuShelf, cuBroken>>

\* The file is read from the set when its turn comes.
RestoreObject(k) ==
    /\ cuTarget.stage = "objects" /\ k \in cuTarget.items \ cuTarget.objs
    /\ cuTarget.sid \in CompleteSnapshots
    /\ cuTarget' = [cuTarget EXCEPT !.objs = @ \cup {k}]
    /\ UNCHANGED <<cuStore, cuShelf, cuBroken>>

\* Done with the objects, or with --skip-objects without them.
RestoreEnd(skip) ==
    /\ cuTarget.stage = "objects"
    /\ IF skip THEN cuTarget.objs = {} ELSE cuTarget.items \subseteq cuTarget.objs
    /\ cuTarget' = [cuTarget EXCEPT !.stage = "done"]
    /\ UNCHANGED <<cuStore, cuShelf, cuBroken>>

\* The command stops, or its set is rotated out under it.
RestoreBreaks ==
    /\ cuTarget.stage = "objects" /\ cuBroken < CuCrashMax
    /\ cuBroken' = cuBroken + 1
    /\ cuTarget' = [cuTarget EXCEPT !.stage = "torn"]
    /\ UNCHANGED <<cuStore, cuShelf>>

\* The operator drops the database, and may or may not empty the bucket.
DropTarget(bucket) ==
    /\ cuTarget.stage \in {"done", "torn"}
    /\ cuTarget' = [EmptyTarget EXCEPT !.objs = IF bucket THEN {} ELSE cuTarget.objs]
    /\ UNCHANGED <<cuStore, cuShelf, cuBroken>>

CheckReferences(m) ==
    \A k \in cuTarget.refs : k \notin m.missing /\ k \in cuTarget.objs /\ k \in m.objs

CheckObjectSet(m) == cuTarget.objs = m.objs

\* verify against the set the target was restored from.
VerifyPasses ==
    /\ cuTarget.sid \in CompleteSnapshots
    /\ CheckReferences(cuSets[cuTarget.sid]) /\ CheckObjectSet(cuSets[cuTarget.sid])

CuNext ==
    \/ \E q \in CuRequests, k \in Keys :
           \/ UploadEvidence(q, k) \/ CollectTaskEvidenceFile(q, k) \/ UploadDiagram(q, k)
           \/ UploadDocument(q, k) \/ UploadLogo(q, k)
           \/ FetchPage(q, k) \/ DeleteObject(q, k)
    \/ \E q \in CuRequests : CommitRow(q) \/ DropOldLogo(q) \/ DeleteRow(q) \/ BreakOff(q)
    \/ SnapshotBegin \/ SnapshotRefused \/ ListObjects \/ WriteManifest \/ SnapshotEnd
    \/ SnapshotCrash
    \/ \E k \in Keys : CopyObject(k) \/ CopyFails(k) \/ RestoreObject(k)
    \/ \E s \in 1..MaxSnaps : RotateOut(s) \/ RestoreDatabase(s)
    \/ \E b \in BOOLEAN : RestoreEnd(b) \/ DropTarget(b)
    \/ RestoreBreaks

-----------------------------------------------------------------------------

\* A row names an object that is in the bucket, whatever request fails after
\* whichever call and however uploads overlap, except where delete_document
\* removed the object and its commit is still to come or never came.
RowsHaveTheirObject ==
    \A k \in ReferencedKeys \ cuObjects : cuRow[k] = "document" /\ k \in cuHalf

\* A snapshot taken while people work is whole: the only keys it lists as
\* missing are ones that a request removed from the bucket.  Files are stored
\* before their rows and copied after the dump, so an upload in the window
\* leaves at most an object that no row names.
SnapshotIsWhole == \A s \in CompleteSnapshots : cuSets[s].missing \subseteq cuDropped

\* Taking a snapshot never costs one of the newest `keep' that were there,
\* whether it is refused, fails, or stops anywhere between the rename and the
\* last deletion.
KeepsTheNewest == [][Newest(Keep, CompleteSnapshots) \subseteq CompleteSnapshots']_cuVars

\* A restored bucket holds objects of one snapshot only, the one its database
\* came from, across broken restores and new attempts.
NoMixedRestore == cuTarget.stage # "empty" => cuTarget.objs \subseteq cuTarget.items

\* When verify passes, every row of the restored database has its object: a
\* restore that broke off, skipped the objects, or came from a snapshot with
\* missing keys does not pass.
VerifiedIsUsable ==
    cuTarget.stage # "empty" /\ VerifyPasses => cuTarget.refs \subseteq cuTarget.objs

\* No row without its object, in the live store, in a snapshot and in what was
\* restored from one, whichever request, snapshot or restore stops where.
FilesAreSafe == RowsHaveTheirObject /\ SnapshotIsWhole /\ NoMixedRestore /\ VerifiedIsUsable
=============================================================================
