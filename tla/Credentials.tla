---------------------------- MODULE Credentials -----------------------------
(***************************************************************************)
(* Third-party credentials at rest: routers/integrations.py sets, deletes  *)
(* and tests them, crypto.py encrypts with the first configured key and    *)
(* decrypts with any, credential_rotation.py re-encrypts.                  *)
(*                                                                         *)
(* A row is read first and written at the end, and of a row only the       *)
(* columns whose value changed.  With `crOverlap' others may commit in     *)
(* between.  The keys are configuration: they change between requests, as  *)
(* the processes restart with them.                                        *)
(***************************************************************************)
EXTENDS Integers, Sequences

CONSTANTS Connectors, Secrets, Labels, FirstLabel,
          CrRequests,        \* requests and commands in flight at a time
          CrMax              \* bound on the requests served

ASSUME CrAssumption ==
    FirstLabel \in Labels /\ CrMax \in Nat /\ "none" \notin Secrets \cup Labels

VARIABLES crRow,       \* connector -> row
          crKeys,      \* the configured labels, the primary first
          crLatest,    \* history: connector -> the credential last set, or None
          crSettled,   \* history: a rotation succeeded under the present keys
          crCareful,   \* history: no label was dropped before such a rotation
          crTxn, crServed, crOverlap

crVars == <<crRow, crKeys, crLatest, crSettled, crCareful, crTxn, crServed, crOverlap>>

None == "none"
CrIdle == [op |-> "idle"]
Primary == Head(crKeys)
Configured == {crKeys[i] : i \in 1..Len(crKeys)}

\* The ciphertext is a secret and the key it is under; `label' is the column
\* beside it, `tested' the credential that last_test_ok is about.
IntegrationConnection == [secret : Secrets \cup {None}, under : Labels \cup {None},
                          label : Labels \cup {None}, tested : Secrets \cup {None}]
NoCredential == [secret |-> None, under |-> None, label |-> None, tested |-> None]

CrTypeOK ==
    /\ crRow \in [Connectors -> IntegrationConnection]
    /\ \A c \in Connectors : (crRow[c].secret = None) = (crRow[c].under = None)
    /\ crKeys \in Seq(Labels) /\ crKeys # << >>
    /\ crLatest \in [Connectors -> Secrets \cup {None}]
    /\ {crSettled, crCareful, crOverlap} \subseteq BOOLEAN
    /\ \A q \in CrRequests : crTxn[q].op \in {"idle", "write", "test", "rotate"}
    /\ crServed \in 0..CrMax

CrInit ==
    /\ crRow = [c \in Connectors |-> NoCredential]
    /\ crKeys = <<FirstLabel>>
    /\ crLatest = [c \in Connectors |-> None]
    /\ crSettled = FALSE /\ crCareful = TRUE
    /\ crTxn = [q \in CrRequests |-> CrIdle]
    /\ crServed = 0 /\ crOverlap \in BOOLEAN

CrQuiet == \A q \in CrRequests : crTxn[q] = CrIdle

CrBegin(q, read) ==
    /\ crTxn[q] = CrIdle /\ (crOverlap \/ CrQuiet)
    /\ crServed < CrMax /\ crServed' = crServed + 1
    /\ crTxn' = [crTxn EXCEPT ![q] = read]
    /\ UNCHANGED <<crRow, crKeys, crLatest, crSettled, crCareful, crOverlap>>

CrEnd(q) ==
    /\ crTxn' = [crTxn EXCEPT ![q] = CrIdle]
    /\ UNCHANGED <<crKeys, crCareful, crServed, crOverlap>>

\* The columns of the row that differ from what was read.
Columns(row, read, new) ==
    [f \in DOMAIN row |-> IF new[f] = read[f] THEN row[f] ELSE new[f]]

\* MultiFernet over the configured keys.
DecryptCredential(row) == row.under \in Configured

-----------------------------------------------------------------------------

\* A new ciphertext under the primary key, and no test result.
EncryptCredential(row, s) ==
    [secret |-> s, under |-> Primary, label |-> Primary, tested |-> None]

SetCredentialBegin(q, c, s) ==
    CrBegin(q, [op |-> "write", c |-> c, read |-> crRow[c],
                new |-> EncryptCredential(crRow[c], s)])

DeleteCredentialBegin(q, c) ==
    /\ crRow[c].secret # None
    /\ CrBegin(q, [op |-> "write", c |-> c, read |-> crRow[c], new |-> NoCredential])

\* The ciphertext is never the same twice, so that column is always written.
SetOrDelete(q) ==
    LET t == crTxn[q]
    IN /\ t.op = "write"
       /\ crRow' = [crRow EXCEPT ![t.c] =
                       [Columns(@, t.read, t.new) EXCEPT !.secret = t.new.secret,
                                                         !.under = t.new.under]]
       /\ crLatest' = [crLatest EXCEPT ![t.c] = t.new.secret]
       /\ CrEnd(q)
       /\ UNCHANGED crSettled

TestConnectionBegin(q, c) ==
    /\ crRow[c].secret # None
    /\ CrBegin(q, [op |-> "test", c |-> c, read |-> crRow[c]])

\* The service answers, or the row could not be decrypted: a result either way.
TestConnection(q) ==
    LET t == crTxn[q]
    IN /\ t.op = "test"
       /\ crRow' = [crRow EXCEPT ![t.c].tested = t.read.secret]
       /\ CrEnd(q)
       /\ UNCHANGED <<crLatest, crSettled>>

-----------------------------------------------------------------------------

RotateBegin(q) == CrBegin(q, [op |-> "rotate", rows |-> crRow])

\* Mutant: only rows without a label are rotated.
NeedsRotation_unlabelled(rows) ==
    {c \in Connectors : rows[c].secret # None /\ rows[c].label = None}

NeedsRotation(rows) ==
    {c \in Connectors : rows[c].secret # None /\ rows[c].label # Primary}

RotationFails(rows) == \E c \in NeedsRotation(rows) : ~ DecryptCredential(rows[c])

\* Every row is decrypted before any is written; a failure, or a dry run, rolls
\* back.
RotateCredentialKeys(q, dry) ==
    LET rows == crTxn[q].rows
        go   == ~ dry /\ ~ RotationFails(rows)
        do   == {c \in NeedsRotation(rows) : go /\ DecryptCredential(rows[c])}
    IN /\ crTxn[q].op = "rotate"
       /\ crRow' = [c \in Connectors |->
                       IF c \in do
                       THEN [crRow[c] EXCEPT !.secret = rows[c].secret, !.under = Primary,
                                             !.label = Primary]
                       ELSE crRow[c]]
       /\ crSettled' = (crSettled \/ go)
       /\ CrEnd(q)
       /\ UNCHANGED crLatest

\* The operator prepends a key.
AddKey(l) ==
    /\ CrQuiet /\ l \notin Configured
    /\ crServed < CrMax /\ crServed' = crServed + 1
    /\ crKeys' = <<l>> \o crKeys
    /\ crSettled' = FALSE
    /\ UNCHANGED <<crRow, crLatest, crCareful, crTxn, crOverlap>>

\* The operator drops the oldest key, after a rotation or, by mistake, before.
DropKey ==
    /\ CrQuiet /\ Len(crKeys) > 1
    /\ crServed < CrMax /\ crServed' = crServed + 1
    /\ crKeys' = SubSeq(crKeys, 1, Len(crKeys) - 1)
    /\ crCareful' = (crCareful /\ crSettled)
    /\ UNCHANGED <<crRow, crLatest, crSettled, crTxn, crOverlap>>

CrNext ==
    \/ \E q \in CrRequests, c \in Connectors :
           \/ \E s \in Secrets : SetCredentialBegin(q, c, s)
           \/ DeleteCredentialBegin(q, c) \/ TestConnectionBegin(q, c)
    \/ \E q \in CrRequests :
           \/ SetOrDelete(q) \/ TestConnection(q) \/ RotateBegin(q)
           \/ \E dry \in BOOLEAN : RotateCredentialKeys(q, dry)
    \/ \E l \in Labels : AddKey(l)
    \/ DropKey

-----------------------------------------------------------------------------

\* Dropping an old key is safe after a rotation that reported no failure: every
\* stored credential can still be decrypted, whatever was set while the
\* rotation ran (crypto.py promises this of rotate_credential_keys).
StoredStaysReadable ==
    crCareful => \A c \in Connectors : crRow[c].secret # None => DecryptCredential(crRow[c])

\* What is stored is what was last set or deleted.  A rotation that overlaps a
\* change can break it: it writes back the credential it read.
StoredIsLatest == ~ crOverlap => \A c \in Connectors : crRow[c].secret = crLatest[c]

\* The label beside a stored credential names the key it is under, so that a
\* rotation that skips the rows labelled with the primary key skips none that
\* needs the old one.  A credential set while the same one is deleted can end
\* up without a label.
LabelTellsTheKey == ~ crOverlap => \A c \in Connectors : crRow[c].label = crRow[c].under

\* A test result shown beside a credential is about that credential.  A test
\* that is under way while the credential is replaced can break it.
VerdictIsOfThisCredential ==
    ~ crOverlap => \A c \in Connectors : crRow[c].tested \in {None, crRow[c].secret}

\* A stored credential can be read after a rotation, is the one last set, and its
\* label and verdict are about it (set_credential, delete_credential,
\* test_connection, rotate_credential_keys).
CredentialsAreSound ==
    StoredStaysReadable /\ StoredIsLatest /\ LabelTellsTheKey /\ VerdictIsOfThisCredential
=============================================================================
