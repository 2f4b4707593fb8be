---------------------------- MODULE VaultSecrets ----------------------------
(***************************************************************************)
(* One key of the vault (vault.service.ts) and the two jobs that look for  *)
(* rows whose time has come (vault-release.job.ts, vault-expiry.job.ts).   *)
(* A job and the manual release read the row first and write it by its id; *)
(* a store in between keeps the id.                                        *)
(***************************************************************************)
EXTENDS Integers, FiniteSets

CONSTANTS
  Client,          \* members of the workspace who edit the secret
  Horizon,         \* time runs from 0 to Horizon
  MaxBlobs,        \* bound: uploads
  MaxVaultFaults   \* bound: crashes and failed writes

ASSUME VaultAssumption ==
  IsFiniteSet(Client) /\ Horizon \in Nat /\ MaxBlobs \in Nat /\ MaxVaultFaults \in Nat

VARIABLES
  secret,      \* the row of vault_secrets, or Absent
  view,        \* per client: the row as last listed, or Absent
  now,
  release, expiry, manual,  \* what the jobs and a manual release hold
  blobs, rows,              \* uploads and rows there have been
  locks, notices,           \* history: stores with a lock, release notifications
  vaultFaults

vaultVars == <<secret, view, now, release, expiry, manual, blobs, rows, locks, notices, vaultFaults>>

Never == Horizon + 1    \* releaseAt or expiresAt is null
Moment == 1..Never      \* what is stored with an instant in the past is due at once
Absent == [id |-> 0]
Exists == secret # Absent
Waiting == [at |-> "wait"]

\* What a process does next with the row of this id, and the blob it read there.
Holding(step) == [at |-> step, id |-> secret.id, blob |-> secret.blob]

VaultInit ==
  /\ secret = Absent /\ view = [c \in Client |-> Absent] /\ now = 0
  /\ release = Waiting /\ expiry = Waiting /\ manual = Waiting
  /\ blobs = 0 /\ rows = 0 /\ locks = 0 /\ notices = 0 /\ vaultFaults = 0

----------------------------------------------------------------------------
(* Requests.                                                               *)

ListSecrets(c) ==
  /\ view[c] # secret /\ view' = [view EXCEPT ![c] = secret]
  /\ UNCHANGED <<secret, now, release, expiry, manual, blobs, rows, locks, notices, vaultFaults>>

\* An upsert: the id and the count of versions stay with an existing row.
StoreSecret(releaseAt, expiresAt) ==
  /\ blobs < MaxBlobs /\ blobs' = blobs + 1
  /\ rows' = IF Exists THEN rows ELSE rows + 1
  /\ secret' = [id |-> IF Exists THEN secret.id ELSE rows',
                version |-> IF Exists THEN secret.version + 1 ELSE 1,
                blob |-> blobs', releaseAt |-> releaseAt, expiresAt |-> expiresAt,
                isReleased |-> releaseAt = Never]
  /\ locks' = IF releaseAt = Never THEN locks ELSE locks + 1
  /\ UNCHANGED <<view, now, release, expiry, manual, notices, vaultFaults>>

\* Slip: the version is not part of the where clause.
AnyVersion(c) == view[c] # Absent /\ Exists
SameVersion(c) == view[c] # Absent /\ Exists /\ secret.version = view[c].version

UpdateSecret(c) ==
  /\ SameVersion(c)
  /\ blobs < MaxBlobs /\ blobs' = blobs + 1
  /\ secret' = [secret EXCEPT !.blob = blobs', !.version = @ + 1]
  /\ UNCHANGED <<view, now, release, expiry, manual, rows, locks, notices, vaultFaults>>

DeleteSecret(c) ==
  /\ SameVersion(c) /\ secret' = Absent
  /\ UNCHANGED <<view, now, release, expiry, manual, blobs, rows, locks, notices, vaultFaults>>

ManualRead ==
  /\ manual = Waiting /\ Exists /\ manual' = Holding("update")
  /\ UNCHANGED <<secret, view, now, release, expiry, blobs, rows, locks, notices, vaultFaults>>

\* A write by id; it throws where the row is gone.
Released(held) ==
  IF secret.id = held.id THEN [secret EXCEPT !.isReleased = TRUE] ELSE secret

ManualRelease ==
  /\ manual.at = "update" /\ manual' = Waiting /\ secret' = Released(manual)
  /\ UNCHANGED <<view, now, release, expiry, blobs, rows, locks, notices, vaultFaults>>

----------------------------------------------------------------------------
(* The jobs.                                                               *)

\* Slip: rows released before are found again.
DueOrReleased == Exists /\ secret.releaseAt =< now
IsDue == Exists /\ ~secret.isReleased /\ secret.releaseAt =< now
\* Slip: a row without an expiry is found too.
ExpiredOrNever == Exists /\ (secret.expiresAt =< now \/ secret.expiresAt = Never)
IsExpired == Exists /\ secret.expiresAt =< now

FindReleases ==
  /\ release = Waiting /\ IsDue /\ release' = Holding("update")
  /\ UNCHANGED <<secret, view, now, expiry, manual, blobs, rows, locks, notices, vaultFaults>>

AutoRelease ==
  /\ release.at = "update"
  /\ secret' = Released(release)
  /\ release' = IF secret.id = release.id THEN [release EXCEPT !.at = "notify"] ELSE Waiting
  /\ UNCHANGED <<view, now, expiry, manual, blobs, rows, locks, notices, vaultFaults>>

NotifyRelease ==
  /\ release.at = "notify" /\ release' = Waiting /\ notices' = notices + 1
  /\ UNCHANGED <<secret, view, now, expiry, manual, blobs, rows, locks, vaultFaults>>

FindExpired ==
  /\ expiry = Waiting /\ IsExpired /\ expiry' = Holding("delete")
  /\ UNCHANGED <<secret, view, now, release, manual, blobs, rows, locks, notices, vaultFaults>>

DeleteExpired ==
  /\ expiry.at = "delete" /\ expiry' = Waiting
  /\ secret' = IF secret.id = expiry.id THEN Absent ELSE secret
  /\ UNCHANGED <<view, now, release, manual, blobs, rows, locks, notices, vaultFaults>>

Tick ==
  /\ now < Horizon /\ now' = now + 1
  /\ UNCHANGED <<secret, view, release, expiry, manual, blobs, rows, locks, notices, vaultFaults>>

\* A write of a job fails and is logged, or the server crashes with what it holds.
VaultFault ==
  /\ vaultFaults < MaxVaultFaults /\ vaultFaults' = vaultFaults + 1
  /\ \/ release # Waiting /\ release' = Waiting /\ UNCHANGED <<expiry, manual>>
     \/ expiry # Waiting /\ expiry' = Waiting /\ UNCHANGED <<release, manual>>
     \/ release' = Waiting /\ expiry' = Waiting /\ manual' = Waiting
  /\ UNCHANGED <<secret, view, now, blobs, rows, locks, notices>>

VaultNext ==
  \/ \E c \in Client : ListSecrets(c) \/ UpdateSecret(c) \/ DeleteSecret(c)
  \/ \E releaseAt, expiresAt \in Moment : StoreSecret(releaseAt, expiresAt)
  \/ ManualRead \/ ManualRelease
  \/ FindReleases \/ AutoRelease \/ NotifyRelease \/ FindExpired \/ DeleteExpired
  \/ Tick \/ VaultFault

ReleaseSteps == FindReleases \/ AutoRelease \/ NotifyRelease
ExpirySteps == FindExpired \/ DeleteExpired

VaultSpec == VaultInit /\ [][VaultNext]_vaultVars
             /\ WF_vaultVars(ReleaseSteps) /\ WF_vaultVars(ExpirySteps)

----------------------------------------------------------------------------
\* The row has its type; what has no lock is released.
VaultTypeOK ==
  /\ Exists =>
       /\ secret.id \in 1..rows /\ secret.blob \in 1..blobs /\ secret.version \in 1..MaxBlobs
       /\ secret.releaseAt \in Moment /\ secret.expiresAt \in Moment
       /\ (secret.isReleased \/ secret.releaseAt # Never)
  /\ release.at \in {"wait", "update", "notify"}
  /\ expiry.at \in {"wait", "delete"} /\ manual.at \in {"wait", "update"}

\* A lock opens before its time, and a secret goes before its expiry, only by
\* a member's hand or by a job that found other content under the same id.
JobsActInTime ==
  [][ /\ (Exists /\ ~secret.isReleased /\ secret'.id = secret.id /\ secret'.blob = secret.blob
            /\ secret'.isReleased)
           => secret.releaseAt =< now \/ manual # Waiting \/ release.blob # secret.blob
      /\ (DeleteExpired /\ Exists /\ secret' = Absent)
           => secret.expiresAt =< now \/ expiry.blob # secret.blob ]_vaultVars

\* An update or a deletion replaces the content its client saw, unless the row
\* seen has been deleted and its key stored again with versions from 1.
ReplacesWhatWasSeen ==
  [][ \A c \in Client : UpdateSecret(c) \/ DeleteSecret(c) =>
        secret.blob = view[c].blob \/ secret.id # view[c].id ]_vaultVars

\* One lock is announced as opened once at most.
OneNoticePerLock == notices =< locks

\* A lock that is due is opened and what has expired goes, or it is replaced.
TimeIsKept == []<>(~IsDue /\ ~IsExpired)

\* The vault opens and deletes in time, tells it once, and a client replaces
\* the content it saw.
VaultSafety == []OneNoticePerLock /\ JobsActInTime /\ ReplacesWhatWasSeen
=============================================================================
