------------------------- MODULE CredentialProfile -------------------------
(***************************************************************************)
(* A credential profile: its metadata are a row of PostgreSQL, its secret  *)
(* is in a vault, and no transaction spans the two                         *)
(* (web/credential_service.py, web/postgres_control_store.py,              *)
(* credentials.py).  The calls are requests with one idempotency key, and  *)
(* requests about the profile that they make.  The secret a call brings is *)
(* named by the call, and so is the locator under which it puts it.        *)
(***************************************************************************)
EXTENDS Naturals, FiniteSets

CONSTANTS
    Calls,
    MaxOutages      \* calls of the store or the vault that fail, processes that die

ASSUME CredentialAssumption == MaxOutages \in Nat

VARIABLES
    profile,        \* the row of credential_profiles
    vault,          \* the secret under each locator
    call,           \* what each call is about
    outages

profileVars == << profile, vault, call, outages >>

NoSecret == "no secret"

ProfileInit ==
    /\ profile = [status |-> "none", version |-> 0, locator |-> NoSecret, print |-> NoSecret]
    /\ vault = [c \in Calls |-> NoSecret]
    /\ call = [c \in Calls |-> [at |-> "new", version |-> 0, previous |-> NoSecret]]
    /\ outages = 0

Outage == outages < MaxOutages /\ outages' = outages + 1

Exists   == profile.status # "none"
ArchivedRow == profile.status = "ARCHIVED"
Mine     == profile.locator

GoesTo(c, at) == call' = [call EXCEPT ![c].at = at]
Stage(c, at)  == call[c].at = at

\* The row as update_credential_profile leaves it: the version is the caller's, and the
\* profile is not archived.
Updates(c, changed) ==
    /\ ~ArchivedRow /\ profile.version = call[c].version
    /\ profile' = [changed EXCEPT !.version = @ + 1]

----------------------------------------------------------------------------
(* create                                                                  *)

\* The profile of the key is returned if it is there.
BeginCreate(c) ==
    /\ Stage(c, "new")
    /\ GoesTo(c, IF Exists THEN "done" ELSE "putting")
    /\ UNCHANGED << profile, vault, outages >>

PutSecret(c) ==
    /\ Stage(c, "putting")
    /\ \/ vault' = [vault EXCEPT ![c] = c] /\ GoesTo(c, "inserting") /\ UNCHANGED outages
       \/ GoesTo(c, "failed") /\ Outage /\ UNCHANGED vault
    /\ UNCHANGED profile

\* Wrong: who finds the profile made by another goes without taking the secret back.
KeepsSecret(c) ==
    /\ Stage(c, "inserting")
    /\ IF Exists
       THEN GoesTo(c, "done") /\ UNCHANGED profile
       ELSE /\ profile' = [status |-> "ACTIVE", version |-> 1, locator |-> c, print |-> c]
            /\ GoesTo(c, "done")
    /\ UNCHANGED << vault, outages >>

\* create_credential_profile: the row, or the row another call has made.  The call may
\* fail before there is a row or, when it reads it back, after.
InsertProfile(c) ==
    /\ Stage(c, "inserting")
    /\ \/ IF Exists
          THEN GoesTo(c, "undoing") /\ UNCHANGED << profile, outages >>
          ELSE /\ profile' = [status |-> "ACTIVE", version |-> 1, locator |-> c, print |-> c]
               /\ \/ GoesTo(c, "done") /\ UNCHANGED outages
                  \/ GoesTo(c, "undoing") /\ Outage
       \/ GoesTo(c, "undoing") /\ Outage /\ UNCHANGED profile
    /\ UNCHANGED vault

\* vault.delete, when the metadata failed or were there.
UndoPut(c) ==
    /\ Stage(c, "undoing")
    /\ \/ vault' = [vault EXCEPT ![c] = NoSecret] /\ GoesTo(c, "done") /\ UNCHANGED outages
       \/ GoesTo(c, "failed") /\ Outage /\ UNCHANGED vault
    /\ UNCHANGED profile

----------------------------------------------------------------------------
(* rename, replace                                                         *)

Rename(c) ==
    /\ Stage(c, "new") /\ Exists
    /\ \/ profile.status # "ARCHIVED" /\ profile' = [profile EXCEPT !.version = @ + 1]
       \/ UNCHANGED profile                                         \* refused
    /\ GoesTo(c, "done") /\ UNCHANGED << vault, outages >>

\* The caller names the version of the profile it has seen.
BeginReplace(c) ==
    /\ Stage(c, "new") /\ Exists /\ ~ArchivedRow
    /\ call' = [call EXCEPT ![c].at = "reading", ![c].version = profile.version]
    /\ UNCHANGED << profile, vault, outages >>

ReadPrevious(c) ==
    /\ Stage(c, "reading")
    /\ \/ /\ ~ArchivedRow /\ vault[Mine] # NoSecret
          /\ call' = [call EXCEPT ![c].at = "replacing", ![c].previous = vault[Mine]]
          /\ UNCHANGED outages
       \/ (ArchivedRow \/ vault[Mine] = NoSecret) /\ GoesTo(c, "failed") /\ UNCHANGED outages
       \/ GoesTo(c, "failed") /\ Outage
    /\ UNCHANGED << profile, vault >>

\* vault.replace, of a secret that is there.
ReplaceSecret(c) ==
    /\ Stage(c, "replacing")
    /\ \/ /\ vault[Mine] # NoSecret
          /\ vault' = [vault EXCEPT ![Mine] = c] /\ GoesTo(c, "recording") /\ UNCHANGED outages
       \/ vault[Mine] = NoSecret /\ GoesTo(c, "failed") /\ UNCHANGED << vault, outages >>
       \/ GoesTo(c, "failed") /\ Outage /\ UNCHANGED vault
    /\ UNCHANGED profile

\* The update is refused for its version, or since another profile has the fingerprint.
RecordReplace(c) ==
    /\ Stage(c, "recording")
    /\ \/ /\ Updates(c, [profile EXCEPT !.status = "ACTIVE", !.print = c])
          /\ \/ GoesTo(c, "done") /\ UNCHANGED outages
             \/ GoesTo(c, "restoring") /\ Outage                     \* the answer is lost
       \/ GoesTo(c, "restoring") /\ UNCHANGED << profile, outages >>
    /\ UNCHANGED vault

\* Wrong: the secret is written whether or not there is one.
PutsBack(c) ==
    /\ Stage(c, "restoring")
    /\ vault' = [vault EXCEPT ![Mine] = call[c].previous]
    /\ GoesTo(c, "failed") /\ UNCHANGED << profile, outages >>

RestorePrevious(c) ==
    /\ Stage(c, "restoring") /\ GoesTo(c, "failed")
    /\ \/ vault[Mine] # NoSecret /\ vault' = [vault EXCEPT ![Mine] = call[c].previous]
          /\ UNCHANGED outages
       \/ vault[Mine] = NoSecret /\ UNCHANGED << vault, outages >>
       \/ Outage /\ UNCHANGED vault
    /\ UNCHANGED profile

----------------------------------------------------------------------------
(* archive                                                                 *)

BeginArchive(c) ==
    /\ Stage(c, "new") /\ Exists
    /\ call' = [call EXCEPT ![c].version = profile.version,
           ![c].at = IF ArchivedRow THEN "done"
                     ELSE IF profile.status = "DELETION_PENDING" THEN "deleting" ELSE "marking"]
    /\ UNCHANGED << profile, vault, outages >>

\* An update of archive: refused for its version, or made, or its answer is lost.
UpdatesTo(c, status, at) ==
    /\ \/ /\ Updates(c, [profile EXCEPT !.status = status])
          /\ \/ /\ call' = [call EXCEPT ![c].at = at, ![c].version = profile.version + 1]
                /\ UNCHANGED outages
             \/ GoesTo(c, "failed") /\ Outage
       \/ /\ ArchivedRow \/ profile.version # call[c].version
          /\ GoesTo(c, "failed") /\ UNCHANGED << profile, outages >>
       \/ GoesTo(c, "failed") /\ Outage /\ UNCHANGED profile
    /\ UNCHANGED vault

MarkDeletion(c) == Stage(c, "marking") /\ UpdatesTo(c, "DELETION_PENDING", "deleting")

\* The locator of a profile that another call has archived is not found.
DeleteSecret(c) ==
    /\ Stage(c, "deleting")
    /\ \/ /\ ~ArchivedRow /\ vault' = [vault EXCEPT ![Mine] = NoSecret]
          /\ GoesTo(c, "archiving") /\ UNCHANGED outages
       \/ ArchivedRow /\ GoesTo(c, "failed") /\ UNCHANGED << vault, outages >>
       \/ ~ArchivedRow /\ GoesTo(c, "excusing") /\ Outage /\ UNCHANGED vault
    /\ UNCHANGED profile

MarkUnavailable(c) == Stage(c, "excusing") /\ UpdatesTo(c, "VAULT_UNAVAILABLE", "failed")

MarkArchived(c) == Stage(c, "archiving") /\ UpdatesTo(c, "ARCHIVED", "done")

CallDies(c) ==
    /\ ~(call[c].at \in {"new", "done", "failed"})
    /\ GoesTo(c, "failed") /\ Outage /\ UNCHANGED << profile, vault >>

ProfileNext == \E c \in Calls :
    \/ BeginCreate(c) \/ PutSecret(c) \/ InsertProfile(c) \/ UndoPut(c) \/ Rename(c)
    \/ BeginReplace(c) \/ ReadPrevious(c) \/ ReplaceSecret(c) \/ RecordReplace(c)
    \/ RestorePrevious(c) \/ BeginArchive(c) \/ MarkDeletion(c) \/ DeleteSecret(c)
    \/ MarkUnavailable(c) \/ MarkArchived(c) \/ CallDies(c)

ProfileSpec == ProfileInit /\ [][ProfileNext]_profileVars

----------------------------------------------------------------------------

\* Nothing under way.
Quiet == \A c \in Calls : call[c].at \in {"new", "done", "failed"}

\* The secret of a profile that is ARCHIVED is gone for good, whatever calls raced its
\* deletion: none of them writes it back.
ArchivedSecretIsGone == ArchivedRow => vault[Mine] = NoSecret

\* No secret is left in the vault without a profile to find it by, unless something
\* failed: of several requests with one key, those that lose take theirs back.
NoOrphans ==
    Quiet /\ outages = 0 => \A c \in Calls : vault[c] # NoSecret => profile.locator = c

\* tests/test_credential_service.py:107 says that a replacement whose update fails is
\* rolled back: when nothing is under way, a secret that is in the vault is the one the
\* profile has the fingerprint of, and no failed call has put another in its place.
SecretFitsProfile ==
    Quiet /\ profile.status = "ACTIVE" /\ vault[Mine] # NoSecret => vault[Mine] = profile.print
=============================================================================
