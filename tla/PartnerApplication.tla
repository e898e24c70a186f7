------------------------- MODULE PartnerApplication -------------------------
(***************************************************************************)
(* An application to be listed as a partner site: it is drafted under an   *)
(* idempotency key, edited under the version its editor saw, and submitted *)
(* once, which freezes a snapshot of it (web/control_service.py and        *)
(* web/postgres_control_store.py).                                         *)
(*                                                                         *)
(* The key is one; a request is what the caller wants the draft to say.    *)
(***************************************************************************)
EXTENDS Naturals, Sequences

CONSTANTS
    Applicants,     \* callers; each has one call under way
    Drafts,       \* what they may send with the key
    MaxVersions     \* accepted edits and submissions

ASSUME PartnerAssumption == MaxVersions \in Nat

NoRequest == "no request"

VARIABLES
    application,    \* the row, and the request it was created by
    snapshots,      \* partner_application_revisions
    applicant,      \* what each caller does, and saw
    answers         \* what the creations were told: the request, and the row's

partnerVars == << application, snapshots, applicant, answers >>

Nothing == [does |-> "nothing", request |-> NoRequest, version |-> 0, saw |-> NoRequest]

PartnerInit ==
    /\ application = [status |-> "none", version |-> 0, says |-> NoRequest, request |-> NoRequest]
    /\ snapshots = << >>
    /\ applicant = [a \in Applicants |-> Nothing]
    /\ answers = {}

Doing(a, what)   == applicant[a].does = what
Becomes(a, next) == applicant' = [applicant EXCEPT ![a] = next]
Drafted == application.status # "none"

----------------------------------------------------------------------------
(* Creating.                                                               *)

\* find_partner_application_by_idempotency, for a row that exists: the same request
\* is answered with it, another is refused.
AnswerReplay(a) ==
    /\ IF application.request = applicant[a].request
       THEN answers' = answers \cup {[sent |-> applicant[a].request, got |-> application.request]}
       ELSE UNCHANGED answers
    /\ Becomes(a, Nothing)

Send(a, r) ==
    /\ Doing(a, "nothing")
    /\ Becomes(a, [Nothing EXCEPT !.does = "finding", !.request = r])
    /\ UNCHANGED << application, snapshots, answers >>

\* The key is looked up before the insert, and again when the insert finds it taken.
FindByKey(a) ==
    /\ Doing(a, "finding")
    /\ IF Drafted THEN AnswerReplay(a)
       ELSE Becomes(a, [applicant[a] EXCEPT !.does = "inserting"]) /\ UNCHANGED answers
    /\ UNCHANGED << application, snapshots >>

Insert(a) ==
    LET r == applicant[a].request IN
    /\ Doing(a, "inserting")
    /\ IF Drafted THEN Becomes(a, [applicant[a] EXCEPT !.does = "finding"]) /\ UNCHANGED << application, answers >>
       ELSE /\ application' = [status |-> "DRAFT", version |-> 1, says |-> r, request |-> r]
            /\ answers' = answers \cup {[sent |-> r, got |-> r]}
            /\ Becomes(a, Nothing)
    /\ UNCHANGED snapshots

----------------------------------------------------------------------------
(* Editing and submitting, under the version that was seen.                *)

Look(a) ==
    /\ Doing(a, "nothing") /\ Drafted
    /\ Becomes(a, [Nothing EXCEPT !.does = "deciding", !.version = application.version,
                                  !.saw = application.says])
    /\ UNCHANGED << application, snapshots, answers >>

\* Wrong: a submitted application can still be edited.
EditsSubmitted(a) ==
    Doing(a, "deciding") /\ Drafted /\ application.version < MaxVersions

\* What both ask for; otherwise they are refused.
StandsAsSeen(a) ==
    /\ Doing(a, "deciding")
    /\ application.status = "DRAFT" /\ application.version = applicant[a].version
    /\ application.version < MaxVersions                                \* bound

Edit(a, r) ==
    /\ StandsAsSeen(a)
    /\ application' = [application EXCEPT !.says = r, !.version = @ + 1]
    /\ Becomes(a, Nothing)
    /\ UNCHANGED << snapshots, answers >>

\* Under the row's lock; the snapshot is taken from the row.
Submit(a) ==
    /\ StandsAsSeen(a)
    /\ snapshots' = Append(snapshots, [says |-> application.says, saw |-> applicant[a].saw])
    /\ application' = [application EXCEPT !.status = "SUBMITTED", !.version = @ + 1]
    /\ Becomes(a, Nothing)
    /\ UNCHANGED answers

TurnedDown(a) ==
    /\ Doing(a, "deciding") /\ Becomes(a, Nothing)
    /\ UNCHANGED << application, snapshots, answers >>

PartnerNext == \E a \in Applicants :
    \/ FindByKey(a) \/ Insert(a) \/ Look(a) \/ Submit(a) \/ TurnedDown(a)
    \/ \E r \in Drafts : Send(a, r) \/ Edit(a, r)

PartnerSpec == PartnerInit /\ [][PartnerNext]_partnerVars

----------------------------------------------------------------------------

\* A key stands for one request: two callers who race with it are answered with one
\* application, and only if they asked for the same.
KeyMeansOneRequest ==
    /\ \A x \in answers : x.sent = x.got
    /\ \A x, y \in answers : x.got = y.got

\* An application is submitted at most once, the snapshot is what its submitter saw,
\* and the row says it for good, whoever was editing meanwhile.
SnapshotIsWhatStands ==
    IF application.status = "SUBMITTED"
    THEN snapshots = << [says |-> application.says, saw |-> application.says] >>
    ELSE snapshots = << >>
=============================================================================
