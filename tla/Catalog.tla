------------------------------ MODULE Catalog ------------------------------
(***************************************************************************)
(* Targets and probe suites with their revisions, as users edit, archive,  *)
(* restore and purge them, and what is made from them meanwhile: runs,     *)
(* monitor policies and agent sessions (web/postgres_control_store.py,     *)
(* called by web/control_service.py).                                      *)
(*                                                                         *)
(* One target and one suite.  What they say is a number: the edit that     *)
(* wrote it.  A document of a suite is a model value; a revision is its    *)
(* place among the revisions.                                              *)
(***************************************************************************)
EXTENDS Naturals, Sequences

CONSTANTS
    Users,          \* who calls; each has one call under way
    Documents,      \* what a suite may say
    MaxEdits,       \* accepted edits of the target and of the suite together
    MaxUses         \* runs, policies and sessions made

ASSUME CatalogAssumption == MaxEdits \in Nat /\ MaxUses \in Nat

VARIABLES
    target, suite,  \* the rows: state, version, text
    revisions,      \* the documents of the suite's revisions, in order
    latest,         \* latest_revision_id
    uses,           \* the retained runs, policies and sessions
    made,           \* how many there were
    user,           \* what each user saw, and is about to do
    history         \* of each row, the accepted edits: what was seen and written

rows        == << target, suite, revisions, latest >>
catalogVars == << rows, uses, made, user, history >>

NoDocument == "no document"
RowOf == [target |-> target, suite |-> suite]
Things == {"target", "suite"}
Idle == [does |-> "nothing", thing |-> "target", version |-> 0, saw |-> 0, pin |-> 0, reads |-> NoDocument]

CatalogInit ==
    /\ target = [state |-> "none", version |-> 1, text |-> 0]
    /\ suite = [state |-> "none", version |-> 1, text |-> 0]
    /\ revisions = << >> /\ latest = 0
    /\ uses = {} /\ made = 0
    /\ user = [u \in Users |-> Idle]
    /\ history = [t \in Things |-> << >>]

Active(t)     == RowOf[t].state = "active"
Archived(t)   == RowOf[t].state = "archived"
Edits         == Len(history["target"]) + Len(history["suite"])
Does(u, what) == user[u].does = what
Rests(u)      == user' = [user EXCEPT ![u] = Idle]

Puts(t, state) ==
    \/ t = "target" /\ target' = [target EXCEPT !.state = state] /\ UNCHANGED suite
    \/ t = "suite" /\ suite' = [suite EXCEPT !.state = state] /\ UNCHANGED target

CreateTarget ==
    /\ target.state = "none" /\ Puts("target", "active")
    /\ UNCHANGED << revisions, latest, uses, made, user, history >>

\* The suite and its first revision, in one transaction.
CreateSuite ==
    /\ suite.state = "none" /\ Puts("suite", "active")
    /\ \E d \in Documents : revisions' = << d >> /\ latest' = 1
    /\ UNCHANGED << uses, made, user, history >>

----------------------------------------------------------------------------
(* Editing: a user looks, and writes under the version that was seen.      *)

View(u, t) ==
    /\ Does(u, "nothing") /\ RowOf[t].state \notin {"none", "purged"}
    /\ user' = [user EXCEPT ![u] = [Idle EXCEPT !.does = "editing", !.thing = t,
                                       !.version = RowOf[t].version, !.saw = RowOf[t].text]]
    /\ UNCHANGED << rows, uses, made, history >>

\* Wrong: the version is not asked for.
TakesAnyVersion(u, t) == Does(u, "editing") /\ user[u].thing = t /\ Active(t) /\ Edits < MaxEdits

Fits(u, t) ==
    /\ Does(u, "editing") /\ user[u].thing = t
    /\ Active(t) /\ RowOf[t].version = user[u].version
    /\ Edits < MaxEdits                                                 \* bound

Written(u, t) ==
    /\ history' = [history EXCEPT ![t] = Append(@, [saw |-> user[u].saw, wrote |-> Edits + 1])]
    /\ Rests(u)

After(row) == [row EXCEPT !.version = @ + 1, !.text = Edits + 1]

\* One statement: it finds the version that was seen, and no archiving.
UpdateTarget(u) ==
    /\ Fits(u, "target")
    /\ target' = After(target)
    /\ Written(u, "target")
    /\ UNCHANGED << suite, revisions, latest, uses, made >>

\* Under the row's lock: a new document is a new revision; one the suite has had
\* already is refused by the digest's uniqueness, with all that the call changes.
UpdateSuite(u) ==
    /\ Fits(u, "suite")
    /\ \/ UNCHANGED << revisions, latest >>                             \* name, description
       \/ \E d \in Documents :
            /\ \A i \in 1..Len(revisions) : revisions[i] # d
            /\ revisions' = Append(revisions, d)
            /\ latest' = Len(revisions) + 1
    /\ suite' = After(suite)
    /\ Written(u, "suite")
    /\ UNCHANGED << target, uses, made >>

\* Not found, archived, stale, or a document that is not new: nothing changes.
Refused(u) ==
    /\ Does(u, "editing") /\ Rests(u)
    /\ UNCHANGED << rows, uses, made, history >>

----------------------------------------------------------------------------
(* Archiving.                                                              *)

Archive(t) ==
    /\ Active(t) /\ Puts(t, "archived")
    /\ UNCHANGED << revisions, latest, uses, made, user, history >>

Restore(t) ==
    /\ Archived(t) /\ Puts(t, "active")
    /\ UNCHANGED << revisions, latest, uses, made, user, history >>

----------------------------------------------------------------------------
(* Using: start_run, and the creation of policies and sessions.            *)

\* The target is read, and the revision a run of a suite is to use (0: none).
Choose(u) ==
    /\ Does(u, "nothing") /\ made < MaxUses
    /\ Active("target")
    /\ \E pin \in {0} \cup (IF Active("suite") THEN 1..Len(revisions) ELSE {}) :
         user' = [user EXCEPT ![u] = [Idle EXCEPT !.does = "using", !.pin = pin,
              !.reads = IF pin = 0 THEN NoDocument ELSE revisions[pin]]]
    /\ UNCHANGED << rows, uses, made, history >>

\* In one transaction, with shares of the rows: both must be active still, or the
\* call is refused.
Use(u) ==
    LET pin == user[u].pin IN
    /\ Does(u, "using") /\ Rests(u)
    /\ IF Active("target") /\ (pin # 0 => Active("suite")) /\ made < MaxUses
       THEN uses' = uses \cup {[id |-> made + 1, pin |-> pin, reads |-> user[u].reads]}
            /\ made' = made + 1
       ELSE UNCHANGED << uses, made >>
    /\ UNCHANGED << rows, history >>

\* A run, a policy or a session is purged.
Drop(use) ==
    /\ uses' = uses \ {use}
    /\ UNCHANGED << rows, made, user, history >>

----------------------------------------------------------------------------
(* Purging: what allows it is read, and then the rows are deleted.         *)

Used(t) == IF t = "target" THEN uses # {} ELSE \E use \in uses : use.pin # 0

BeginPurge(u, t) ==
    /\ Does(u, "nothing") /\ Archived(t) /\ ~Used(t)
    /\ user' = [user EXCEPT ![u] = [Idle EXCEPT !.does = "purging", !.thing = t]]
    /\ UNCHANGED << rows, uses, made, history >>

\* Wrong: the references go with what they refer to.
Cascades(u) ==
    LET t == user[u].thing IN
    /\ Does(u, "purging") /\ Rests(u)
    /\ Puts(t, "purged")
    /\ IF t = "suite" THEN revisions' = << >> /\ latest' = 0 ELSE UNCHANGED << revisions, latest >>
    /\ UNCHANGED << uses, made, history >>

\* The row may be active again by now; a reference made meanwhile stops the
\* deletion by its foreign key.
EndPurge(u) ==
    LET t == user[u].thing IN
    /\ Does(u, "purging") /\ Rests(u)
    /\ IF Used(t) \/ RowOf[t].state = "purged" THEN UNCHANGED rows
       ELSE /\ Puts(t, "purged")
            /\ IF t = "suite" THEN revisions' = << >> /\ latest' = 0
               ELSE UNCHANGED << revisions, latest >>
    /\ UNCHANGED << uses, made, history >>

CatalogNext ==
    \/ CreateTarget \/ CreateSuite
    \/ \E u \in Users : \/ UpdateTarget(u) \/ UpdateSuite(u) \/ Refused(u)
                        \/ Choose(u) \/ Use(u) \/ EndPurge(u)
                        \/ \E t \in Things : View(u, t) \/ BeginPurge(u, t)
    \/ \E t \in Things : Archive(t) \/ Restore(t)
    \/ \E use \in uses : Drop(use)

CatalogSpec == CatalogInit /\ [][CatalogNext]_catalogVars

----------------------------------------------------------------------------

\* Of two users who look at one version only one writes: whoever changes the target
\* or the suite has seen all that was written to it before.
EditsBuildOnEachOther ==
    \A t \in Things : \A i \in 1..Len(history[t]) :
        history[t][i].saw = IF i = 1 THEN 0 ELSE history[t][i - 1].wrote

\* A retained run points to the revision it used, with the document it was compiled
\* from, and to its target, whatever is edited, archived and purged around it
\* (README.md, lines 113-117).
RunsKeepWhatTheyUsed ==
    \A use \in uses :
        /\ target.state # "purged"
        /\ use.pin # 0 => use.pin <= Len(revisions) /\ revisions[use.pin] = use.reads

\* README.md, line 116: "Purge requires an archived resource".
PurgeTakesArchived ==
    [][\A t \in Things : RowOf'[t].state = "purged" => RowOf[t].state \in {"archived", "purged"}]_catalogVars
=============================================================================
