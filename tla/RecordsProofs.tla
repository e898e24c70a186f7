---------------------------- MODULE RecordsProofs ----------------------------
(***************************************************************************)
(* Proofs about what several callers do to the same rows, each for any     *)
(* number of callers, calls and failures: a credential profile and its     *)
(* secret, targets and suites, a partner's application.                    *)
(***************************************************************************)
EXTENDS CredentialProfile, Catalog, PartnerApplication, AuthLimit, TLAPS

(***************************************************************************)
(* A credential profile.                                                   *)
(***************************************************************************)

Secrets == Calls \cup {NoSecret}
AboutRow == {"reading", "replacing", "recording", "restoring",
             "marking", "deleting", "excusing", "archiving"}

\* The types of a call.
Stages == {"new", "putting", "inserting", "undoing", "done", "failed"} \cup AboutRow
CallType == [at : Stages, version : Nat, previous : Secrets]
ProfileStates == {"none", "ACTIVE", "DELETION_PENDING", "VAULT_UNAVAILABLE", "ARCHIVED"}

\* The types of the row, the vault and the calls.
ProfileTypes ==
    /\ profile \in [status : ProfileStates, version : Nat, locator : Secrets, print : Secrets]
    /\ vault \in [Calls -> Secrets]
    /\ call \in [Calls -> CallType]
    /\ outages \in Nat

\* Who works on the row has found one; whoever made it puts no secret there any more.
RowIsThere ==
    /\ \A c \in Calls : call[c].at \in AboutRow => Exists
    /\ Exists => Mine \in Calls /\ call[Mine].at \notin {"new", "putting", "inserting"}

\* A secret that was deleted stays deleted: replacing and restoring ask for one that is there.
GoneIsGone ==
    /\ \A c \in Calls : call[c].at = "archiving" => vault[Mine] = NoSecret
    /\ ArchivedSecretIsGone

\* Every secret has its profile, or a call that is about to insert it or to take it back.
SecretsAccounted ==
    outages = 0 => \A c \in Calls : vault[c] # NoSecret =>
        \/ Exists /\ profile.locator = c
        \/ call[c].at \in {"inserting", "undoing"}

ProfileInv == ProfileTypes /\ RowIsThere /\ GoneIsGone /\ SecretsAccounted

\* ProfileInv holds of the empty table and vault.
LEMMA ProfileStart == ProfileInit => ProfileInv
BY DEF ProfileInit, ProfileInv, ProfileTypes, RowIsThere, GoneIsGone, SecretsAccounted,
       ArchivedSecretIsGone, Exists, ArchivedRow, Mine, Secrets, AboutRow, Stages, CallType,
       ProfileStates

\* What an update of the row leaves: the locator, the vault, and every other call.
LEMMA UpdateLeaves ==
    ASSUME ProfileTypes, NEW c \in Calls, NEW status \in ProfileStates, NEW at \in Stages,
           UpdatesTo(c, status, at)
    PROVE  /\ profile' \in [status : ProfileStates, version : Nat, locator : Secrets, print : Secrets]
           /\ profile'.locator = profile.locator /\ UNCHANGED vault
           /\ profile'.status \in {profile.status, status}
           /\ call' \in [Calls -> CallType]
           /\ \A d \in Calls : d # c => call'[d] = call[d]
           /\ call'[c].at = "failed" \/ (call'[c].at = at /\ profile'.status = status)
           /\ outages' \in Nat /\ (outages' = 0 => outages = 0)
<1> USE DEF ProfileTypes, Stages, AboutRow
<1>1. ASSUME Updates(c, [profile EXCEPT !.status = status])
      PROVE  /\ profile' \in [status : ProfileStates, version : Nat, locator : Secrets, print : Secrets]
             /\ profile'.locator = profile.locator /\ profile'.status = status
  <2>1. profile' = [status |-> status, version |-> profile.version + 1,
                    locator |-> profile.locator, print |-> profile.print]
    BY <1>1 DEF Updates
  <2> QED BY <2>1
<1>2. CASE /\ Updates(c, [profile EXCEPT !.status = status])
           /\ call' = [call EXCEPT ![c].at = at, ![c].version = profile.version + 1]
           /\ UNCHANGED outages
  <2> DEFINE after == [call[c] EXCEPT !.at = at, !.version = profile.version + 1]
  <2>1. call' = [call EXCEPT ![c] = after]
    BY <1>2, Zenon
  <2>2. after \in CallType /\ after.at = at
    <3>1. call[c] \in CallType /\ profile.version + 1 \in Nat
      OBVIOUS
    <3> HIDE DEF ProfileTypes, Stages
    <3> QED BY <3>1 DEF CallType
  <2> HIDE DEF after
  <2>3. call' \in [Calls -> CallType] /\ call'[c].at = at /\ \A d \in Calls : d # c => call'[d] = call[d]
    BY <2>1, <2>2
  <2> QED BY <1>1, <1>2, <2>3 DEF UpdatesTo
<1>3. ASSUME GoesTo(c, "failed")
      PROVE  call' \in [Calls -> CallType] /\ call'[c].at = "failed"
             /\ \A d \in Calls : d # c => call'[d] = call[d]
  BY <1>3 DEF CallType, GoesTo
<1>4. ASSUME Outage PROVE outages' \in Nat /\ outages' # 0
  BY <1>4 DEF Outage
<1>5. CASE Updates(c, [profile EXCEPT !.status = status]) /\ GoesTo(c, "failed") /\ Outage
  BY <1>1, <1>3, <1>4, <1>5 DEF UpdatesTo
<1>6. CASE GoesTo(c, "failed") /\ UNCHANGED profile /\ (Outage \/ UNCHANGED outages)
  BY <1>3, <1>4, <1>6 DEF UpdatesTo
<1> QED BY <1>2, <1>5, <1>6 DEF UpdatesTo

\* Every step of a call keeps ProfileInv.
LEMMA ProfileStep == ProfileInv /\ [ProfileNext]_profileVars => ProfileInv'
<1> SUFFICES ASSUME ProfileInv, [ProfileNext]_profileVars PROVE ProfileInv'
  OBVIOUS
<1> USE DEF ProfileInv, ProfileTypes, RowIsThere, GoneIsGone, SecretsAccounted,
            ArchivedSecretIsGone, Exists, ArchivedRow, Mine, Secrets, AboutRow, Stages, CallType,
            ProfileStates, Stage, GoesTo, Outage
<1>1. ASSUME NEW c \in Calls, BeginCreate(c) PROVE ProfileInv'
  BY <1>1 DEF BeginCreate
<1>2. ASSUME NEW c \in Calls, PutSecret(c) PROVE ProfileInv'
  <2>1. ProfileTypes'
    BY <1>2 DEF PutSecret
  <2>2. RowIsThere'
    BY <1>2 DEF PutSecret
  <2>3. GoneIsGone'
    BY <1>2 DEF PutSecret
  <2>4. SecretsAccounted'
    BY <1>2 DEF PutSecret
  <2> QED BY <2>1, <2>2, <2>3, <2>4
<1>3. ASSUME NEW c \in Calls, InsertProfile(c) PROVE ProfileInv'
  BY <1>3 DEF InsertProfile
<1>4. ASSUME NEW c \in Calls, UndoPut(c) PROVE ProfileInv'
  BY <1>4 DEF UndoPut
<1>5. ASSUME NEW c \in Calls, Rename(c) PROVE ProfileInv'
  BY <1>5 DEF Rename
<1>6. ASSUME NEW c \in Calls, BeginReplace(c) PROVE ProfileInv'
  <2>1. ProfileTypes'
    BY <1>6 DEF BeginReplace
  <2>2. RowIsThere'
    BY <1>6 DEF BeginReplace
  <2>3. GoneIsGone'
    BY <1>6 DEF BeginReplace
  <2>4. SecretsAccounted'
    BY <1>6 DEF BeginReplace
  <2> QED BY <2>1, <2>2, <2>3, <2>4
<1>7. ASSUME NEW c \in Calls, ReadPrevious(c) PROVE ProfileInv'
  BY <1>7 DEF ReadPrevious
<1>8. ASSUME NEW c \in Calls, ReplaceSecret(c) PROVE ProfileInv'
  BY <1>8 DEF ReplaceSecret
<1>9. ASSUME NEW c \in Calls, RecordReplace(c) PROVE ProfileInv'
  <2>1. call[c].at = "recording" /\ UNCHANGED vault
    BY <1>9 DEF RecordReplace
  <2>2. /\ profile' \in [status : ProfileStates, version : Nat, locator : Secrets, print : Secrets]
        /\ profile'.locator = profile.locator
        /\ profile' = profile \/ (profile.status # "ARCHIVED" /\ profile'.status = "ACTIVE")
    <3>1. CASE UNCHANGED profile
      BY <3>1
    <3>2. CASE Updates(c, [profile EXCEPT !.status = "ACTIVE", !.print = c])
      <4>1. profile' = [status |-> "ACTIVE", version |-> profile.version + 1,
                        locator |-> profile.locator, print |-> c]
        BY <3>2 DEF Updates
      <4> QED BY <3>2, <4>1 DEF Updates
    <3> QED BY <1>9, <3>1, <3>2 DEF RecordReplace
  <2>3. /\ call' = [call EXCEPT ![c].at = "done"] \/ call' = [call EXCEPT ![c].at = "restoring"]
        /\ outages' = outages \/ outages' = outages + 1
    BY <1>9 DEF RecordReplace
  <2>4. /\ call' \in [Calls -> CallType] /\ call'[c].at \in {"done", "restoring"}
        /\ \A d \in Calls : d # c => call'[d] = call[d]
        /\ outages' \in Nat /\ (outages' = 0 => outages = 0)
    BY <2>3
  <2>5. ProfileTypes'
    BY <2>1, <2>2, <2>4
  <2>6. RowIsThere'
    BY <2>1, <2>2, <2>4
  <2>7. GoneIsGone'
    BY <2>1, <2>2, <2>4
  <2>8. SecretsAccounted'
    BY <2>1, <2>2, <2>4
  <2> QED BY <2>5, <2>6, <2>7, <2>8
<1>10. ASSUME NEW c \in Calls, RestorePrevious(c) PROVE ProfileInv'
  BY <1>10 DEF RestorePrevious
<1>11. ASSUME NEW c \in Calls, BeginArchive(c) PROVE ProfileInv'
  BY <1>11 DEF BeginArchive
<1>12. ASSUME NEW c \in Calls, MarkDeletion(c) PROVE ProfileInv'
  <2>1. call[c].at = "marking" /\ UpdatesTo(c, "DELETION_PENDING", "deleting")
    BY <1>12 DEF MarkDeletion
  <2>2. /\ profile' \in [status : ProfileStates, version : Nat, locator : Secrets, print : Secrets]
        /\ profile'.locator = profile.locator /\ UNCHANGED vault
        /\ profile'.status \in {profile.status, "DELETION_PENDING"}
        /\ call' \in [Calls -> CallType]
        /\ \A d \in Calls : d # c => call'[d] = call[d]
        /\ call'[c].at = "failed" \/ (call'[c].at = "deleting" /\ profile'.status = "DELETION_PENDING")
        /\ outages' \in Nat /\ (outages' = 0 => outages = 0)
    BY <2>1, UpdateLeaves
  <2>3. ProfileTypes'
    BY <2>2
  <2>4. RowIsThere'
    BY <2>1, <2>2
  <2>5. GoneIsGone'
    BY <2>1, <2>2
  <2>6. SecretsAccounted'
    BY <2>1, <2>2
  <2> QED BY <2>3, <2>4, <2>5, <2>6
<1>13. ASSUME NEW c \in Calls, DeleteSecret(c) PROVE ProfileInv'
  BY <1>13 DEF DeleteSecret
<1>14. ASSUME NEW c \in Calls, MarkUnavailable(c) PROVE ProfileInv'
  <2>1. call[c].at = "excusing" /\ UpdatesTo(c, "VAULT_UNAVAILABLE", "failed")
    BY <1>14 DEF MarkUnavailable
  <2>2. /\ profile' \in [status : ProfileStates, version : Nat, locator : Secrets, print : Secrets]
        /\ profile'.locator = profile.locator /\ UNCHANGED vault
        /\ profile'.status \in {profile.status, "VAULT_UNAVAILABLE"}
        /\ call' \in [Calls -> CallType]
        /\ \A d \in Calls : d # c => call'[d] = call[d]
        /\ call'[c].at = "failed" \/ (call'[c].at = "failed" /\ profile'.status = "VAULT_UNAVAILABLE")
        /\ outages' \in Nat /\ (outages' = 0 => outages = 0)
    BY <2>1, UpdateLeaves
  <2>3. ProfileTypes'
    BY <2>2
  <2>4. RowIsThere'
    BY <2>1, <2>2
  <2>5. GoneIsGone'
    BY <2>1, <2>2
  <2>6. SecretsAccounted'
    BY <2>1, <2>2
  <2> QED BY <2>3, <2>4, <2>5, <2>6
<1>15. ASSUME NEW c \in Calls, MarkArchived(c) PROVE ProfileInv'
  <2>1. call[c].at = "archiving" /\ UpdatesTo(c, "ARCHIVED", "done")
    BY <1>15 DEF MarkArchived
  <2>2. /\ profile' \in [status : ProfileStates, version : Nat, locator : Secrets, print : Secrets]
        /\ profile'.locator = profile.locator /\ UNCHANGED vault
        /\ profile'.status \in {profile.status, "ARCHIVED"}
        /\ call' \in [Calls -> CallType]
        /\ \A d \in Calls : d # c => call'[d] = call[d]
        /\ call'[c].at = "failed" \/ (call'[c].at = "done" /\ profile'.status = "ARCHIVED")
        /\ outages' \in Nat /\ (outages' = 0 => outages = 0)
    BY <2>1, UpdateLeaves
  <2>3. ProfileTypes'
    BY <2>2
  <2>4. RowIsThere'
    BY <2>1, <2>2
  <2>5. GoneIsGone'
    BY <2>1, <2>2
  <2>6. SecretsAccounted'
    BY <2>1, <2>2
  <2> QED BY <2>3, <2>4, <2>5, <2>6
<1>16. ASSUME NEW c \in Calls, CallDies(c) PROVE ProfileInv'
  BY <1>16 DEF CallDies
<1>17. CASE UNCHANGED profileVars
  BY <1>17 DEF profileVars
<1> QED
  BY <1>1, <1>2, <1>3, <1>4, <1>5, <1>6, <1>7, <1>8, <1>9, <1>10, <1>11, <1>12, <1>13,
     <1>14, <1>15, <1>16, <1>17 DEF ProfileNext

\* No call of any number, with any failures between row and vault, brings back the
\* secret of an archived profile.
THEOREM ArchivedStaysEmpty == ProfileSpec => []ArchivedSecretIsGone
<1>1. ProfileInv => ArchivedSecretIsGone
  BY DEF ProfileInv, GoneIsGone
<1> QED BY ProfileStart, ProfileStep, <1>1, PTL DEF ProfileSpec

\* As long as nothing fails, the calls that lose a race for a key take their secrets back.
THEOREM LosersTakeBack == ProfileSpec => []NoOrphans
<1>1. ProfileInv => NoOrphans
  BY DEF ProfileInv, SecretsAccounted, NoOrphans, Quiet
<1> QED BY ProfileStart, ProfileStep, <1>1, PTL DEF ProfileSpec

(***************************************************************************)
(* Targets and suites.                                                     *)
(***************************************************************************)

RowType == [state : {"none", "active", "archived", "purged"}, version : Nat, text : Nat]
Intent  == [does : {"nothing", "editing", "using", "purging"}, thing : Things, version : Nat,
            saw : Nat, pin : Nat, reads : Documents \cup {NoDocument}]

\* The types of rows, revisions, references and users.
CatalogTypes ==
    /\ target \in RowType /\ suite \in RowType
    /\ revisions \in Seq(Documents) /\ latest \in 0..Len(revisions)
    /\ made \in Nat
    /\ uses \in SUBSET [id : Nat, pin : Nat, reads : Documents \cup {NoDocument}]
    /\ user \in [Users -> Intent]
    /\ history \in [Things -> Seq([saw : Nat, wrote : Nat])]

\* What the row of t says, and under which version, is its last edit; a user who is
\* editing saw the version and the text of one moment.
RowFits(t) ==
    LET edits == history[t]
    IN  /\ RowOf[t].version = Len(edits) + 1
        /\ RowOf[t].text = IF Len(edits) = 0 THEN 0 ELSE edits[Len(edits)].wrote
SeenFits(t) ==
    \A u \in Users : Does(u, "editing") /\ user[u].thing = t =>
        /\ user[u].version <= RowOf[t].version
        /\ user[u].version = RowOf[t].version => user[u].saw = RowOf[t].text
Chain(t) ==
    \A i \in 1..Len(history[t]) :
        history[t][i].saw = IF i = 1 THEN 0 ELSE history[t][i - 1].wrote
EditInv == \A t \in Things : RowFits(t) /\ SeenFits(t) /\ Chain(t)

Stands(row) == row.state \in {"active", "archived"}
Points(pin, reads) == pin <= Len(revisions) /\ revisions[pin] = reads

\* What is referred to stands; what a user is about to refer to stands, or was purged,
\* and then the use is refused.
UseInv ==
    /\ \A use \in uses : /\ Stands(target)
                         /\ use.pin # 0 => Stands(suite) /\ Points(use.pin, use.reads)
    /\ \A u \in Users : Does(u, "using") /\ user[u].pin # 0 =>
           /\ suite.state # "none"
           /\ suite.state # "purged" => Points(user[u].pin, user[u].reads)

CatalogInv == CatalogTypes /\ EditInv /\ UseInv

\* CatalogInv holds where nothing has been created.
LEMMA CatalogStart == CatalogInit => CatalogInv
<1> SUFFICES ASSUME CatalogInit PROVE CatalogInv
  OBVIOUS
<1> USE DEF CatalogInit, Things, Idle
<1>1. CatalogTypes
  BY DEF CatalogTypes, RowType, Intent
<1>2. EditInv
  BY DEF EditInv, RowFits, SeenFits, Chain, Does, RowOf
<1>3. UseInv
  BY DEF UseInv, Does
<1> QED BY <1>1, <1>2, <1>3 DEF CatalogInv

\* A call that changes no text, and leaves no user editing who was not, keeps EditInv.
LEMMA EditsUntouched ==
    ASSUME CatalogTypes, EditInv, UNCHANGED history, user' \in [Users -> Intent],
           \A t \in Things : RowOf'[t].version = RowOf[t].version /\ RowOf'[t].text = RowOf[t].text,
           \A u \in Users : user'[u] = user[u] \/ user'[u].does # "editing"
    PROVE  EditInv'
BY DEF CatalogTypes, EditInv, RowFits, SeenFits, Chain, Does

\* Every step of a user keeps CatalogInv.
LEMMA CatalogStep == CatalogInv /\ [CatalogNext]_catalogVars => CatalogInv'
<1> SUFFICES ASSUME CatalogInv, [CatalogNext]_catalogVars PROVE CatalogInv'
  OBVIOUS
<1>0. CatalogTypes /\ EditInv /\ UseInv
  BY DEF CatalogInv
<1>a. /\ RowOf["target"] = target /\ RowOf["suite"] = suite
      /\ RowOf'["target"] = target' /\ RowOf'["suite"] = suite'
  BY DEF RowOf
<1>10. Idle \in Intent /\ Idle.does = "nothing"
  BY DEF Idle, Intent, Things
<1>1. ASSUME NEW t \in Things, NEW state \in {"active", "archived", "purged"}, Puts(t, state)
      PROVE  /\ target' \in RowType /\ suite' \in RowType
             /\ \A x \in Things : RowOf'[x].version = RowOf[x].version /\ RowOf'[x].text = RowOf[x].text
             /\ t = "target" => suite' = suite /\ target'.state = state
             /\ t = "suite" => target' = target /\ suite'.state = state
  <2>1. CASE t = "target" /\ target' = [target EXCEPT !.state = state] /\ UNCHANGED suite
    <3>1. target' \in RowType /\ target'.version = target.version /\ target'.text = target.text
          /\ target'.state = state
      BY <1>0, <2>1 DEF RowType, CatalogTypes
    <3> QED BY <1>0, <1>a, <2>1, <3>1 DEF Things, CatalogTypes
  <2>2. CASE t = "suite" /\ suite' = [suite EXCEPT !.state = state] /\ UNCHANGED target
    <3>1. suite' \in RowType /\ suite'.version = suite.version /\ suite'.text = suite.text
          /\ suite'.state = state
      BY <1>0, <2>2 DEF RowType, CatalogTypes
    <3> QED BY <1>0, <1>a, <2>2, <3>1 DEF Things, CatalogTypes
  <2> QED BY <1>1, <2>1, <2>2 DEF Puts
<1>2. CASE CreateTarget
  <2>1. Puts("target", "active") /\ target.state = "none"
        /\ UNCHANGED << revisions, latest, uses, made, user, history >>
    BY <1>2 DEF CreateTarget
  <2>2. CatalogTypes'
    BY <1>0, <1>1, <2>1 DEF CatalogTypes, Things
  <2>3. EditInv'
    BY <1>0, <1>1, <2>1, EditsUntouched DEF Things, CatalogTypes
  <2>4. UseInv'
    BY <1>0, <1>1, <2>1 DEF UseInv, Things, Stands, Points, Does
  <2> QED BY <2>2, <2>3, <2>4 DEF CatalogInv
<1>3. CASE CreateSuite
  <2>1. /\ Puts("suite", "active") /\ suite.state = "none"
        /\ UNCHANGED << uses, made, user, history >>
    BY <1>3 DEF CreateSuite
  <2>2. revisions' \in Seq(Documents) /\ latest' \in 0..Len(revisions')
    BY <1>3 DEF CreateSuite
  <2>3. CatalogTypes'
    BY <1>0, <1>1, <2>1, <2>2 DEF CatalogTypes, Things
  <2>4. EditInv'
    BY <1>0, <1>1, <2>1, EditsUntouched DEF Things, CatalogTypes
  <2>5. UseInv'
    BY <1>0, <1>1, <2>1 DEF UseInv, Things, Stands, Points, Does
  <2> QED BY <2>3, <2>4, <2>5 DEF CatalogInv
<1>4. ASSUME NEW t \in Things, Archive(t) \/ Restore(t) PROVE CatalogInv'
  <2>1. /\ Puts(t, "active") \/ Puts(t, "archived")
        /\ RowOf[t].state \in {"active", "archived"}
        /\ UNCHANGED << revisions, latest, uses, made, user, history >>
    BY <1>4 DEF Archive, Restore, Active, Archived
  <2>2. CatalogTypes'
    BY <1>0, <1>1, <2>1 DEF CatalogTypes
  <2>3. EditInv'
    BY <1>0, <1>1, <2>1, EditsUntouched DEF CatalogTypes
  <2>4. UseInv'
    <3>1. t = "target" \/ t = "suite"
      BY DEF Things
    <3> QED BY <1>0, <1>1, <2>1, <3>1 DEF UseInv, RowOf, Stands, Points, Does
  <2> QED BY <2>2, <2>3, <2>4 DEF CatalogInv
<1>5. ASSUME NEW u \in Users, NEW t \in Things, View(u, t) PROVE CatalogInv'
  <2> DEFINE seen == [Idle EXCEPT !.does = "editing", !.thing = t,
                                  !.version = RowOf[t].version, !.saw = RowOf[t].text]
  <2>1. RowOf[t].version \in Nat /\ RowOf[t].text \in Nat
    BY <1>0, <1>a DEF CatalogTypes, RowType, Things
  <2>2. /\ seen \in Intent /\ seen.does = "editing" /\ seen.thing = t
        /\ seen.version = RowOf[t].version /\ seen.saw = RowOf[t].text
    BY <1>10, <2>1 DEF Intent
  <2>3. user' = [user EXCEPT ![u] = seen]
        /\ UNCHANGED << target, suite, revisions, latest, uses, made, history >>
    BY <1>5 DEF View, rows
  <2> HIDE DEF seen
  <2>4. CatalogTypes'
    BY <1>0, <2>2, <2>3 DEF CatalogTypes
  <2>5. EditInv'
    BY <1>0, <2>1, <2>2, <2>3 DEF EditInv, RowFits, SeenFits, Chain, Does, RowOf, CatalogTypes
  <2>6. UseInv'
    BY <1>0, <2>2, <2>3 DEF UseInv, Does, Stands, Points, CatalogTypes
  <2> QED BY <2>4, <2>5, <2>6 DEF CatalogInv
<1>6. ASSUME NEW u \in Users, NEW t \in Things, Fits(u, t), Written(u, t),
             RowOf' = [RowOf EXCEPT ![t] = After(RowOf[t])],
             NEW r \in Seq(Documents), revisions' = r, latest' \in 0..Len(r),
             Len(revisions) <= Len(r), \A i \in 1..Len(revisions) : r[i] = revisions[i],
             UNCHANGED << uses, made >>, target' \in RowType, suite' \in RowType,
             target'.state = target.state, suite'.state = suite.state
      PROVE  CatalogInv'
  <2>1. user' = [user EXCEPT ![u] = Idle] /\ user' \in [Users -> Intent]
    BY <1>0, <1>6 DEF Written, Rests, CatalogTypes, Intent, Idle, Things
  <2>2. Edits \in Nat
    BY <1>0 DEF CatalogTypes, Edits, Things
  <2>3. user[u].thing = t /\ RowOf[t].version = user[u].version /\ Does(u, "editing")
        /\ user[u].saw = RowOf[t].text /\ user[u].saw \in Nat
    BY <1>0, <1>6 DEF Fits, EditInv, SeenFits, CatalogTypes, Intent
  <2> DEFINE e == [saw |-> user[u].saw, wrote |-> Edits + 1]
  <2>4. history' = [history EXCEPT ![t] = Append(history[t], e)]
    BY <1>6 DEF Written
  <2>5. e \in [saw : Nat, wrote : Nat] /\ history[t] \in Seq([saw : Nat, wrote : Nat])
    BY <1>0, <2>2, <2>3 DEF CatalogTypes
  <2>6. CatalogTypes'
    BY <1>0, <1>6, <2>1, <2>4, <2>5 DEF CatalogTypes
  <2>7. ASSUME NEW x \in Things PROVE (RowFits(x) /\ SeenFits(x) /\ Chain(x))'
    <3>0. RowFits(x) /\ SeenFits(x) /\ Chain(x) /\ RowOf[x].version \in Nat
      BY <1>0 DEF EditInv, CatalogTypes, RowType, RowOf, Things
    <3>1. CASE x # t
      <4>1. history'[x] = history[x] /\ RowOf'[x] = RowOf[x]
        BY <1>0, <1>6, <2>4, <3>1 DEF CatalogTypes, RowOf, Things
      <4> QED BY <1>0, <2>1, <3>0, <4>1 DEF RowFits, SeenFits, Chain, Does, Idle, CatalogTypes
    <3>2. CASE x = t
      <4> DEFINE h == history[t]
      <4>1. history'[t] = Append(h, e)
        BY <1>0, <2>4 DEF CatalogTypes
      <4>2. RowOf'[t].version = RowOf[t].version + 1 /\ RowOf'[t].text = Edits + 1
        <5>1. RowOf[t] \in RowType /\ RowOf'[t] = After(RowOf[t])
          BY <1>0, <1>6 DEF CatalogTypes, RowOf, Things
        <5> QED BY <5>1 DEF After, RowType
      <4>3. /\ Len(history'[t]) = Len(h) + 1 /\ history'[t][Len(h) + 1] = e
            /\ \A i \in 1..Len(h) : history'[t][i] = h[i]
        BY <2>5, <4>1
      <4>4. Len(h) \in Nat /\ RowOf[t].version = Len(h) + 1
            /\ e.saw = IF Len(h) = 0 THEN 0 ELSE h[Len(h)].wrote
        BY <2>3, <2>5, <3>0, <3>2 DEF RowFits
      <4>5. RowFits(t)'
        BY <4>2, <4>3, <4>4 DEF RowFits
      <4>6. Chain(t)'
        <5>1. SUFFICES ASSUME NEW i \in 1..(Len(h) + 1)
              PROVE history'[t][i].saw = IF i = 1 THEN 0 ELSE history'[t][i - 1].wrote
          BY <4>3 DEF Chain
        <5>2. CASE i = Len(h) + 1
          BY <4>3, <4>4, <5>2
        <5>3. CASE i # Len(h) + 1
          <6>1. i \in 1..Len(h) /\ (i # 1 => i - 1 \in 1..Len(h))
            BY <4>4, <5>3
          <6> QED BY <3>0, <3>2, <4>3, <6>1 DEF Chain
        <5> QED BY <5>2, <5>3
      <4>7. SeenFits(t)'
        <5>1. ASSUME NEW v \in Users, user'[v].does = "editing", user'[v].thing = t
              PROVE user'[v].version \in Nat /\ user'[v].version <= RowOf[t].version
          <6>1. v # u /\ user'[v] = user[v] /\ user[v].version \in Nat
            BY <1>0, <2>1, <5>1 DEF CatalogTypes, Idle, Intent
          <6> QED BY <3>0, <3>2, <5>1, <6>1 DEF SeenFits, Does
        <5> QED BY <3>0, <3>2, <4>2, <5>1 DEF SeenFits, Does
      <4> QED BY <3>2, <4>5, <4>6, <4>7
    <3> QED BY <3>1, <3>2
  <2>8. UseInv'
    <3>1. \A reads : \A pin \in Nat : pin # 0 /\ Points(pin, reads) => Points(pin, reads)'
      BY <1>0, <1>6 DEF Points, CatalogTypes
    <3> QED BY <1>0, <1>6, <2>1, <3>1 DEF UseInv, Stands, Does, Idle, CatalogTypes, Intent
  <2> QED BY <2>6, <2>7, <2>8 DEF CatalogInv, EditInv
<1>7. ASSUME NEW u \in Users, UpdateTarget(u) PROVE CatalogInv'
  <2>1. /\ Fits(u, "target") /\ target' = After(target) /\ Written(u, "target")
        /\ UNCHANGED << suite, revisions, latest, uses, made >>
    BY <1>7 DEF UpdateTarget
  <2>2. RowOf' = [RowOf EXCEPT !["target"] = After(RowOf["target"])]
    BY <2>1 DEF RowOf
  <2>3. target' \in RowType /\ target'.state = target.state /\ suite' \in RowType
    <3>1. Edits + 1 \in Nat /\ target \in RowType /\ suite \in RowType
      BY <1>0 DEF CatalogTypes, Edits, Things
    <3>2. target' = [target EXCEPT !.version = target.version + 1, !.text = Edits + 1]
      BY <2>1 DEF After
    <3>3. target' = [state |-> target.state, version |-> target.version + 1, text |-> Edits + 1]
      BY <3>1, <3>2 DEF RowType
    <3> QED BY <2>1, <3>1, <3>3 DEF RowType
  <2>4. "target" \in Things /\ revisions \in Seq(Documents) /\ latest' \in 0..Len(revisions)
    BY <1>0, <2>1 DEF CatalogTypes, Things
  <2>5. Len(revisions) <= Len(revisions)
    BY <2>4
  <2> QED BY <1>6, <2>1, <2>2, <2>3, <2>4, <2>5
<1>8. ASSUME NEW u \in Users, UpdateSuite(u) PROVE CatalogInv'
  <2>1. /\ Fits(u, "suite") /\ suite' = After(suite) /\ Written(u, "suite")
        /\ UNCHANGED << target, uses, made >>
    BY <1>8 DEF UpdateSuite
  <2>2. RowOf' = [RowOf EXCEPT !["suite"] = After(RowOf["suite"])]
    BY <2>1 DEF RowOf
  <2>3. suite' \in RowType /\ suite'.state = suite.state /\ target' \in RowType
    <3>1. Edits + 1 \in Nat /\ suite \in RowType /\ target \in RowType
      BY <1>0 DEF CatalogTypes, Edits, Things
    <3>2. suite' = [suite EXCEPT !.version = suite.version + 1, !.text = Edits + 1]
      BY <2>1 DEF After
    <3>3. suite' = [state |-> suite.state, version |-> suite.version + 1, text |-> Edits + 1]
      BY <3>1, <3>2 DEF RowType
    <3> QED BY <2>1, <3>1, <3>3 DEF RowType
  <2>4. PICK r \in Seq(Documents) :
          /\ revisions' = r /\ latest' \in 0..Len(r) /\ Len(revisions) <= Len(r)
          /\ \A i \in 1..Len(revisions) : r[i] = revisions[i]
    <3>1. CASE UNCHANGED << revisions, latest >>
      BY <1>0, <3>1 DEF CatalogTypes
    <3>2. ASSUME NEW d \in Documents, revisions' = Append(revisions, d), latest' = Len(revisions) + 1
          PROVE  /\ revisions' \in Seq(Documents) /\ latest' \in 0..Len(revisions')
                 /\ Len(revisions) <= Len(revisions')
                 /\ \A i \in 1..Len(revisions) : revisions'[i] = revisions[i]
      BY <1>0, <3>2 DEF CatalogTypes
    <3> QED BY <1>8, <3>1, <3>2 DEF UpdateSuite
  <2>5. "suite" \in Things
    BY DEF Things
  <2> QED BY <1>6, <2>1, <2>2, <2>3, <2>4, <2>5
<1>9. ASSUME NEW u \in Users, NEW next \in Intent, next.does # "editing",
             next.does = "using" /\ next.pin # 0 =>
                 suite.state = "active" /\ Points(next.pin, next.reads),
             user' = [user EXCEPT ![u] = next],
             UNCHANGED << target, suite, revisions, latest, uses, made, history >>
      PROVE  CatalogInv'
  <2>1. CatalogTypes'
    BY <1>0, <1>9 DEF CatalogTypes
  <2>2. EditInv'
    BY <1>0, <1>9, <2>1, EditsUntouched DEF CatalogTypes, RowOf
  <2>3. UseInv'
    BY <1>0, <1>9 DEF UseInv, Does, Stands, Points, CatalogTypes
  <2> QED BY <2>1, <2>2, <2>3 DEF CatalogInv
<1>11. ASSUME NEW u \in Users, Refused(u) PROVE CatalogInv'
  BY <1>9, <1>10, <1>11 DEF Refused, Rests, rows
<1>12. ASSUME NEW u \in Users, Choose(u) PROVE CatalogInv'
  <2>1. PICK pin \in {0} \cup (IF Active("suite") THEN 1..Len(revisions) ELSE {}) :
          user' = [user EXCEPT ![u] = [Idle EXCEPT !.does = "using", !.pin = pin,
                       !.reads = IF pin = 0 THEN NoDocument ELSE revisions[pin]]]
    BY <1>12 DEF Choose
  <2> DEFINE reads == IF pin = 0 THEN NoDocument ELSE revisions[pin]
             next  == [Idle EXCEPT !.does = "using", !.pin = pin, !.reads = reads]
  <2>2. pin \in Nat /\ (pin # 0 => suite.state = "active" /\ pin \in 1..Len(revisions))
    BY <1>0, <2>1 DEF Active, RowOf, CatalogTypes
  <2>3. reads \in Documents \cup {NoDocument} /\ (pin # 0 => Points(pin, reads))
    BY <1>0, <2>2 DEF Points, CatalogTypes
  <2>4. next \in Intent /\ next.does = "using" /\ next.pin = pin /\ next.reads = reads
    BY <1>10, <2>2, <2>3 DEF Intent
  <2>5. user' = [user EXCEPT ![u] = next]
    BY <2>1
  <2> HIDE DEF next
  <2> QED BY <1>9, <1>12, <2>2, <2>3, <2>4, <2>5 DEF Choose, rows
<1>13. ASSUME NEW u \in Users, NEW t \in Things, BeginPurge(u, t) PROVE CatalogInv'
  <2> DEFINE next == [Idle EXCEPT !.does = "purging", !.thing = t]
  <2>1. next \in Intent /\ next.does = "purging"
    BY <1>10 DEF Intent
  <2>2. user' = [user EXCEPT ![u] = next]
    BY <1>13 DEF BeginPurge
  <2> HIDE DEF next
  <2> QED BY <1>9, <1>13, <2>1, <2>2 DEF BeginPurge, rows
<1>14. ASSUME NEW u \in Users, Use(u) PROVE CatalogInv'
  <2> DEFINE pin == user[u].pin
             use == [id |-> made + 1, pin |-> pin, reads |-> user[u].reads]
  <2>1. CASE UNCHANGED << uses, made >>
    BY <1>9, <1>10, <1>14, <2>1 DEF Use, Rests, rows
  <2>2. CASE /\ Active("target") /\ (pin # 0 => Active("suite"))
             /\ uses' = uses \cup {use} /\ made' = made + 1
    <3>1. /\ user' = [user EXCEPT ![u] = Idle] /\ Does(u, "using")
          /\ UNCHANGED << target, suite, revisions, latest, history >>
      BY <1>14 DEF Use, Rests, rows
    <3>2. use \in [id : Nat, pin : Nat, reads : Documents \cup {NoDocument}]
      BY <1>0 DEF CatalogTypes, Intent
    <3>3. CatalogTypes'
      BY <1>0, <1>10, <2>2, <3>1, <3>2 DEF CatalogTypes
    <3>4. EditInv'
      BY <1>0, <1>10, <3>1, <3>3, EditsUntouched DEF CatalogTypes, RowOf
    <3>5. Stands(target) /\ (pin # 0 => Stands(suite) /\ Points(pin, user[u].reads))
      BY <1>0, <2>2, <3>1 DEF Stands, Active, RowOf, UseInv
    <3>6. UseInv'
      BY <1>0, <1>10, <2>2, <3>1, <3>5 DEF UseInv, Does, Stands, Points, CatalogTypes
    <3> QED BY <3>3, <3>4, <3>6 DEF CatalogInv
  <2> QED BY <1>14, <2>1, <2>2 DEF Use
<1>15. ASSUME NEW u \in Users, EndPurge(u) PROVE CatalogInv'
  <2> DEFINE t == user[u].thing
  <2>1. t \in Things /\ user' = [user EXCEPT ![u] = Idle] /\ UNCHANGED << uses, made, history >>
    BY <1>0, <1>15 DEF EndPurge, Rests, CatalogTypes, Intent
  <2>2. CASE UNCHANGED rows
    BY <1>9, <1>10, <2>1, <2>2 DEF rows
  <2>3. CASE /\ ~Used(t) /\ Puts(t, "purged")
             /\ IF t = "suite" THEN revisions' = << >> /\ latest' = 0
                ELSE UNCHANGED << revisions, latest >>
    <3>0. /\ revisions' \in Seq(Documents) /\ latest' \in 0..Len(revisions')
          /\ user' \in [Users -> Intent]
          /\ target' \in RowType /\ suite' \in RowType
      <4>1. target' \in RowType /\ suite' \in RowType
        BY <1>1, <2>1, <2>3
      <4>2. revisions' \in Seq(Documents) /\ latest' \in 0..Len(revisions')
        <5>1. CASE revisions' = << >> /\ latest' = 0
          BY <5>1
        <5>2. CASE UNCHANGED << revisions, latest >>
          BY <1>0, <5>2 DEF CatalogTypes
        <5> QED BY <2>3, <5>1, <5>2
      <4> QED BY <1>0, <1>10, <2>1, <4>1, <4>2 DEF CatalogTypes
    <3>1. CatalogTypes'
      BY <1>0, <2>1, <3>0 DEF CatalogTypes
    <3>2. EditInv'
      BY <1>0, <1>1, <1>10, <2>1, <2>3, <3>1, EditsUntouched DEF CatalogTypes
    <3>3. UseInv'
      <4>1. CASE t = "target"
        <5>1. uses' = {} /\ suite' = suite /\ revisions' = revisions
          BY <1>1, <2>1, <2>3, <4>1 DEF Used
        <5> QED BY <1>0, <1>10, <2>1, <5>1 DEF UseInv, Does, Points, CatalogTypes
      <4>2. CASE t = "suite"
        <5>1. target' = target /\ suite'.state = "purged" /\ \A use \in uses' : use.pin = 0
          BY <1>1, <2>1, <2>3, <4>2 DEF Used
        <5> QED BY <1>0, <1>10, <2>1, <5>1 DEF UseInv, Does, Stands, CatalogTypes
      <4> QED BY <2>1, <4>1, <4>2 DEF Things
    <3> QED BY <3>1, <3>2, <3>3 DEF CatalogInv
  <2> QED BY <1>15, <2>2, <2>3 DEF EndPurge
<1>16. ASSUME NEW use \in uses, Drop(use) PROVE CatalogInv'
  <2>1. uses' \subseteq uses /\ UNCHANGED << target, suite, revisions, latest, made, user, history >>
    BY <1>16 DEF Drop, rows
  <2>2. CatalogTypes'
    BY <1>0, <2>1 DEF CatalogTypes
  <2>3. EditInv'
    BY <1>0, <2>1, <2>2, EditsUntouched DEF CatalogTypes, RowOf
  <2>4. UseInv'
    BY <1>0, <2>1 DEF UseInv, Does, Stands, Points
  <2> QED BY <2>2, <2>3, <2>4 DEF CatalogInv
<1>17. CASE UNCHANGED catalogVars
  <2>1. UNCHANGED << target, suite, revisions, latest, uses, made, user, history >>
    BY <1>17 DEF catalogVars, rows
  <2> QED BY <2>1 DEF CatalogInv, CatalogTypes, EditInv, UseInv, RowFits, SeenFits, Chain, RowOf,
                      Does, Stands, Points
<1> QED
  BY <1>2, <1>3, <1>4, <1>5, <1>7, <1>8, <1>11, <1>12, <1>13, <1>14, <1>15, <1>16, <1>17
  DEF CatalogNext

\* Whoever writes to the target or the suite has seen all that was written before.
THEOREM NoLostEdits == CatalogSpec => []EditsBuildOnEachOther
<1>1. CatalogInv => EditsBuildOnEachOther
  BY DEF CatalogInv, EditInv, Chain, EditsBuildOnEachOther
<1> QED BY CatalogStart, CatalogStep, <1>1, PTL DEF CatalogSpec

\* A retained run keeps its target and the revision it used.
THEOREM RunsKeepReferences == CatalogSpec => []RunsKeepWhatTheyUsed
<1>1. CatalogInv => RunsKeepWhatTheyUsed
  BY DEF CatalogInv, UseInv, Stands, Points, RunsKeepWhatTheyUsed
<1> QED BY CatalogStart, CatalogStep, <1>1, PTL DEF CatalogSpec

(***************************************************************************)
(* A partner's application.                                                *)
(***************************************************************************)

Says   == Drafts \cup {NoRequest}
Status == {"none", "DRAFT", "SUBMITTED"}
Asker  == [does : {"nothing", "finding", "inserting", "deciding"}, request : Says,
           version : Nat, saw : Says]

Application == [status : Status, version : Nat, says : Says, request : Says]

\* The types of the row and of its callers.
PartnerTypes ==
    /\ application \in Application
    /\ applicant \in [Applicants -> Asker]

\* All were answered with the row's request, which was theirs.
AnswersAgree ==
    /\ \A x \in answers : x.sent = application.request /\ x.got = application.request
    /\ application.status = "none" => answers = {}

\* Who is about to decide saw one version of the row, and what it said then.
SeenIsVersion ==
    \A a \in Applicants : Doing(a, "deciding") =>
        /\ Drafted
        /\ applicant[a].version <= application.version
        /\ applicant[a].version = application.version => applicant[a].saw = application.says

PartnerInv == PartnerTypes /\ AnswersAgree /\ SeenIsVersion /\ SnapshotIsWhatStands

\* PartnerInv holds before anything is sent.
LEMMA PartnerStart == PartnerInit => PartnerInv
BY DEF PartnerInit, PartnerInv, PartnerTypes, AnswersAgree, SeenIsVersion, SnapshotIsWhatStands,
       Says, Status, Asker, Application, Nothing, Doing

\* Every step of a caller keeps PartnerInv.
LEMMA PartnerStep == PartnerInv /\ [PartnerNext]_partnerVars => PartnerInv'
<1> SUFFICES ASSUME PartnerInv, [PartnerNext]_partnerVars PROVE PartnerInv'
  OBVIOUS
<1> USE DEF PartnerInv
<1>0. /\ Nothing \in Asker /\ Nothing.does = "nothing" /\ Nothing.version = 0
      /\ \A a \in Applicants : applicant[a] \in Asker
  BY DEF Nothing, Asker, Says, PartnerTypes
\* A step of a that leaves the row alone, and does not decide.
<1>1. ASSUME NEW a \in Applicants, NEW next \in Asker, next.does # "deciding",
             applicant' = [applicant EXCEPT ![a] = next],
             UNCHANGED << application, snapshots >>,
             \/ answers' = answers
             \/ (/\ Drafted /\ applicant[a].request = application.request
                 /\ answers' = answers \cup {[sent |-> applicant[a].request, got |-> application.request]})
      PROVE  PartnerInv'
  <2>1. PartnerTypes'
    BY <1>1 DEF PartnerTypes
  <2>2. AnswersAgree'
    BY <1>1 DEF AnswersAgree, Drafted
  <2>3. SeenIsVersion'
    BY <1>1 DEF SeenIsVersion, PartnerTypes, Doing, Drafted
  <2>4. SnapshotIsWhatStands'
    BY <1>1 DEF SnapshotIsWhatStands
  <2> QED BY <2>1, <2>2, <2>3, <2>4
<1>2. ASSUME NEW a \in Applicants, NEW r \in Drafts, Send(a, r) PROVE PartnerInv'
  <2> DEFINE next == [Nothing EXCEPT !.does = "finding", !.request = r]
  <2>1. next \in Asker /\ next.does = "finding"
    BY <1>0 DEF Asker, Says
  <2>2. applicant' = [applicant EXCEPT ![a] = next] /\ UNCHANGED << application, snapshots, answers >>
    BY <1>2 DEF Send, Becomes
  <2> HIDE DEF next
  <2> QED BY <1>1, <2>1, <2>2
<1>3. ASSUME NEW a \in Applicants, FindByKey(a) PROVE PartnerInv'
  <2>1. CASE Drafted
    <3>1. /\ applicant' = [applicant EXCEPT ![a] = Nothing]
          /\ \/ answers' = answers
             \/ (/\ applicant[a].request = application.request
                 /\ answers' = answers \cup {[sent |-> applicant[a].request, got |-> application.request]})
          /\ UNCHANGED << application, snapshots >>
      BY <1>3, <2>1 DEF FindByKey, AnswerReplay, Becomes
    <3> QED BY <1>0, <1>1, <2>1, <3>1
  <2>2. CASE ~Drafted
    <3> DEFINE next == [applicant[a] EXCEPT !.does = "inserting"]
    <3>1. next \in Asker /\ next.does = "inserting"
      BY <1>0 DEF Asker
    <3>2. applicant' = [applicant EXCEPT ![a] = next] /\ UNCHANGED << application, snapshots, answers >>
      BY <1>3, <2>2 DEF FindByKey, Becomes
    <3> HIDE DEF next
    <3> QED BY <1>1, <3>1, <3>2
  <2> QED BY <2>1, <2>2
<1>4. ASSUME NEW a \in Applicants, Insert(a) PROVE PartnerInv'
  <2>1. CASE Drafted
    <3> DEFINE next == [applicant[a] EXCEPT !.does = "finding"]
    <3>1. next \in Asker /\ next.does = "finding"
      BY <1>0 DEF Asker
    <3>2. applicant' = [applicant EXCEPT ![a] = next] /\ UNCHANGED << application, snapshots, answers >>
      BY <1>4, <2>1 DEF Insert, Becomes
    <3> HIDE DEF next
    <3> QED BY <1>1, <3>1, <3>2
  <2>2. CASE ~Drafted
    <3> DEFINE r == applicant[a].request
    <3>1. /\ application' = [status |-> "DRAFT", version |-> 1, says |-> r, request |-> r]
          /\ answers' = answers \cup {[sent |-> r, got |-> r]}
          /\ Becomes(a, Nothing) /\ UNCHANGED snapshots
      BY <1>4, <2>2 DEF Insert
    <3>2. PartnerTypes'
      BY <1>0, <3>1 DEF PartnerTypes, Becomes, Asker, Status, Application
    <3>3. AnswersAgree'
      BY <2>2, <3>1 DEF AnswersAgree, Drafted
    <3>4. SeenIsVersion'
      BY <1>0, <2>2, <3>1 DEF SeenIsVersion, PartnerTypes, Becomes, Doing
    <3>5. SnapshotIsWhatStands'
      BY <2>2, <3>1 DEF SnapshotIsWhatStands, Drafted
    <3> QED BY <3>2, <3>3, <3>4, <3>5
  <2> QED BY <2>1, <2>2
<1>5. ASSUME NEW a \in Applicants, Look(a) PROVE PartnerInv'
  <2> DEFINE next == [Nothing EXCEPT !.does = "deciding", !.version = application.version,
                                     !.saw = application.says]
  <2>1. application.version \in Nat /\ application.says \in Says
    BY DEF PartnerTypes, Application
  <2>2. /\ next \in Asker /\ next.version = application.version /\ next.saw = application.says
    BY <1>0, <2>1 DEF Asker
  <2>3. applicant' = [applicant EXCEPT ![a] = next] /\ Drafted
        /\ UNCHANGED << application, snapshots, answers >>
    BY <1>5 DEF Look, Becomes
  <2> HIDE DEF next
  <2>4. PartnerTypes' /\ AnswersAgree' /\ SnapshotIsWhatStands'
    BY <2>2, <2>3 DEF PartnerTypes, AnswersAgree, SnapshotIsWhatStands
  <2>5. SeenIsVersion'
    BY <2>1, <2>2, <2>3 DEF SeenIsVersion, PartnerTypes, Doing, Drafted
  <2> QED BY <2>4, <2>5
\* A decision: the row moves on by one version, and a has seen what it said.
<1>6. ASSUME NEW a \in Applicants, StandsAsSeen(a), Becomes(a, Nothing), UNCHANGED answers,
             NEW status \in {"DRAFT", "SUBMITTED"}, NEW says \in Says,
             application' = [application EXCEPT !.status = status, !.says = says, !.version = @ + 1]
      PROVE  PartnerTypes' /\ AnswersAgree' /\ SeenIsVersion'
             /\ application'.status = status /\ application'.says = says
             /\ applicant[a].saw = application.says /\ application.status = "DRAFT"
  <2>1. /\ application' \in Application
        /\ application'.status = status /\ application'.says = says
        /\ application'.request = application.request
        /\ application'.version = application.version + 1 /\ application.version \in Nat
    <3>1. application \in Application /\ application.version + 1 \in Nat /\ status \in Status
          /\ application.version \in Nat
      BY DEF PartnerTypes, Application, Status
    <3> HIDE DEF PartnerInv
    <3> QED BY <1>6, <3>1 DEF Application
  <2>2. PartnerTypes'
    BY <1>0, <1>6, <2>1 DEF PartnerTypes, Becomes
  <2>3. AnswersAgree'
    BY <1>6, <2>1 DEF AnswersAgree, StandsAsSeen
  <2>4. SeenIsVersion'
    <3>1. ASSUME NEW b \in Applicants, applicant'[b].does = "deciding"
          PROVE  applicant'[b].version \in Nat /\ applicant'[b].version <= application.version
      <4>1. b # a /\ applicant'[b] = applicant[b]
        BY <1>0, <1>6, <3>1 DEF PartnerTypes, Becomes
      <4> QED BY <1>0, <3>1, <4>1 DEF SeenIsVersion, Doing, Asker
    <3> QED BY <1>6, <2>1, <3>1 DEF SeenIsVersion, Doing, Drafted
  <2> QED BY <1>6, <2>1, <2>2, <2>3, <2>4 DEF StandsAsSeen, SeenIsVersion
<1>7. ASSUME NEW a \in Applicants, NEW r \in Drafts, Edit(a, r) PROVE PartnerInv'
  <2>1. application' = [application EXCEPT !.status = "DRAFT", !.says = r, !.version = @ + 1]
    BY <1>7 DEF Edit, StandsAsSeen, PartnerTypes, Application
  <2>2. /\ PartnerTypes' /\ AnswersAgree' /\ SeenIsVersion' /\ application'.status = "DRAFT"
        /\ application.status = "DRAFT" /\ UNCHANGED snapshots
    BY <1>6, <1>7, <2>1 DEF Edit, Says
  <2> QED BY <2>2 DEF SnapshotIsWhatStands
<1>8. ASSUME NEW a \in Applicants, Submit(a) PROVE PartnerInv'
  <2>1. application' = [application EXCEPT !.status = "SUBMITTED", !.says = application.says,
                                           !.version = @ + 1]
        /\ application.says \in Says
    BY <1>8 DEF Submit, PartnerTypes, Application
  <2>2. /\ PartnerTypes' /\ AnswersAgree' /\ SeenIsVersion' /\ application'.status = "SUBMITTED"
        /\ application'.says = application.says /\ applicant[a].saw = application.says
        /\ application.status = "DRAFT"
    BY <1>6, <1>8, <2>1 DEF Submit
  <2>3. snapshots = << >>
        /\ snapshots' = Append(snapshots, [says |-> application.says, saw |-> applicant[a].saw])
    BY <1>8, <2>2 DEF Submit, SnapshotIsWhatStands
  <2> QED BY <2>2, <2>3 DEF SnapshotIsWhatStands
<1>9. ASSUME NEW a \in Applicants, TurnedDown(a) PROVE PartnerInv'
  BY <1>0, <1>1, <1>9 DEF TurnedDown, Becomes
<1>10. CASE UNCHANGED partnerVars
  BY <1>10 DEF partnerVars, PartnerTypes, AnswersAgree, SeenIsVersion, SnapshotIsWhatStands,
               Doing, Drafted
<1> QED
  BY <1>2, <1>3, <1>4, <1>5, <1>7, <1>8, <1>9, <1>10 DEF PartnerNext

\* Whoever was answered for a key was answered with the one application made with it,
\* and had asked for it.
THEOREM OneRequestPerKey == PartnerSpec => []KeyMeansOneRequest
<1>1. PartnerInv => KeyMeansOneRequest
  BY DEF PartnerInv, AnswersAgree, KeyMeansOneRequest
<1> QED BY PartnerStart, PartnerStep, <1>1, PTL DEF PartnerSpec

\* The snapshot of a submitted application is what the row says and its submitter saw.
THEOREM SnapshotStands == PartnerSpec => []SnapshotIsWhatStands
<1>1. PartnerInv => SnapshotIsWhatStands
  BY DEF PartnerInv
<1> QED BY PartnerStart, PartnerStep, <1>1, PTL DEF PartnerSpec

(***************************************************************************)
(* An attempt limit.                                                       *)
(***************************************************************************)

\* The types of the clock, the row and the attempts.
LimitTypes ==
    /\ now \in Nat /\ turnedAway \in Nat
    /\ limit \in [attempts : Nat, started : Nat, blocked : Nat]
    /\ letIn \in Seq(Nat)

\* The last k attempts let in belong to the window that has begun; the others came
\* before it, and all but MaxCalls of these a window's length before it.
Windows(k) ==
    /\ k <= MaxCalls /\ k <= limit.attempts /\ k <= Len(letIn)
    /\ limit.attempts = 0 => Len(letIn) = 0
    /\ \A i \in 1..Len(letIn) :
           /\ letIn[i] <= now
           /\ i <= Len(letIn) - k => letIn[i] <= limit.started
           /\ i <= Len(letIn) - k - MaxCalls => letIn[i] + Window <= limit.started

\* No window begins, and no attempt was turned away, in the future; a block is no longer
\* than it may be.
BlockEnds ==
    /\ limit.started <= now
    /\ limit.blocked <= now + Block
    /\ turnedAway # 0 => /\ limit.started <= turnedAway /\ turnedAway <= now
                         /\ limit.blocked <= turnedAway + Block

Spread == \A m, n \in DOMAIN letIn : n - m >= 2 * MaxCalls => letIn[n] - letIn[m] >= Window

LimitInv == LimitTypes /\ (\E k \in Nat : Windows(k)) /\ BlockEnds /\ Spread

\* LimitInv holds before the first attempt.
LEMMA LimitStart == LimitInit => LimitInv
<1> SUFFICES ASSUME LimitInit PROVE LimitInv
  OBVIOUS
<1> USE LimitAssumption DEF LimitInit
<1>1. LimitTypes /\ Len(letIn) = 0
  BY DEF LimitTypes
<1>2. Windows(0) /\ BlockEnds /\ Spread
  BY <1>1 DEF Windows, BlockEnds, Spread
<1> QED BY <1>1, <1>2 DEF LimitInv

\* Every attempt, and time, keep LimitInv.
LEMMA LimitStep == LimitInv /\ [LimitNext]_limitVars => LimitInv'
<1> SUFFICES ASSUME LimitInv, [LimitNext]_limitVars PROVE LimitInv'
  OBVIOUS
<1>0. LimitTypes /\ BlockEnds /\ Spread
  BY DEF LimitInv
<1>1. PICK k \in Nat : Windows(k)
  BY DEF LimitInv
<1>2. /\ MaxCalls \in Nat /\ MaxCalls >= 1 /\ Window \in Nat /\ Window >= 1
      /\ Block \in Nat /\ Block >= Window /\ Len(letIn) \in Nat
      /\ now \in Nat /\ turnedAway \in Nat
      /\ limit.attempts \in Nat /\ limit.started \in Nat /\ limit.blocked \in Nat
      /\ \A i \in 1..Len(letIn) : letIn[i] \in Nat
  BY <1>0, LimitAssumption DEF LimitTypes
<1>3. CASE Passes
  <2>1. LimitTypes' /\ Spread'
    BY <1>0, <1>3 DEF Passes, LimitTypes, Spread
  <2>2. Windows(k)'
    BY <1>1, <1>2, <1>3 DEF Passes, Windows
  <2>3. BlockEnds'
    BY <1>0, <1>2, <1>3 DEF Passes, BlockEnds
  <2> QED BY <2>1, <2>2, <2>3 DEF LimitInv
<1>4. CASE Attempt
  <2>1. /\ limit'.attempts = (IF Elapsed THEN 1 ELSE limit.attempts + 1)
        /\ limit'.started = (IF Elapsed THEN now ELSE limit.started)
        /\ limit'.blocked = (IF limit.blocked > now THEN limit.blocked
                             ELSE IF ~Elapsed /\ limit.attempts + 1 > MaxCalls THEN now + Block ELSE 0)
        /\ now' = now
    BY <1>4 DEF Attempt, Consumed
  <2>2. limit' \in [attempts : Nat, started : Nat, blocked : Nat]
    BY <1>2, <1>4 DEF Attempt, Consumed
  \* What came before a window that has run out came a window's length before now.
  <2>3. Elapsed => \A i \in 1..Len(letIn) : i <= Len(letIn) - k => letIn[i] + Window <= now
    <3>1. SUFFICES ASSUME Elapsed, NEW i \in 1..Len(letIn), i <= Len(letIn) - k
                   PROVE  letIn[i] + Window <= now
      OBVIOUS
    <3>2. letIn[i] <= limit.started /\ letIn[i] \in Nat /\ limit.attempts # 0
      BY <1>1, <1>2, <3>1 DEF Windows
    <3>3. limit.started + Window <= now
      BY <3>1, <3>2 DEF Elapsed
    <3> QED BY <1>2, <3>2, <3>3
  <2>4. CASE limit'.blocked <= now
    <3>1. letIn' = Append(letIn, now) /\ turnedAway' = 0
      BY <1>4, <2>4 DEF Attempt
    <3>2. /\ Len(letIn') = Len(letIn) + 1 /\ letIn'[Len(letIn) + 1] = now
          /\ \A i \in 1..Len(letIn) : letIn'[i] = letIn[i]
          /\ letIn' \in Seq(Nat)
      BY <1>0, <1>2, <3>1 DEF LimitTypes
    <3>3. LimitTypes'
      BY <1>0, <2>1, <2>2, <3>1, <3>2 DEF LimitTypes
    <3>4. BlockEnds'
      BY <1>0, <1>2, <2>1, <2>4, <3>1 DEF BlockEnds
    <3>5. \E j \in Nat : Windows(j)'
      <4>1. CASE Elapsed
        <5>1. Windows(1)'
          <6>1. ASSUME NEW i \in 1..(Len(letIn) + 1)
                PROVE  /\ letIn'[i] <= now'
                       /\ i <= Len(letIn) => letIn'[i] <= limit'.started
                       /\ i <= Len(letIn) - MaxCalls => letIn'[i] + Window <= limit'.started
            <7>1. CASE i = Len(letIn) + 1
              BY <1>2, <2>1, <3>2, <4>1, <7>1
            <7>2. CASE i # Len(letIn) + 1
              <8>1. i \in 1..Len(letIn) /\ letIn'[i] = letIn[i] /\ letIn[i] \in Nat /\ letIn[i] <= now
                BY <1>1, <1>2, <3>2, <7>2 DEF Windows
              <8>2. i <= Len(letIn) - MaxCalls => letIn[i] + Window <= now
                BY <1>1, <1>2, <2>3, <4>1, <8>1 DEF Windows
              <8> QED BY <1>2, <2>1, <4>1, <8>1, <8>2
            <7> QED BY <7>1, <7>2
          <6> QED BY <1>2, <2>1, <3>2, <4>1, <6>1 DEF Windows
        <5> QED BY <5>1
      <4>2. CASE ~Elapsed
        <5>1. limit.attempts + 1 <= MaxCalls
          BY <1>2, <2>1, <2>4, <4>2
        <5>2. Windows(k + 1)'
          <6>1. ASSUME NEW i \in 1..(Len(letIn) + 1)
                PROVE  /\ letIn'[i] <= now'
                       /\ i <= Len(letIn) - k => letIn'[i] <= limit'.started
                       /\ i <= Len(letIn) - k - MaxCalls => letIn'[i] + Window <= limit'.started
            <7>1. CASE i = Len(letIn) + 1
              BY <1>1, <1>2, <2>1, <3>2, <7>1
            <7>2. CASE i # Len(letIn) + 1
              <8>1. i \in 1..Len(letIn) /\ letIn'[i] = letIn[i]
                BY <1>2, <3>2, <7>2
              <8> QED BY <1>1, <2>1, <4>2, <8>1 DEF Windows
            <7> QED BY <7>1, <7>2
          <6> QED BY <1>1, <1>2, <2>1, <3>2, <4>2, <5>1, <6>1 DEF Windows
        <5> QED BY <5>2
      <4> QED BY <4>1, <4>2
    <3>6. Spread'
      <4>1. SUFFICES ASSUME NEW m \in 1..(Len(letIn) + 1), NEW n \in 1..(Len(letIn) + 1),
                            n - m >= 2 * MaxCalls
                     PROVE letIn'[n] - letIn'[m] >= Window
        BY <3>2, <3>3 DEF Spread, LimitTypes
      <4>2. CASE n <= Len(letIn)
        <5>1. m \in 1..Len(letIn) /\ n \in 1..Len(letIn)
          BY <1>2, <4>1, <4>2
        <5>2. m \in DOMAIN letIn /\ n \in DOMAIN letIn
          BY <1>0, <5>1 DEF LimitTypes
        <5> QED BY <1>0, <3>2, <4>1, <5>1, <5>2 DEF Spread
      <4>3. CASE n = Len(letIn) + 1
        <5>1. m \in 1..Len(letIn) /\ letIn'[m] = letIn[m] /\ letIn'[n] = now
          BY <1>2, <3>2, <4>1, <4>3
        <5>2. letIn[m] + Window <= now
          <6>1. CASE Elapsed
            BY <1>1, <1>2, <2>3, <4>1, <4>3, <5>1, <6>1 DEF Windows
          <6>2. CASE ~Elapsed
            <7>1. k <= limit.attempts /\ limit.attempts + 1 <= MaxCalls
              <8>1. limit.attempts + 1 <= MaxCalls
                BY <1>2, <2>1, <2>4, <6>2
              <8> QED BY <1>1, <8>1 DEF Windows
            <7>2. m <= Len(letIn) - k - MaxCalls
              BY <1>2, <4>1, <4>3, <7>1
            <7>3. letIn[m] + Window <= limit.started /\ limit.started <= now
              BY <1>0, <1>1, <5>1, <7>2 DEF Windows, BlockEnds
            <7> QED BY <1>2, <5>1, <7>3
          <6> QED BY <6>1, <6>2
        <5> QED BY <1>2, <5>1, <5>2
      <4> QED BY <1>2, <4>2, <4>3
    <3> QED BY <3>3, <3>4, <3>5, <3>6 DEF LimitInv
  <2>5. CASE ~(limit'.blocked <= now)
    <3>1. UNCHANGED letIn /\ turnedAway' = now
      BY <1>4, <2>5 DEF Attempt
    <3>2. LimitTypes' /\ Spread'
      BY <1>0, <2>1, <2>2, <3>1 DEF LimitTypes, Spread
    <3>3. BlockEnds'
      BY <1>0, <1>2, <2>1, <3>1 DEF BlockEnds
    <3>4. \E j \in Nat : Windows(j)'
      <4>1. CASE Elapsed
        <5>1. Windows(0)'
          BY <1>1, <1>2, <2>1, <2>3, <3>1, <4>1 DEF Windows
        <5> QED BY <5>1
      <4>2. CASE ~Elapsed
        <5>1. Windows(k)'
          BY <1>1, <1>2, <2>1, <3>1, <4>2 DEF Windows
        <5> QED BY <5>1
      <4> QED BY <4>1, <4>2
    <3> QED BY <3>2, <3>3, <3>4 DEF LimitInv
  <2> QED BY <2>4, <2>5
<1>5. CASE UNCHANGED limitVars
  BY <1>0, <1>1, <1>5 DEF limitVars, LimitInv, LimitTypes, Windows, BlockEnds, Spread
<1> QED BY <1>3, <1>4, <1>5 DEF LimitNext

\* In no time as long as a window are twice the allowed attempts exceeded, and no block
\* outlasts its length.
THEOREM LimitsHold == LimitSpec => []LimitHolds
<1>1. LimitInv => LimitHolds
  <2> SUFFICES ASSUME LimitInv PROVE LimitHolds
    OBVIOUS
  <2>1. LimitTypes /\ BlockEnds /\ Spread
    BY DEF LimitInv
  <2>2. ASSUME turnedAway # 0, turnedAway + Block <= now PROVE Consumed.blocked <= now
    <3>1. limit.blocked <= now /\ Elapsed
      BY <2>1, <2>2, LimitAssumption DEF LimitTypes, BlockEnds, Elapsed
    <3> QED BY <2>1, <3>1 DEF Consumed, LimitTypes
  <2> QED BY <2>1, <2>2 DEF LimitHolds, Spread
<1> QED BY LimitStart, LimitStep, <1>1, PTL DEF LimitSpec
=============================================================================
