---------------------------- MODULE StoresProofs ----------------------------
(***************************************************************************)
(* What is kept stays kept: the theorems of MCStores.  A step of it is a   *)
(* step of one of its parts; RegistryProofs and FilesProofs have what is   *)
(* so of each at every moment.                                             *)
(***************************************************************************)
EXTENDS MCStores, RegistryProofs, FilesProofs

\* What the tapes are kept under: no two uploads at once want one name, one
\* delete is served at a time, and no audit fails beside a delete.
OneTapeAtATime == OneNameEach /\ OneDeleter /\ AuditHoldsBesideDelete

\* Every part but the tapes, which need these premises.
StoresInv ==
    /\ OpeningInv /\ TokensInv /\ AuthInv /\ RegistrationInv /\ GlossaryInv
    /\ DraftInv /\ RequestInv /\ ImportInv /\ PassInv

\* A step of one part is that part's, and leaves the others where they are.
LEMMA PartsStep ==
  ASSUME [StoresNext]_storeVars
  PROVE  /\ [TapesNext]_tapesVars /\ [DraftNext]_draftVars /\ [AuthNext]_authVars
         /\ [TokensNext]_tokenVars /\ [OpeningNext]_openingVars
         /\ [RegistrationNext]_registrationVars /\ [RequestNext]_requestVars
         /\ [GlossaryNext]_glossaryVars /\ [ImportNext]_importVars /\ [DrillNext]_drillVars
BY DEF StoresNext, TapesStep, DraftsStep, AuthStep, TokensStep, OpeningStep, RegistrationStep,
       RequestStep, GlossaryStep, ImportStep, DrillStep, storeVars

\* Every part but the tapes begins and stays in its invariant.
LEMMA StoresInvInit == StoresInit => StoresInv
BY OpeningInitInv, TokensInitInv, AuthInitInv, RegistrationInitInv, GlossaryInitInv, DraftInitInv,
   RequestInitInv, ImportInitInv, PassInitInv DEF StoresInit, StoresInv

\* A step of any part keeps the invariant of each.
LEMMA StoresInvStays == ASSUME StoresInv, [StoresNext]_storeVars PROVE StoresInv'
<1>1. OpeningInv' /\ TokensInv' /\ AuthInv' /\ RegistrationInv'
  BY PartsStep, OpeningStays, TokensStay, AuthStays, RegistrationStays DEF StoresInv
<1>2. GlossaryInv' /\ DraftInv' /\ RequestInv' /\ ImportInv' /\ PassInv'
  BY PartsStep, GlossaryStays, DraftStays, RequestStays, ImportStays, PassStays DEF StoresInv
<1>3. QED
  BY <1>1, <1>2 DEF StoresInv

\* So it holds at every moment.
LEMMA StoresInvAlways == StoresSpec => []StoresInv
BY StoresInvInit, StoresInvStays, PTL DEF StoresSpec

\* The tapes' invariant holds at every moment under the premises of TapesStay.
LEMMA TapesInvAlways == OneTapeAtATime => (StoresSpec => []TapesInv)
<1> SUFFICES ASSUME OneTapeAtATime PROVE StoresSpec => []TapesInv
  OBVIOUS
<1>1. StoresInit => TapesInv
  BY TapesInitInv DEF StoresInit, OneTapeAtATime
<1>2. TapesInv /\ [StoresNext]_storeVars => TapesInv'
  BY PartsStep, TapesStay DEF OneTapeAtATime
<1>3. QED
  BY <1>1, <1>2, PTL DEF StoresSpec

\* Every variable of what is kept keeps its type.
THEOREM StoresTypesCorrect == OneTapeAtATime => (StoresSpec => []StoresTypeOK)
<1> SUFFICES ASSUME OneTapeAtATime PROVE StoresSpec => []StoresTypeOK
  OBVIOUS
<1>1. StoresInv /\ TapesInv => StoresTypeOK
  <2>1. TapesInv => TapesTypeOK
    BY TapesInvGives
  <2>2. StoresInv => /\ OpeningTypeOK /\ TokensTypeOK /\ RegistrationTypeOK /\ GlossaryTypeOK
                     /\ DraftTypeOK /\ RequestTypeOK /\ ImportTypeOK /\ DrillTypeOK
    BY OpeningInvGives, TokensInvGives, RegistrationInvGives, GlossaryInvGives, DraftInvGives,
       RequestInvGives, ImportInvGives, DrillInvGives, PassInvGives DEF StoresInv
  <2>3. StoresInv => AuthTypeOK
    BY DEF StoresInv, AuthInv
  <2>4. QED
    BY <2>1, <2>2, <2>3 DEF StoresTypeOK
<1>2. QED
  BY <1>1, StoresInvAlways, TapesInvAlways, PTL

\* A row names the bytes that were uploaded as it; a tape whose deletion was
\* licensed is in an archive that holds it; an archive that reads whole is
\* whole: whatever uploads, archives, deletes, crashes and audits that fail come
\* together, but for two uploads of one name at once, two deletes at once, and
\* an audit that fails beside a delete.
THEOREM TapesAreKept == OneTapeAtATime => (StoresSpec => []TapesHold)
<1> SUFFICES ASSUME OneTapeAtATime PROVE StoresSpec => []TapesHold
  OBVIOUS
<1>1. TapesInv => TapesHold
  BY TapesInvGives DEF TapesHold
<1>2. QED
  BY <1>1, TapesInvAlways, PTL

\* What the owner decided is recorded once and read back: an accepted draft has
\* produced what its kind produces, once; a retired term is restored to the
\* status it was retired from.
THEOREM ReviewsAreKept == StoresSpec => []ReviewsHold
<1>1. StoresInv => ReviewsHold
  BY DraftInvGives, GlossaryInvGives DEF StoresInv, ReviewsHold
<1>2. QED
  BY <1>1, StoresInvAlways, PTL

\* A registry that is open is whole, whichever era left it and however many
\* openers of however many builds met over it; a row of the audit says what its
\* call did, and a call that ended owes none but what it may still write; a
\* session in use is live for half an idle window more, and a token's stamp is
\* no older than an interval before its last call.
THEOREM RegistryIsKept == StoresSpec => []RegistryHolds
<1>1. StoresInv => OpenedMeansWhole /\ RecordIsTheAccount /\ StampFollowsUse
  BY OpeningInvGives, RegistrationInvGives, TokensInvGives DEF StoresInv
<1>2. StoresInv => IdleClockFollowsUse
  BY DEF StoresInv, AuthInv
<1>3. StoresInv => RegistryHolds
  BY <1>1, <1>2 DEF RegistryHolds
<1>4. QED
  BY <1>3, StoresInvAlways, PTL

\* A run is started with what was asked: each knob from who named it first, the
\* model that was named or the largest that is there to be had, and the options
\* its row shows, across restarts of the node, resumed rows and what is
\* installed meanwhile.
THEOREM RunsAreAsAsked == StoresSpec => []RequestsHold
<1>1. StoresInv => RequestsHold
  BY RequestInvGives DEF StoresInv
<1>2. QED
  BY <1>1, StoresInvAlways, PTL

\* A ticket is imported once and its comments are posted once, whatever answers
\* were lost and wherever runs died; a repair that ends without a failure while
\* nobody else worked on the tracker leaves each ticket and each page as in the
\* archive; and a drill that passes served what its dump holds, whatever the
\* sums of the comments are.
THEOREM ScriptsAreFaithful == StoresSpec => []ScriptsHold
<1>1. StoresInv => ScriptsHold
  BY ImportInvGives, PassInvGives DEF StoresInv, ScriptsHold
<1>2. QED
  BY <1>1, StoresInvAlways, PTL

\* No step undoes what another recorded: chains of drafts only grow, and are
\* decided by who read them; a console is claimed once, and a session that ended
\* stays ended; a registry's revision only grows, and a build that cannot open
\* it leaves it; a folder is registered once; a run resolves only terms that
\* were confirmed; an import without the flag leaves what was there, and a drill
\* leaves what it did not write.
THEOREM NothingIsUndone == StoresSpec => StepsHold
<1>1. StoresSpec => ChainsOnlyGrow /\ DecidesWhatWasRead
  <2>1. ASSUME StoresInv, [StoresNext]_storeVars
        PROVE  /\ [\A c \in Chain : \A i \in DOMAIN chain[c] :
                     /\ i \in DOMAIN chain'[c]
                     /\ chain'[c][i].text = chain[c][i].text
                     /\ chain[c][i].decision \in {"none", chain'[c][i].decision}]_draftVars
               /\ [\A c \in Chain : \A i \in DOMAIN chain[c] :
                     chain'[c][i].decision # chain[c][i].decision =>
                         \E r \in DraftRequest : req[r].chain = c /\ Len(req[r].saw) = i]_draftVars
    <3>1. GrowStep /\ DecideStep
      BY <2>1, PartsStep, DraftStays DEF StoresInv
    <3>2. QED
      BY <3>1 DEF GrowStep, DecideStep
  <2>2. QED
    BY <2>1, StoresInvAlways, PTL DEF StoresSpec, ChainsOnlyGrow, DecidesWhatWasRead
<1>2. StoresSpec => ClaimedOnce /\ EndedSessionsStayEnded
  <2>1. ASSUME StoresInv, [StoresNext]_storeVars
        PROVE  /\ [credential # NoPassword /\ credential' # credential => rescue'.at # rescue.at]_authVars
               /\ [\A s \in 1..opened : idle[s] = Ended => idle'[s] = Ended]_authVars
    <3>1. ClaimsStep /\ EndedStep
      BY <2>1, PartsStep, AuthStays DEF StoresInv
    <3>2. QED
      BY <3>1 DEF ClaimsStep, EndedStep
  <2>2. QED
    BY <2>1, StoresInvAlways, PTL DEF StoresSpec, ClaimedOnce, EndedSessionsStayEnded
<1>3. StoresSpec => OpensOnlyForward /\ RefusedChangesNothing
  <2>1. ASSUME StoresInv, [StoresNext]_storeVars
        PROVE  /\ [/\ \A n \in registry.rows : \E k \in registry'.rows : k >= n
                   /\ \A r \in registry.runs :
                        Owned(r) => \A s \in registry'.runs : s.id = r.id => s.status # "interrupted"]_openingVars
               /\ [\A o \in Opener :
                     opener[o].at \in {"lock", "read", "upgrade"} /\ opener'[o].at \in {"closed", "refused"}
                       => registry' = registry]_openingVars
    <3>1. ForwardStep /\ RefusedStep
      BY <2>1, PartsStep, OpeningStays DEF StoresInv
    <3>2. QED
      BY <3>1 DEF ForwardStep, RefusedStep
  <2>2. QED
    BY <2>1, StoresInvAlways, PTL DEF StoresSpec, OpensOnlyForward, RefusedChangesNothing
<1>4. StoresSpec => RegistersOnce
  <2>1. ASSUME StoresInv, [StoresNext]_storeVars
        PROVE  [\A m \in meetings' \ meetings :
                  /\ m.registered => \A n \in meetings : n.folder # m.folder
                  /\ \E p \in projects' : p.slug = m.project]_registrationVars
    <3>1. RegistersStep
      BY <2>1, PartsStep, RegistrationStays DEF StoresInv
    <3>2. QED
      BY <3>1 DEF RegistersStep
  <2>2. QED
    BY <2>1, StoresInvAlways, PTL DEF StoresSpec, RegistersOnce
<1>5. StoresSpec => OnlyConfirmedIsResolved
  <2>1. ASSUME StoresInv, [StoresNext]_storeVars
        PROVE  [run'.at = "decode" /\ run.at # "decode" => run'.terms \intersect Unconfirmed = {}]_glossaryVars
    <3>1. ResolvedStep
      BY <2>1, PartsStep, GlossaryStays DEF StoresInv
    <3>2. QED
      BY <3>1 DEF ResolvedStep
  <2>2. QED
    BY <2>1, StoresInvAlways, PTL DEF StoresSpec, OnlyConfirmedIsResolved
<1>6. StoresSpec => ApplyLeavesWhatExists
  <2>1. ASSUME StoresInv, [StoresNext]_storeVars
        PROVE  [(import.at # "idle" /\ ~ import.repair /\ edits' = edits) =>
                  /\ \A t \in import.existing : issue'[t] = issue[t]
                  /\ \A p \in Pages : page[p] = "edited" => page'[p] = "edited"]_importVars
    <3>1. LeavesWhatExists
      BY <2>1, PartsStep, ApplyLeaves DEF StoresInv
    <3>2. QED
      BY <3>1 DEF LeavesWhatExists, LeftAlone
  <2>2. QED
    BY <2>1, StoresInvAlways, PTL DEF StoresSpec, ApplyLeavesWhatExists
<1>7. StoresSpec => ForeignFilesStay
  <2>1. ASSUME StoresInv, [StoresNext]_storeVars
        PROVE  [scratch.foreign => scratch'.foreign]_drillVars
    <3>1. ForeignStays
      BY <2>1, PartsStep, PassInvGives, DrillLeaves DEF StoresInv
    <3>2. QED
      BY <3>1 DEF ForeignStays
  <2>2. QED
    BY <2>1, StoresInvAlways, PTL DEF StoresSpec, ForeignFilesStay
<1>8. QED
  BY <1>1, <1>2, <1>3, <1>4, <1>5, <1>6, <1>7 DEF StepsHold
=============================================================================
