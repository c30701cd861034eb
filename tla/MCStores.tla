------------------------------- MODULE MCStores -------------------------------
(* What is kept, for TLC: a managed meeting's tapes and archives, the agent   *)
(* drafts, the console's sessions, the machine tokens, the registry as it is  *)
(* opened, the registrations every surface asks for, the runs that are asked  *)
(* for with their options, the glossary, and the tracker that is imported and *)
(* drilled.  They share no variable, so a behaviour of all of them is one     *)
(* behaviour of each; `part` says which of them this behaviour is of, and the *)
(* others stay as they begin.                                                 *)
EXTENDS ManagedTapes, DraftChain, ConsoleAuth, MachineTokens, RegistryOpening,
        Registration, RunRequest, GlossaryTerms, TrackerImport, TrackerDrill, TLC

CONSTANTS u1, u2,               \* two uploads being served, two file names
          old, new,             \* an older and a newer build
          f1, f2                \* two folders of one name

TwoUploaders == {u1, u2}
TwoNames     == u1 :> "a" @@ u2 :> "b"
Scenarios    == {{"archive", "race"}, {"archive", "delete", "crash"}, {"audit", "id", "crash"}}

TwoHeads == old :> 8 @@ new :> 12

\* Registries as every era left them: not stamped, stamped by the ladder, by
\* Alembic, by both, and by a build newer than these.
RunRow(i, m, s) == [id |-> i, meeting |-> m, status |-> s, owned |-> FALSE]
Left(stamps, ladder, schema, index, left) ==
    [mode |-> "delete", rows |-> stamps, ladder |-> ladder, schema |-> schema, index |-> index, runs |-> left]
LeftRegistries ==
    {Left({}, NoLadder, 0, "none", {}),
     Left({}, 6, 6, "none", {RunRow(1, 1, "running"), RunRow(2, 1, "queued")}),
     Left({}, 7, 6, "none", {}), Left({}, 9, 6, "none", {}),
     Left({7, 8}, LadderVersion, 8, "none", {}), Left({8}, NoLadder, 8, "other", {}),
     Left({}, NoLadder, 12, "own", {}), Left({}, NoLadder, 13, "wider", {}),
     Left({5}, NoLadder, 5, "none", {}), Left({13}, NoLadder, 13, "wider", {})}

OneName == f1 :> "notes" @@ f2 :> "notes"

FirstBlockedBySecond == <<{2}, {}>>

\* What is asked: a backend by name; --auto; --auto beside a model and a
\* profile by name; a profile with one typed knob; --auto over one's own profile.
NoKnobs  == [k \in {"chunk_seconds", "beam_size", "best_of"} |-> Unset]
PlainAsk == [backend |-> "apple", model |-> Unset, knobs |-> NoKnobs, profile |-> Unset,
             diarize |-> Unset, scope |-> FALSE, auto |-> FALSE]
SomeAsks == {PlainAsk,
             [PlainAsk EXCEPT !.auto = TRUE, !.backend = "auto"],
             [PlainAsk EXCEPT !.auto = TRUE, !.model = "base", !.profile = "fast"],
             [PlainAsk EXCEPT !.profile = "accurate", !.scope = TRUE,
                              !.knobs = [NoKnobs EXCEPT !["beam_size"] = "typed"]],
             [PlainAsk EXCEPT !.auto = TRUE, !.profile = "custom", !.diarize = TRUE]}

\* Where it is asked: environments that name one knob and spoil another,
\* checkpoints whole and quantized, short and long tapes.
OneEnv       == [NoKnobs EXCEPT !["chunk_seconds"] = "e1", !["beam_size"] = "e1"]
SpoiltEnv    == [NoKnobs EXCEPT !["best_of"] = "junk"]
ClientEnv    == [NoKnobs EXCEPT !["best_of"] = "junk", !["beam_size"] = "e2"]
SomeEnvirons == {OneEnv, SpoiltEnv}
OneLadder    == <<"tiny", "base", "large">>
OnePreference == <<"speech", "apple">>
ShortTape    == [length |-> "short", channels |-> 1]
LongTape     == [length |-> "long", channels |-> 4]
SomeWorkspaces == {[tape |-> Unset, declaration |-> "all"],
                   [tape |-> ShortTape, declaration |-> "unreadable"]}
TinyAndBase  == {<<"tiny", "as is">>, <<"base", "quantized">>}
SomeFetches  == {{<<"large", "as is">>}}
SomeInstalls == {{}, {"apple", "speech"}}
OneWorld     == [node |-> OneEnv, client |-> ClientEnv, models |-> TinyAndBase,
                 present |-> {"apple", "speech"}, tape |-> ShortTape, tapes |-> ShortTape]
SomeWorlds   == {OneWorld, [OneWorld EXCEPT !.node = ClientEnv, !.client = NoKnobs, !.tape = LongTape,
                                            !.models = {<<"large", "as is">>}, !.tapes = Unset]}

VARIABLE part

storeVars == <<part, tapesVars, draftVars, authVars, tokenVars, openingVars,
               registrationVars, requestVars, glossaryVars, importVars, drillVars>>

StoresInit ==
    /\ part \in {"tapes", "drafts", "auth", "tokens", "opening", "registration",
                 "request", "glossary", "import", "drill"}
    /\ TapesInit /\ DraftInit /\ AuthInit /\ TokensInit /\ OpeningInit
    /\ RegistrationInit /\ RequestInit /\ GlossaryInit /\ ImportInit /\ DrillInit
    /\ part # "tapes" => tapeMay = CHOOSE s \in TapeScenarios : TRUE
    /\ part # "request" => environ.node = OneEnv
    /\ part # "drill" => ~scratch.foreign
    /\ part # "opening" => registry = Left({}, NoLadder, 0, "none", {})

TapesStep == part = "tapes" /\ TapesNext
    /\ UNCHANGED <<part, draftVars, authVars, tokenVars, openingVars, registrationVars, requestVars, glossaryVars, importVars, drillVars>>
DraftsStep == part = "drafts" /\ DraftNext
    /\ UNCHANGED <<part, tapesVars, authVars, tokenVars, openingVars, registrationVars, requestVars, glossaryVars, importVars, drillVars>>
AuthStep == part = "auth" /\ AuthNext
    /\ UNCHANGED <<part, tapesVars, draftVars, tokenVars, openingVars, registrationVars, requestVars, glossaryVars, importVars, drillVars>>
TokensStep == part = "tokens" /\ TokensNext
    /\ UNCHANGED <<part, tapesVars, draftVars, authVars, openingVars, registrationVars, requestVars, glossaryVars, importVars, drillVars>>
OpeningStep == part = "opening" /\ OpeningNext
    /\ UNCHANGED <<part, tapesVars, draftVars, authVars, tokenVars, registrationVars, requestVars, glossaryVars, importVars, drillVars>>
RegistrationStep == part = "registration" /\ RegistrationNext
    /\ UNCHANGED <<part, tapesVars, draftVars, authVars, tokenVars, openingVars, requestVars, glossaryVars, importVars, drillVars>>
RequestStep == part = "request" /\ RequestNext
    /\ UNCHANGED <<part, tapesVars, draftVars, authVars, tokenVars, openingVars, registrationVars, glossaryVars, importVars, drillVars>>
GlossaryStep == part = "glossary" /\ GlossaryNext
    /\ UNCHANGED <<part, tapesVars, draftVars, authVars, tokenVars, openingVars, registrationVars, requestVars, importVars, drillVars>>
ImportStep == part = "import" /\ ImportNext
    /\ UNCHANGED <<part, tapesVars, draftVars, authVars, tokenVars, openingVars, registrationVars, requestVars, glossaryVars, drillVars>>
DrillStep == part = "drill" /\ DrillNext
    /\ UNCHANGED <<part, tapesVars, draftVars, authVars, tokenVars, openingVars, registrationVars, requestVars, glossaryVars, importVars>>

StoresNext ==
    \/ TapesStep \/ DraftsStep \/ AuthStep \/ TokensStep \/ OpeningStep
    \/ RegistrationStep \/ RequestStep \/ GlossaryStep \/ ImportStep \/ DrillStep

StoresSpec == StoresInit /\ [][StoresNext]_storeVars

\* Every variable of every part keeps its type.  Here and below a state is
\* asked about the part its behaviour is of: the others are as they began.
StoresTypeOK ==
    /\ part = "tapes" => TapesTypeOK
    /\ part = "drafts" => DraftTypeOK
    /\ part = "auth" => AuthTypeOK
    /\ part = "tokens" => TokensTypeOK
    /\ part = "opening" => OpeningTypeOK
    /\ part = "registration" => RegistrationTypeOK
    /\ part = "request" => RequestTypeOK
    /\ part = "glossary" => GlossaryTypeOK
    /\ part = "import" => ImportTypeOK
    /\ part = "drill" => DrillTypeOK

-----------------------------------------------------------------------------
(* Parts of the properties that are checked together. *)

\* A row names its own bytes, a deletion that is licensed leaves an archive
\* that holds them, and an archive that reads whole is whole (ManagedTapes).
TapesHold ==
    part = "tapes" => RowsNameTheirTapes /\ RecordedTapesAreKept /\ ArchivesStayWhole

\* What the owner decided is recorded once and read back: a draft's acceptance
\* (DraftChain) and a retired term's status (GlossaryTerms).
ReviewsHold ==
    /\ part = "drafts" => AcceptedIsProducedOnce
    /\ part = "glossary" => RestoreReturnsTheStatus

\* An opened registry is whole whatever opened it before, the record of what
\* was registered is the account of it (RegistryOpening, Registration), and the
\* clocks a session and a token are judged by follow their use (ConsoleAuth,
\* MachineTokens).
RegistryHolds ==
    /\ part = "opening" => OpenedMeansWhole
    /\ part = "registration" => RecordIsTheAccount
    /\ part = "auth" => IdleClockFollowsUse
    /\ part = "tokens" => StampFollowsUse

\* The tracker's import, its repair and its drill say what is so.
ScriptsHold ==
    /\ part = "import" => ImportedOnce /\ CleanRepairRestores
    /\ part = "drill" => PassMeansRestored

\* No step of a surface undoes what another one recorded: the actions each
\* module states, together.
StepsHold ==
    /\ ChainsOnlyGrow /\ DecidesWhatWasRead
    /\ ClaimedOnce /\ EndedSessionsStayEnded
    /\ OpensOnlyForward /\ RefusedChangesNothing /\ RegistersOnce
    /\ OnlyConfirmedIsResolved
    /\ ApplyLeavesWhatExists /\ ForeignFilesStay
=============================================================================
