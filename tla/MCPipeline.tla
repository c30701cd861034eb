------------------------------ MODULE MCPipeline ------------------------------
(* The stages of the pipeline over one workspace, for TLC: from its audio     *)
(* files to the sources of the manifest, from the plan of chunks and the      *)
(* glossary to the cache of decoded chunks, from those to the timeline, from  *)
(* the roles to the speakers' names, from a run's documents to the            *)
(* workspace's published copy; what transcription needs on disk, and the      *)
(* check that takes one tape through all of it.  They share no variable, so a *)
(* behaviour of all of them is one behaviour of each; `part` says which of    *)
(* them this behaviour is of, and the others stay as they begin.              *)
EXTENDS ChunkCache, SourceIdentity, SpeakerNames, TranscriptMerge, Publication,
        ModelFetch, HelloCheck, TLC

CONSTANTS k1, k2, t1, t2, large, turbo, \* two chunks, two terms, two plans
          x, y,                         \* two contents
          u1, u2, u3, m1, m2,           \* threads of two processes
          pinned, custom                \* two checkpoints

TwoChunks == {k1, k2}
TwoTerms  == {t1, t2}
TwoPlans  == {large, turbo}

TwoBytes  == {x, y}

ProcessOfEach == u1 :> m1 @@ u2 :> m1 @@ u3 :> m2

\* Two formats of one take, a second take beside a first, and a name that
\* proposes the id the numbering would give.
TapeNames    == <<"aaa.wav", "take-2.wav", "take.flac", "take.wav">>
TapeProposes == "aaa.wav" :> <<"aaa", <<>>>> @@ "take-2.wav" :> <<"take", <<<<"-", 2>>>>>>
             @@ "take.flac" :> <<"take", <<>>>> @@ "take.wav" :> <<"take", <<>>>>
TapeChannels == "A" :> 1 @@ "B" :> 2 @@ "C" :> 1
TapeFolders  == {f \in [Names -> {"A", "B", "C", NoTape}] : f["aaa.wav"] = NoTape}

TwoLengths     == <<3, 2>>
TwoLags        == {-1, 1}
TwoConfidences == {<<1, 2>>, <<1, 1>>}

VARIABLE part

cacheVars    == vars
pipelineVars == <<part, cacheVars, sourceVars, namesVars, mergeVars, publicationVars, fetchVars, checkVars>>

PipelineInit ==
    /\ part \in {"cache", "sources", "names", "merge", "publication", "fetch", "check"}
    /\ Init /\ SourceInit /\ NamesInit /\ MergeInit /\ PublicationInit
    /\ FetchInit /\ CheckInit
    /\ part # "sources" => ~split /\ folder = [p \in Names |-> NoTape]
    /\ part # "names" => role = CHOOSE r \in [Microphone -> Roles] : TRUE
    \* A document's contents are interchangeable, and compared with no other's.
    /\ IF part = "publication" THEN \A d \in Doc : root[d] # y ELSE rows = {} /\ root = NoFiles
    /\ part # "merge" => confidenceOf = CHOOSE c \in Confidences : TRUE

CacheStep   == part = "cache" /\ Next /\ UNCHANGED <<part, sourceVars, namesVars, mergeVars, publicationVars, fetchVars, checkVars>>
SourcesStep == part = "sources" /\ SourceNext /\ UNCHANGED <<part, cacheVars, namesVars, mergeVars, publicationVars, fetchVars, checkVars>>
NamesStep   == part = "names" /\ NamesNext /\ UNCHANGED <<part, cacheVars, sourceVars, mergeVars, publicationVars, fetchVars, checkVars>>
MergeStep   == part = "merge" /\ MergeNext /\ UNCHANGED <<part, cacheVars, sourceVars, namesVars, publicationVars, fetchVars, checkVars>>

PublicationStep ==
    /\ part = "publication" /\ PublicationNext
    /\ UNCHANGED <<part, cacheVars, sourceVars, namesVars, mergeVars, fetchVars, checkVars>>

FetchStep ==
    /\ part = "fetch" /\ FetchNext
    /\ UNCHANGED <<part, cacheVars, sourceVars, namesVars, mergeVars, publicationVars, checkVars>>
CheckStep ==
    /\ part = "check" /\ CheckNext
    /\ UNCHANGED <<part, cacheVars, sourceVars, namesVars, mergeVars, publicationVars, fetchVars>>

PipelineNext == \/ CacheStep \/ SourcesStep \/ NamesStep \/ MergeStep \/ PublicationStep
                \/ FetchStep \/ CheckStep

PipelineSpec == PipelineInit /\ [][PipelineNext]_pipelineVars

-----------------------------------------------------------------------------
(* The properties of the parts that are checked together.  A state is asked   *)
(* about the part its behaviour is of: the others are as they began.          *)

\* Every variable of these parts keeps its type.
PipelineTypeOK ==
    /\ part = "cache" => TypeOK
    /\ part = "names" => NamesTypeOK
    /\ part = "publication" => PublicationTypeOK
    /\ part = "fetch" => FetchTypeOK
    /\ part = "check" => CheckTypeOK

\* A source keeps one audio (SourceIdentity); what a chunk owns is in the
\* transcript, and nobody's words are moved past another's (TranscriptMerge).
SourcesAndTranscriptHold ==
    /\ part = "sources" => SourceTypeOK /\ OneAudioPerSource
    /\ part = "merge" => MergeTypeOK /\ OwnedSpeechIsKept /\ TimelineIsFair

\* A row reads the bytes it recorded, the root is the last publication
\* (Publication), a model's name holds a whole model (ModelFetch), and a record
\* takes no microphone for a speaker (SpeakerNames).
FilesHold ==
    /\ part = "publication" => RowsReadTheirBytes /\ RootIsLastPublication
    /\ part = "fetch" => FinalNamesAreWhole
    /\ part = "names" => MicrophonesAreNotSpeakers

\* A publication replaces only what is kept elsewhere (Publication), a fetch
\* cleans up after itself and is made once per process (ModelFetch), and a check
\* shows the transcript of its own tape (HelloCheck).
PipelineSteps ==
    /\ NothingIsLost
    /\ StraysAreOfKilled /\ FetchedOncePerProcess
    /\ CheckShowsItsOwnTape
=============================================================================
