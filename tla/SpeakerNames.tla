----------------------------- MODULE SpeakerNames -----------------------------
(***************************************************************************)
(* Who the record says is speaking: the passes over segments.json that     *)
(* name a segment (diarize, attribute), and reconcile, which names what    *)
(* they left unnamed (pipeline/stages.py).  A source whose role says it is *)
(* a room microphone or a duplicate feed, or that a caller named for one   *)
(* attribute pass alone, is no person and must not become one.             *)
(*                                                                         *)
(* The name "Speaker k" is the number k.  Source i is the manifest's i-th, *)
(* and its label is positional, so it is i; a cluster the diarizer finds   *)
(* is numbered within its own source.  Every source has the same segments, *)
(* and what their audio says is whatever it says.  A pass writes its file  *)
(* once, at its end, so one that dies changes nothing.                     *)
(***************************************************************************)
EXTENDS Naturals, FiniteSets

CONSTANTS
    Microphone,     \* 1 .. the number of sources
    Piece,          \* the segments of a source
    MaxNamingPasses \* bound: passes and edits of a behaviour

ASSUME NamingBounds == Microphone \subseteq Nat \ {0} /\ MaxNamingPasses \in Nat

Unnamed == 0
Roles   == {"candidate", "mixed", "excluded"}

VARIABLES
    role,           \* role[s]: what the manifest declares source s to be
    names,          \* names[s][p]: the speaker of a segment in segments.json
    mixedReferences,\* the references its meta records
    heard,          \* what the last attribute pass was asked: its references and candidates
    settledRoles,   \* no role was edited since the transcription
    record,         \* the record's names, and who it must not name
    namingPasses

namesVars == <<role, names, mixedReferences, heard, settledRoles, record, namingPasses>>

NothingHeard == [refs |-> {}, candidates |-> {}]
NoRecord     == [names |-> [s \in Microphone |-> [p \in Piece |-> Unnamed]],
                 voiceless |-> {}, speakers |-> {}]

NamesInit ==
    /\ role \in [Microphone -> Roles]
    /\ names = [s \in Microphone |-> [p \in Piece |-> Unnamed]]
    /\ mixedReferences = {}
    /\ heard = NothingHeard
    /\ settledRoles = TRUE
    /\ record = NoRecord
    /\ namingPasses = 0

OnePass == namingPasses < MaxNamingPasses /\ namingPasses' = namingPasses + 1

-----------------------------------------------------------------------------
\* A transcription writes fresh segments and a fresh meta.
Transcribe ==
    /\ OnePass
    /\ names' = [s \in Microphone |-> [p \in Piece |-> Unnamed]]
    /\ mixedReferences' = {}
    /\ heard' = NothingHeard
    /\ settledRoles' = TRUE
    /\ UNCHANGED <<role, record>>

\* An operator edits a role in the manifest.
DeclareRole(s, r) ==
    /\ OnePass
    /\ role[s] # r
    /\ role' = [role EXCEPT ![s] = r]
    /\ settledRoles' = FALSE
    /\ UNCHANGED <<names, mixedReferences, heard, record>>

\* diarize: a source with more than one cluster takes the clusters' numbers,
\* when it may be named at all; an unreadable one is skipped.
MayBeClustered_Any(s) == role[s] = "candidate"
MayBeClustered(s) == role[s] = "candidate" /\ s \notin mixedReferences

Clustered == {f \in [Piece -> 1 .. Cardinality(Piece)] : \E p, q \in Piece : f[p] # f[q]}

Diarize ==
    /\ OnePass
    /\ \E found \in SUBSET Microphone, clusters \in [Microphone -> Clustered] :
         names' = [s \in Microphone |->
                     IF s \in found /\ MayBeClustered(s) THEN clusters[s] ELSE names[s]]
    /\ UNCHANGED <<role, mixedReferences, heard, settledRoles, record>>

-----------------------------------------------------------------------------
(* attribute. *)

\* The caller's references and the manifest's; the candidates are the rest.
References(named) == named \union {s \in Microphone : role[s] = "mixed"}
Candidates(named) == {s \in Microphone : role[s] = "candidate"} \ References(named)

\* The name a segment enters the pass with: none, in a source that may not be
\* named.
Enters(named, s, p) == IF s \in Candidates(named) THEN names[s][p] ELSE Unnamed

\* The label of the candidate whose microphone carries its window best, or what
\* it entered with when none does, or a reference heard the room louder.
Decided(named, s, p) == Candidates(named) \union {Enters(named, s, p)}

\* The file is written when a name changed, when confidences were computed, or
\* when the references differ from the recorded ones.
MustWrite_Names(new, refs, windowed) == new # names \/ windowed
MustWrite(new, refs, windowed) ==
    new # names \/ windowed \/ refs # mixedReferences

Attribute(named, windowed) ==
    /\ OnePass
    /\ \A s \in named : role[s] # "excluded"        \* refused
    /\ \E new \in [Microphone -> [Piece -> Microphone \union {Unnamed}]] :
         /\ \A s \in Microphone, p \in Piece : new[s][p] \in Decided(named, s, p)
         /\ IF MustWrite(new, References(named), windowed)
            THEN names' = new /\ mixedReferences' = References(named)
            ELSE UNCHANGED <<names, mixedReferences>>
    /\ heard' = [refs |-> References(named), candidates |-> Candidates(named)]
    /\ UNCHANGED <<role, settledRoles, record>>

-----------------------------------------------------------------------------
(* reconcile. *)

Voiceless == {s \in Microphone : role[s] # "candidate"} \union mixedReferences

\* An unnamed segment takes its source's label, and a voiceless source's own
\* label is taken off again.
NamedAs(s, p) ==
    IF names[s][p] = Unnamed THEN (IF s \in Voiceless THEN Unnamed ELSE s)
    ELSE IF s \in Voiceless /\ names[s][p] = s THEN Unnamed
    ELSE names[s][p]

Reconcile ==
    /\ OnePass
    /\ record' = [names |-> [s \in Microphone |-> [p \in Piece |-> NamedAs(s, p)]],
                  voiceless |-> IF settledRoles THEN Voiceless ELSE {},
                  speakers |-> heard.candidates]
    /\ UNCHANGED <<role, names, mixedReferences, heard, settledRoles>>

NamesNext ==
    \/ Transcribe
    \/ \E s \in Microphone, r \in Roles : DeclareRole(s, r)
    \/ Diarize
    \/ \E named \in SUBSET Microphone, windowed \in BOOLEAN : Attribute(named, windowed)
    \/ Reconcile

NamesSpec == NamesInit /\ [][NamesNext]_namesVars

-----------------------------------------------------------------------------
(* Properties. *)

\* Every variable keeps its type.
NamesTypeOK ==
    /\ role \in [Microphone -> Roles]
    /\ \A s \in Microphone : names[s] \in [Piece -> Nat] /\ record.names[s] \in [Piece -> Nat]
    /\ mixedReferences \subseteq Microphone
    /\ settledRoles \in BOOLEAN
    /\ namingPasses \in 0 .. MaxNamingPasses

\* A microphone an attribute pass gated with is named only as one of the
\* candidates that pass judged, whatever passes follow, until the segments are
\* transcribed or attributed again; and the record of such segments names no
\* source it must not, whichever of the role, the one-off declaration and the
\* fallback said so (attribute, diarize, _unname_non_candidates).
MicrophonesAreNotSpeakers ==
    /\ \A s \in heard.refs, p \in Piece :
         names[s][p] \in heard.candidates \union {Unnamed}
    /\ \A s \in record.voiceless, p \in Piece :
         record.names[s][p] \in record.speakers \union {Unnamed}

\* The record leaves a source unnamed that its own manifest calls no speaker
\* ("the fallback is the one thing that could put a microphone's name back in").
NoMicrophoneComesBack ==
    [][Reconcile => \A s \in Microphone, p \in Piece :
         role[s] # "candidate" =>
            record'.names[s][p] \in {Unnamed} \union heard.candidates]_namesVars
=============================================================================
