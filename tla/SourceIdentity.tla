---------------------------- MODULE SourceIdentity ----------------------------
(***************************************************************************)
(* ingest (pipeline/stages.py): from the audio files of a workspace to the *)
(* sources of its manifest.  Each pass rebuilds the manifest; what an      *)
(* operator declared in the last one (a source's role, its start) is keyed *)
(* by source id, and the ids are settled anew from the files of this pass. *)
(*                                                                         *)
(* Bytes are a tape, and a byte copy is the same tape under another name.  *)
(* An id is the stem a name proposes and the marks put on it: <<"ch", c>>  *)
(* for a channel of a split tape, <<"-", n>> for the number a unit takes   *)
(* when it meets a taken id.  A name may carry such marks itself.          *)
(***************************************************************************)
EXTENDS Naturals, Sequences, FiniteSets, SequencesExt, FiniteSetsExt

CONSTANTS
    FileName,       \* the names the operator may use, in discovery order
    Proposes,       \* Proposes[p]: the id a name's slug reads
    Stamped,        \* the names that state a start
    SourceTape,     \* recordings
    ChannelsOf,     \* ChannelsOf[t]: the channels of t
    NoTape,
    Folders,        \* what the workspace may hold to begin with
    MaxIngests,     \* bound: ingests begun
    MaxDirEdits,    \* bound: changes the operator makes to the folder
    MaxDeclarations \* bound: declarations the operator writes

Names == ToSet(FileName)

\* What an id is made of.
SourceId == {Proposes[p][1] : p \in DOMAIN Proposes} \X Seq({"ch", "-"} \X Nat)

ASSUME SourceBounds ==
    /\ FileName \in Seq(DOMAIN Proposes)
    /\ \A i, j \in DOMAIN FileName : FileName[i] = FileName[j] => i = j
    /\ \A p \in DOMAIN Proposes : Proposes[p] \in SourceId
    /\ IsFiniteSet(SourceTape) /\ ChannelsOf \in [SourceTape -> Nat \ {0}]
    /\ NoTape \notin SourceTape
    /\ Folders \subseteq [Names -> SourceTape \union {NoTape}]
    /\ MaxIngests \in Nat /\ MaxDirEdits \in Nat /\ MaxDeclarations \in Nat

VARIABLES
    split,          \* whether this workspace's passes split channels; it stays
    folder,         \* folder[p]: the tape under name p, or NoTape; a name the ignore
                    \* file lists counts as absent
    manifest,       \* the sources of the published manifest, in order
    audio,          \* audio/<id>.wav: what each normalized file holds
    ingesting,      \* the pass under way
    cutShort,       \* whether the last pass died after it decoded something
    ingests, dirEdits, declarations

sourceVars == <<split, folder, manifest, audio, ingesting, cutShort, ingests, dirEdits, declarations>>

NoPass == [units |-> <<>>, done |-> <<>>]

SourceInit ==
    /\ split \in BOOLEAN
    /\ folder \in Folders
    /\ manifest = <<>>
    /\ audio = <<>>
    /\ ingesting = NoPass
    /\ cutShort = FALSE
    /\ ingests = 0 /\ dirEdits = 0 /\ declarations = 0

-----------------------------------------------------------------------------
(* Discovery and the folding of copies. *)

Present == {p \in Names : folder[p] # NoTape}

\* The first name of a tape, in discovery order, keeps the source.
KeptFor(p) == FileName[Min({i \in DOMAIN FileName : folder[FileName[i]] = folder[p]})]

KeptCopies  == {p \in Present : KeptFor(p) = p}
CopiesOf(p) == {c \in Present : c # p /\ KeptFor(c) = p}

-----------------------------------------------------------------------------
(* Settling the ids. *)

Mark(id, m) == <<id[1], Append(id[2], m)>>

\* The ids a name proposes for the units of tape t: itself, or one per channel.
ProposalsOf(p, t) ==
    IF split /\ ChannelsOf[t] > 1
    THEN [c \in 1 .. ChannelsOf[t] |-> Mark(Proposes[p], <<"ch", c>>)]
    ELSE <<Proposes[p]>>

Channel(t, i) == IF split /\ ChannelsOf[t] > 1 THEN i ELSE 0

\* The proposal, or the first free number on it.
StageId_Twice(taken, desired) == IF desired \in taken THEN Mark(desired, <<"-", 2>>) ELSE desired
StageId(taken, desired) ==
    IF desired \notin taken THEN desired
    ELSE Mark(desired, <<"-", Min({n \in 2 .. Cardinality(taken) + 2 :
                                    Mark(desired, <<"-", n>>) \notin taken})>>)

\* What a file's units ask for: each its channel and an id.
Wanted(p) ==
    IF p \notin KeptCopies THEN <<>>
    ELSE [i \in DOMAIN ProposalsOf(p, folder[p]) |->
            [file |-> p, slot |-> i, channel |-> Channel(folder[p], i),
             desired |-> ProposalsOf(p, folder[p])[i]]]

Stage(units, w) ==
    Append(units, [file |-> w.file, slot |-> w.slot, channel |-> w.channel,
                   id |-> StageId({units[k].id : k \in DOMAIN units}, w.desired)])

\* Every unit of the pass in staging order: its file, its channel and its id.
Units == FoldLeft(Stage, <<>>, FlattenSeq([k \in DOMAIN FileName |-> Wanted(FileName[k])]))

-----------------------------------------------------------------------------
(* What the published manifest declares, and who it is about. *)

Declares(id, field) == \E k \in DOMAIN manifest : manifest[k].id = id /\ manifest[k][field]

DeclaredIds == {manifest[k].id : k \in {k \in DOMAIN manifest :
                                          manifest[k].mixed \/ manifest[k].start}}

\* The ids a folded copy's declaration may have settled under: its proposal,
\* or the lowest number on it, unless this pass staged an input there.
SettledFor_SlugOnly(base, staged) ==
    IF base \in DeclaredIds \ staged THEN {base} ELSE {}
SettledFor(base, staged) ==
    LET free     == DeclaredIds \ staged
        numbers  == {Last(id[2])[2] : id \in {i \in free : i[2] # <<>>}}
        numbered == {n \in numbers : Mark(base, <<"-", n>>) \in free}
    IN  IF base \in free THEN {base}
        ELSE IF numbered # {} THEN {Mark(base, <<"-", Min(numbered)>>)} ELSE {}

Inherits(u, staged, field) ==
    \E c \in CopiesOf(u.file) :
      \E id \in SettledFor(ProposalsOf(c, folder[c])[u.slot], staged) :
        Declares(id, field)

\* A name's own stamp, a folded copy's, the id's declaration, a copy's.
StartOf(u, staged) ==
    \/ u.file \in Stamped
    \/ \E c \in CopiesOf(u.file) : c \in Stamped
    \/ Declares(u.id, "start")
    \/ Inherits(u, staged, "start")

RoleOf(u, staged) ==
    Declares(u.id, "mixed") \/ Inherits(u, staged, "mixed")

-----------------------------------------------------------------------------
(* The pass. *)

\* Copies are folded, every id settled and every declaration read before the
\* first decode.
StagedUnits ==
    LET units  == Units
        staged == {units[i].id : i \in DOMAIN units}
    IN  [i \in DOMAIN units |->
           [id |-> units[i].id, file |-> units[i].file, channel |-> units[i].channel,
            start |-> StartOf(units[i], staged), mixed |-> RoleOf(units[i], staged)]]

\* A folder without audio is refused.
BeginIngest ==
    /\ ingesting = NoPass
    /\ ingests < MaxIngests
    /\ Present # {}
    /\ ingesting' = [units |-> StagedUnits, done |-> <<>>]
    /\ ingests' = ingests + 1
    /\ UNCHANGED <<split, folder, manifest, audio, cutShort, dirEdits, declarations>>

\* One unit is decoded over audio/<id>.wav.
Decode ==
    LET n == Len(ingesting.done) + 1
    IN  /\ n <= Len(ingesting.units)
        /\ LET u    == ingesting.units[n]
               unit == <<folder[u.file], u.channel>>
           IN  /\ audio' = [i \in DOMAIN audio \union {u.id} |->
                              IF i = u.id THEN unit ELSE audio[i]]
               /\ ingesting' = [ingesting EXCEPT !.done = Append(@,
                    [id |-> u.id, file |-> u.file, unit |-> unit,
                     start |-> u.start, mixed |-> u.mixed])]
        /\ UNCHANGED <<split, folder, manifest, cutShort, ingests, dirEdits, declarations>>

\* A file that cannot be decoded, or a process that dies, ends the pass: the
\* manifest stays what it was.
EndsEarly ==
    /\ ingesting # NoPass
    /\ cutShort' = (cutShort \/ ingesting.done # <<>>)
    /\ ingesting' = NoPass
    /\ UNCHANGED <<split, folder, manifest, audio, ingests, dirEdits, declarations>>

\* The manifest is written once, at the end.
WriteManifest ==
    /\ ingesting # NoPass
    /\ Len(ingesting.done) = Len(ingesting.units)
    /\ manifest' = ingesting.done
    /\ ingesting' = NoPass
    /\ cutShort' = FALSE
    /\ UNCHANGED <<split, folder, audio, ingests, dirEdits, declarations>>

-----------------------------------------------------------------------------
(* The operator, between passes. *)

PutFile(p, t) ==
    /\ ingesting = NoPass
    /\ dirEdits < MaxDirEdits
    /\ folder[p] # t
    /\ folder' = [folder EXCEPT ![p] = t]
    /\ dirEdits' = dirEdits + 1
    /\ UNCHANGED <<split, manifest, audio, ingesting, cutShort, ingests, declarations>>

\* A role or a start written into the manifest by hand.
Declare(k) ==
    /\ ingesting = NoPass
    /\ declarations < MaxDeclarations
    /\ declarations' = declarations + 1
    /\ \/ ~ manifest[k].mixed /\ manifest' = [manifest EXCEPT ![k].mixed = TRUE]
       \/ ~ manifest[k].start /\ manifest' = [manifest EXCEPT ![k].start = TRUE]
    /\ UNCHANGED <<split, folder, audio, ingesting, cutShort, ingests, dirEdits>>

SourceNext ==
    \/ BeginIngest \/ Decode \/ EndsEarly \/ WriteManifest
    \/ \E p \in Names, t \in SourceTape \union {NoTape} : PutFile(p, t)
    \/ \E k \in DOMAIN manifest : Declare(k)

SourceSpec == SourceInit /\ [][SourceNext]_sourceVars

-----------------------------------------------------------------------------
(* Properties. *)

Unit == SourceTape \X (0 .. Max({ChannelsOf[t] : t \in SourceTape}))

\* Every variable keeps its type.
SourceTypeOK ==
    /\ split \in BOOLEAN
    /\ folder \in [Names -> SourceTape \union {NoTape}]
    /\ \A k \in DOMAIN manifest :
         /\ manifest[k].unit \in Unit
         /\ manifest[k].mixed \in BOOLEAN /\ manifest[k].start \in BOOLEAN
    /\ \A i \in DOMAIN audio : audio[i] \in Unit
    /\ Len(ingesting.done) <= Len(ingesting.units)
    /\ cutShort \in BOOLEAN
    /\ ingests \in 0 .. MaxIngests /\ dirEdits \in 0 .. MaxDirEdits
    /\ declarations \in 0 .. MaxDeclarations

\* Each source of a manifest names the audio it was staged with, and no two
\* name the same: no unit is decoded over another's file, however the slugs,
\* the channels and the numbers of a folder collide (_staged_id).
OneAudioPerSource ==
    (ingesting = NoPass /\ ~ cutShort) =>
        /\ \A k \in DOMAIN manifest : audio[manifest[k].id] = manifest[k].unit
        /\ \A j, k \in DOMAIN manifest : manifest[j].id = manifest[k].id => j = k

Entries(m) == {m[k] : k \in DOMAIN m}

\* A pass that hands no id of the last manifest to another unit, finds every
\* file of it where it was, meets no file named like a numbered id, and folds no
\* two copies of different tapes that propose one id, keeps every declaration with
\* its audio and gives none to another: under the source's own id, or under the id
\* a folded copy had settled on (_settled_id_for).
HandsOver(old, new) ==
    \E e \in Entries(old), f \in Entries(new) : e.id = f.id /\ e.unit # f.unit
LosesAFile(old) == \E e \in Entries(old) : folder[e.file] # e.unit[1]
NumberedName == \E p \in Present : \E k \in DOMAIN Proposes[p][2] :
                                            Proposes[p][2][k][1] = "-"

CopiesCollide ==
    \E c, d \in Present :
        /\ KeptFor(c) # c /\ KeptFor(d) # d /\ folder[c] # folder[d]
        /\ ToSet(ProposalsOf(c, folder[c])) \intersect ToSet(ProposalsOf(d, folder[d])) # {}

Follows(old, new) ==
    \A f \in Entries(new) :
      LET was == {e \in Entries(old) : e.unit = f.unit}
      IN  /\ f.mixed = (\E e \in was : e.mixed)
          /\ (\E e \in was : e.start) => f.start
          /\ f.start => \/ \E e \in was : e.start
                        \/ \E p \in Stamped : folder[p] = f.unit[1]

DeclarationsFollowTheAudio ==
    [][manifest' # manifest /\ ingesting # NoPass
         /\ ~ HandsOver(manifest, manifest') /\ ~ LosesAFile(manifest)
         /\ ~ NumberedName /\ ~ CopiesCollide
       => Follows(manifest, manifest')]_sourceVars

\* The same with any names: "a declaration keyed by either of those is that
\* unit's" (_settled_id_for).
DeclarationsAlwaysFollow ==
    [][manifest' # manifest /\ ingesting # NoPass /\ ~ HandsOver(manifest, manifest')
         /\ ~ LosesAFile(manifest)
       => Follows(manifest, manifest')]_sourceVars

\* A manifest names the audio that is there, whatever became of the last pass.
ManifestIsOfTheAudio ==
    ingesting = NoPass => \A k \in DOMAIN manifest : audio[manifest[k].id] = manifest[k].unit
=============================================================================
