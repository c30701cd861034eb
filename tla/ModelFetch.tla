----------------------------- MODULE ModelFetch -----------------------------
(* What transcription needs on disk, and how it gets there: ggml checkpoints  *)
(* downloaded on first use (providers/backends.py), the Apple speech helper   *)
(* compiled on first use (providers/apple_speech.py).  Pool workers, console  *)
(* clicks and commands ask at once, in one process or in several that share   *)
(* the directories.                                                           *)
EXTENDS Naturals, FiniteSets

CONSTANTS Process,
          Asker,        \* threads that need an artifact
          ProcessOf,    \* the process of each thread
          Model,        \* ggml checkpoints
          Pinned,       \* those with a pinned digest, checking on
          Helper,       \* the compiled helper
          Nobody,
          FetchEvents,  \* what the environment may do: see Befalls
          MaxFetchEvents, MaxAsks

ASSUME ModelFetchAssumption ==
    /\ ProcessOf \in [Asker -> Process]
    /\ Pinned \subseteq Model /\ Helper \notin Model
    /\ Nobody \notin Process \cup Asker
    /\ MaxFetchEvents \in Nat /\ MaxAsks \in Nat

Artifact == Model \cup {Helper}

VARIABLES onDisk,    \* what each artifact's final name holds
          installer, \* the process that put it there last
          asker,     \* where each asker is
          wants,     \* the artifact it asked for
          partFile,      \* its temporary file
          downloads, \* _DOWNLOAD_LOCK of each process
          strays,    \* temporary files whose thread is gone
          asks, fetchEvents
fetchVars == <<onDisk, installer, asker, wants, partFile, downloads, strays, asks, fetchEvents>>

FetchInit ==
    /\ onDisk = [a \in Artifact |-> "absent"] /\ installer = [a \in Artifact |-> Nobody]
    /\ asker = [t \in Asker |-> "idle"] /\ wants = [t \in Asker |-> Helper]
    /\ partFile = [t \in Asker |-> "none"]
    /\ downloads = [p \in Process |-> Nobody] /\ strays = {}
    /\ asks = 0 /\ fetchEvents = 0

Befalls(e) == e \in FetchEvents /\ fetchEvents < MaxFetchEvents /\ fetchEvents' = fetchEvents + 1
IsThere(a) == onDisk[a] # "absent"
-----------------------------------------------------------------------------
(* _resolve_ggml_model and ensure_binary: a file at its name is the answer.   *)
AsksFor(t, a) ==
    /\ asker[t] \in {"idle", "got", "failed"} /\ asks < MaxAsks /\ asks' = asks + 1
    /\ wants' = [wants EXCEPT ![t] = a]
    /\ \/ /\ IsThere(a) /\ asker' = [asker EXCEPT ![t] = "got"]
          /\ UNCHANGED partFile
       \/ /\ ~IsThere(a) /\ a \in Model /\ asker' = [asker EXCEPT ![t] = "queued"]
          /\ UNCHANGED partFile
       \/ /\ ~IsThere(a) /\ a = Helper /\ asker' = [asker EXCEPT ![t] = "fetching"]
          /\ partFile' = [partFile EXCEPT ![t] = "partial"]
    /\ UNCHANGED <<onDisk, installer, downloads, strays, fetchEvents>>

\* Under the lock the check is made again: the one ahead may have fetched it.
StillAbsent_Unasked(a) == TRUE
StillAbsent(a) == ~IsThere(a)
Locks(t) ==
    /\ asker[t] = "queued" /\ downloads[ProcessOf[t]] = Nobody
    /\ IF StillAbsent(wants[t])
       THEN /\ downloads' = [downloads EXCEPT ![ProcessOf[t]] = t]
            /\ asker' = [asker EXCEPT ![t] = "fetching"]
            /\ partFile' = [partFile EXCEPT ![t] = "partial"]
       ELSE asker' = [asker EXCEPT ![t] = "got"] /\ UNCHANGED <<downloads, partFile>>
    /\ UNCHANGED <<onDisk, installer, wants, strays, asks, fetchEvents>>

Unlocked(t) == [p \in Process |-> IF downloads[p] = t THEN Nobody ELSE downloads[p]]
RemovesPart_Not(t) == strays \cup {t}
RemovesPart(t) == strays
\* Whatever fails, and an interrupt too, takes the temporary file with it.
FailsAndCleans(t) ==
    /\ asker' = [asker EXCEPT ![t] = "failed"] /\ partFile' = [partFile EXCEPT ![t] = "none"]
    /\ strays' = RemovesPart(t) /\ downloads' = Unlocked(t)

\* A connection closed early ends a download like the end of the file does; a
\* compiler that ends early says so.
Streams(t) ==
    /\ asker[t] = "fetching"
    /\ \/ /\ partFile' = [partFile EXCEPT ![t] = "whole"] /\ asker' = [asker EXCEPT ![t] = "fetched"]
          /\ UNCHANGED <<downloads, strays, fetchEvents>>
       \/ /\ wants[t] \in Model /\ Befalls("cut")
          /\ partFile' = [partFile EXCEPT ![t] = "cut"] /\ asker' = [asker EXCEPT ![t] = "fetched"]
          /\ UNCHANGED <<downloads, strays>>
       \/ Befalls("fails") /\ FailsAndCleans(t)
    /\ UNCHANGED <<onDisk, installer, wants, asks>>

\* verify_model_sha256, before the rename.
Rejected_Not(t) == FALSE
Rejected(t) == wants[t] \in Pinned /\ partFile[t] = "cut"
Verifies(t) ==
    /\ asker[t] = "fetched"
    /\ IF Rejected(t) THEN FailsAndCleans(t)
       ELSE asker' = [asker EXCEPT ![t] = "verified"] /\ UNCHANGED <<partFile, strays, downloads>>
    /\ UNCHANGED <<onDisk, installer, wants, asks, fetchEvents>>

PutsInPlace(t) ==
    /\ asker[t] = "verified"
    /\ \/ /\ onDisk' = [onDisk EXCEPT ![wants[t]] = partFile[t]]
          /\ installer' = [installer EXCEPT ![wants[t]] = ProcessOf[t]]
          /\ asker' = [asker EXCEPT ![t] = "got"] /\ partFile' = [partFile EXCEPT ![t] = "none"]
          /\ downloads' = Unlocked(t) /\ UNCHANGED <<strays, fetchEvents>>
       \/ Befalls("fails") /\ FailsAndCleans(t) /\ UNCHANGED <<onDisk, installer>>
    /\ UNCHANGED <<wants, asks>>

\* The process is killed and started again: its temporary files stay.
Restarts(p) ==
    /\ Befalls("kill")
    /\ strays' = strays \cup {t \in Asker : ProcessOf[t] = p /\ partFile[t] # "none"}
    /\ asker' = [t \in Asker |-> IF ProcessOf[t] = p THEN "idle" ELSE asker[t]]
    /\ partFile' = [t \in Asker |-> IF ProcessOf[t] = p THEN "none" ELSE partFile[t]]
    /\ downloads' = [downloads EXCEPT ![p] = Nobody]
    /\ UNCHANGED <<onDisk, installer, wants, asks>>
FetchWorks(t) == Locks(t) \/ Streams(t) \/ Verifies(t) \/ PutsInPlace(t)
FetchNext == \/ \E t \in Asker : FetchWorks(t) \/ \E a \in Artifact : AsksFor(t, a)
             \/ \E p \in Process : Restarts(p)
FetchSpec == FetchInit /\ [][FetchNext]_fetchVars
-----------------------------------------------------------------------------
FetchTypeOK ==
    /\ onDisk \in [Artifact -> {"absent", "whole", "cut"}]
    /\ installer \in [Artifact -> Process \cup {Nobody}]
    /\ asker \in [Asker -> {"idle", "queued", "fetching", "fetched", "verified", "got", "failed"}]
    /\ wants \in [Asker -> Artifact] /\ partFile \in [Asker -> {"none", "partial", "whole", "cut"}]
    /\ downloads \in [Process -> Asker \cup {Nobody}] /\ strays \subseteq Asker
    /\ asks \in 0..MaxAsks /\ fetchEvents \in 0..MaxFetchEvents

(* "An interrupted download is never mistaken for a model": what a pinned     *)
(* model's name or the helper's holds is whole, through concurrent fetches,   *)
(* cut connections and kills.  (A model without a pinned digest is not.)      *)
FinalNamesAreWhole == \A a \in Pinned \cup {Helper} : onDisk[a] # "cut"

(* Every failure takes its temporary file with it: one that is left belongs   *)
(* to a thread at work or to a process that was killed.                       *)
StraysAreOfKilled == [][\A t \in Asker : FetchWorks(t) => strays' = strays]_fetchVars

(* "One lock makes the check-and-download single-flight": a process that has  *)
(* installed a model does not download it over again.                         *)
FetchedOncePerProcess ==
    [][\A t \in Asker : PutsInPlace(t) /\ asker'[t] = "got" /\ wants[t] \in Model
          => installer[wants[t]] # ProcessOf[t]]_fetchVars
=============================================================================
