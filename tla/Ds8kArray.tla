----------------------------- MODULE Ds8kArray ------------------------------
(***************************************************************************)
(* A DS8K storage system as its mediator (array_mediator_ds8k.py) and its  *)
(* REST client (ds8k_rest_client.py) use it: volumes with ids, whose names *)
(* need not be unique, and FlashCopy relationships between them.  The      *)
(* array is not part of the repository; what a request does, and when it   *)
(* is refused, is taken from the calls and from the errors the mediator    *)
(* has cases for.                                                          *)
(***************************************************************************)
EXTENDS Naturals, FiniteSets

CONSTANTS Names,          \* names of volumes and snapshots
          MaxVolumes      \* bound: volumes that are ever created

ASSUME ArrayAssumption == MaxVolumes \in Nat \ {0} /\ "none" \notin Names

\* A volume's copyOf is the id of the volume whose data it reads as, NoId if it
\* is no copy (any more).
VARIABLES volume,         \* the volume of each id, or NoVolume
          flashcopy,      \* the relationship whose target is that id, or NoCopy
          nextId          \* the id of the next volume

arrayVars == <<volume, flashcopy, nextId>>

Ids      == 1..MaxVolumes
NoId     == 0
NoVolume == [name |-> "none", size |-> 0, copyOf |-> NoId]
NoCopy   == [source |-> NoId, nocopy |-> FALSE, state |-> "none"]

\* "copying" and "done" are both reported as valid; they differ in
\* out_of_sync_tracks.
CopyStates == {"copying", "done", "invalid"}

Exists(i)  == i \in Ids /\ volume[i] # NoVolume
IsCopy(i)  == flashcopy[i] # NoCopy

\* get_volumes_by_pool, and the volumes of it that have the name.
Named(n) == {i \in Ids : Exists(i) /\ volume[i].name = n}

\* get_flashcopies_by_volume: the relationships with volume i as their source,
\* and all it takes part in, each known by its target.
CopiesFrom(i)    == {k \in Ids : IsCopy(k) /\ flashcopy[k].source = i}
FlashcopiesOf(i) == CopiesFrom(i) \cup {k \in {i} : IsCopy(k)}

\* is_snapshot: the target of a relationship without background copy.
IsSnapshot(i) == IsCopy(i) /\ flashcopy[i].nocopy

\* _get_copy_source_id.
CopySource(i) == flashcopy[i].source

-----------------------------------------------------------------------------
\* A volume may be made as long as MaxVolumes allows.
CreateVolume(n, size) ==
    /\ nextId \in Ids
    /\ volume' = [volume EXCEPT ![nextId] = [name |-> n, size |-> size, copyOf |-> NoId]]
    /\ nextId' = nextId + 1
    /\ UNCHANGED flashcopy

\* A volume that takes part in a relationship is neither deleted nor extended.
Free(i) == Exists(i) /\ FlashcopiesOf(i) = {}

DeleteVolume(i) == volume' = [volume EXCEPT ![i] = NoVolume] /\ UNCHANGED <<flashcopy, nextId>>

ExtendVolume(i, size) == volume' = [volume EXCEPT ![i].size = size] /\ UNCHANGED <<flashcopy, nextId>>

\* create_flashcopy: from now on the target reads as the source does.
CreateFlashcopy(source, target, nocopy) ==
    /\ flashcopy' = [flashcopy EXCEPT ![target] = [source |-> source, nocopy |-> nocopy,
                                                   state |-> "copying"]]
    /\ volume' = [volume EXCEPT ![target].copyOf = source]
    /\ UNCHANGED nextId

\* delete_flashcopy: a target whose tracks were not all copied loses its data.
DeleteFlashcopy(i) ==
    /\ flashcopy' = [flashcopy EXCEPT ![i] = NoCopy]
    /\ volume' = IF flashcopy[i].state = "copying" THEN [volume EXCEPT ![i].copyOf = NoId]
                 ELSE volume
    /\ UNCHANGED nextId

\* The background copy comes to its end.
CopyDone(i) ==
    /\ IsCopy(i) /\ flashcopy[i].state = "copying" /\ ~flashcopy[i].nocopy
    /\ flashcopy' = [flashcopy EXCEPT ![i].state = "done"]
    /\ UNCHANGED <<volume, nextId>>

\* A new relationship turns out not to be valid.
CopyFails(i) ==
    /\ IsCopy(i) /\ flashcopy[i].state = "copying"
    /\ flashcopy' = [flashcopy EXCEPT ![i].state = "invalid"]
    /\ volume' = [volume EXCEPT ![i].copyOf = NoId]
    /\ UNCHANGED nextId

\* What the array guarantees by itself.
ArrayTypeOK ==
    /\ volume \in [Ids -> {NoVolume} \cup [name: Names, size: Nat, copyOf: {NoId} \cup Ids]]
    /\ flashcopy \in [Ids -> {NoCopy} \cup [source: Ids, nocopy: BOOLEAN, state: CopyStates]]
    /\ nextId \in 1..(MaxVolumes + 1)
    /\ \A i \in Ids : IsCopy(i) => Exists(i) /\ Exists(flashcopy[i].source)
=============================================================================
