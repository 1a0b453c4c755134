---------------------------- MODULE LruReplacer ----------------------------
(***************************************************************************)
(* The LRU replacement policy of replacer/lru_replacer.cpp.                *)
(*                                                                         *)
(* The class keeps a doubly linked list LRUlist_ of the frames that may be *)
(* victimised, oldest first, and a hash table LRUhash_ from a frame to its *)
(* list node.  The hash is only an index of the list: both are updated     *)
(* together under latch_, so the model keeps the list alone and every      *)
(* lookup of the hash is a membership test on it.                          *)
(***************************************************************************)
EXTENDS Naturals, Sequences, SequencesExt

\* LRUhash_.find(f) != LRUhash_.end()
Listed(list, f) == \E i \in DOMAIN list : list[i] = f

\* Victim succeeds exactly when the list is not empty ...
HasVictim(list) == list # <<>>

\* ... and takes its front, the frame unpinned longest ago.
VictimOf(list) == Head(list)

AfterVictim(list) == Tail(list)

\* Mutant: Pin returns early and the frame stays a candidate.
PinForgotten(list, f) == list

\* Pin: remove the frame's node; no effect when it is not listed.
ReplacerPin(list, f) ==
    IF Listed(list, f)
    THEN RemoveAt(list, CHOOSE i \in DOMAIN list : list[i] = f)
    ELSE list

\* Mutant: Unpin does not push the frame.
UnpinForgotten(list, f) == list

\* Unpin: push the frame at the back; a frame already listed keeps its place.
ReplacerUnpin(list, f) ==
    IF Listed(list, f) THEN list ELSE Append(list, f)

=============================================================================
