---------------------------- MODULE AudioBuffer ----------------------------
(***************************************************************************)
(* The replay buffer of the server: AudioBufferService                     *)
(* (backend/internal/voice/buffer_service.go).  Every operation runs under *)
(* the service's mutex and is one action.  The list of a channel is        *)
(* ordered by sequence, so it is a set of entries here.  A clock counts    *)
(* units of time; the cleanup ticker fires every CleanupInterval units,    *)
(* on time.                                                                *)
(***************************************************************************)
EXTENDS Shared, Integers, FiniteSets, FiniteSetsExt

CONSTANTS
  Sizes,             \* the lengths of the decoded chunks, never 0
  MaxDuration,       \* BufferConfig.MaxDuration, 30 s
  MaxSizeBytes,      \* BufferConfig.MaxSizeBytes, 10 MB
  CleanupInterval,   \* BufferConfig.CleanupInterval, 5 min
  MaxTime            \* bound: the clock

ASSUME BufferAssumption ==
  /\ Sizes \subseteq Nat \ {0}
  /\ MaxDuration \in Nat \ {0}
  /\ MaxSizeBytes \in Nat
  /\ CleanupInterval \in Nat \ {0}
  /\ MaxSeq \in Nat
  /\ MaxTime \in Nat

VARIABLES
  buffers,       \* buffers[r]: the entries kept for room r
  sequenceMap,   \* sequenceMap[r]: the last sequence given out in room r
  now,           \* time.Now()
  lastCleanup    \* when the cleanup ticker last fired

bufferVars == <<buffers, sequenceMap, now, lastCleanup>>

Entry == [seq : Nat, user : Users, ts : Nat, size : Sizes, replayed : BOOLEAN]

BufferInit ==
  /\ buffers = [r \in Rooms |-> {}]
  /\ sequenceMap = [r \in Rooms |-> 0]
  /\ now = 0
  /\ lastCleanup = 0

-----------------------------------------------------------------------------
TotalSize(S) == MapThenSumSet(LAMBDA m : m.size, S)

\* The part of the list that starts at entry m.
From(S, m) == {n \in S : n.seq >= m.seq}

IsNewest(S, m) == \A n \in S : n.seq <= m.seq

\* Mutant: the last entry is dropped too when it alone is too large.
SuffixFits(S, m) == TotalSize(From(S, m)) <= MaxSizeBytes

\* cleanupBySize stops at the first suffix within the limit, or at the last
\* entry.
MayStartList(S, m) == SuffixFits(S, m) \/ IsNewest(S, m)

\* Mutant: entries are dropped for their own size, wherever they stand.
DropLargest(S) ==
  {m \in S : TotalSize(S) <= MaxSizeBytes \/ m.size < MaxSizeBytes}

\* Mutant: the size limit is not enforced.
DropNothing(S) == S

CleanupBySize(S) == {m \in S : \E n \in S : n.seq <= m.seq /\ MayStartList(S, n)}

\* Mutant: an entry exactly MaxDuration old is kept.
UnexpiredInclusive(S) == {m \in S : m.ts >= now - MaxDuration}

\* Timestamp.After(cutoff)
Unexpired(S) == {m \in S : m.ts > now - MaxDuration}

CleanupOldMessages(S) == CleanupBySize(Unexpired(S))

NewEntry(r, u, n) ==
  [seq |-> sequenceMap[r] + 1, user |-> u, ts |-> now, size |-> n, replayed |-> FALSE]

AddMessage(r, u, n) ==
  /\ sequenceMap[r] < MaxSeq
  /\ sequenceMap' = [sequenceMap EXCEPT ![r] = @ + 1]
  /\ buffers' = [buffers EXCEPT ![r] = CleanupOldMessages(@ \cup {NewEntry(r, u, n)})]
  /\ UNCHANGED <<now, lastCleanup>>

GetMessages(r, since) == {m \in buffers[r] : m.seq > since /\ ~m.replayed}

GetUnreplayedMessages(r) == {m \in buffers[r] : ~m.replayed}

Replayed(m) == [m EXCEPT !.replayed = TRUE]

\* The ids are those of some of the entries; ids no longer buffered are ignored.
MarkAsReplayed(r, ids) ==
  /\ buffers' = [buffers EXCEPT ![r] = {IF m.seq \in ids THEN Replayed(m) ELSE m : m \in @}]
  /\ UNCHANGED <<sequenceMap, now, lastCleanup>>

MarkAllAsReplayed(r) ==
  /\ buffers' = [buffers EXCEPT ![r] = {Replayed(m) : m \in @}]
  /\ UNCHANGED <<sequenceMap, now, lastCleanup>>

ClearChannel(r) ==
  /\ buffers' = [buffers EXCEPT ![r] = {}]
  /\ sequenceMap' = [sequenceMap EXCEPT ![r] = 0]
  /\ UNCHANGED <<now, lastCleanup>>

\* StartCleanupRoutine: at every tick, CleanupAllChannels.
CleanupAllChannels ==
  /\ now = lastCleanup + CleanupInterval
  /\ buffers' = [r \in Rooms |-> CleanupOldMessages(buffers[r])]
  /\ lastCleanup' = now
  /\ UNCHANGED <<sequenceMap, now>>

\* Time passes up to the next tick of the cleanup ticker.
Tick ==
  /\ now < MaxTime
  /\ now < lastCleanup + CleanupInterval
  /\ now' = now + 1
  /\ UNCHANGED <<buffers, sequenceMap, lastCleanup>>

BufferNext ==
  \/ \E r \in Rooms, u \in Users, n \in Sizes : AddMessage(r, u, n)
  \/ \E r \in Rooms :
       \/ MarkAllAsReplayed(r)
       \/ ClearChannel(r)
       \/ \E m \in buffers[r] : MarkAsReplayed(r, {m.seq})
  \/ CleanupAllChannels
  \/ Tick

BufferSpec == BufferInit /\ [][BufferNext]_bufferVars

-----------------------------------------------------------------------------
BufferTypeOK ==
  /\ buffers \in [Rooms -> SUBSET Entry]
  /\ sequenceMap \in [Rooms -> 0 .. MaxSeq]
  /\ now \in 0 .. MaxTime
  /\ lastCleanup \in 0 .. MaxTime

(***************************************************************************)
(* Expiry and the size limit only ever remove entries from the old end:    *)
(* with an entry, every later one is still there.  So a replay since any   *)
(* sequence has a gap at most at its beginning, never in the middle.       *)
(***************************************************************************)
NoHoles ==
  \A r \in Rooms : \A m \in buffers[r] :
    \A q \in m.seq .. sequenceMap[r] : \E n \in buffers[r] : n.seq = q

\* The entries of a room carry distinct sequences already given out ...
SequencesGivenOut ==
  \A r \in Rooms : \A m, n \in buffers[r] :
    /\ m.seq \in 1 .. sequenceMap[r]
    /\ m.seq = n.seq => m = n

\* ... and are as old as they are far down the list.
AgesOrdered ==
  \A r \in Rooms : \A m, n \in buffers[r] :
    /\ m.ts <= now
    /\ m.seq <= n.seq => m.ts <= n.ts

\* The ticker is on time, and nothing outlived its last sweep.
SweptOnTime ==
  /\ lastCleanup <= now
  /\ now <= lastCleanup + CleanupInterval
  /\ \A r \in Rooms : \A m \in buffers[r] : m.ts > lastCleanup - MaxDuration

(***************************************************************************)
(* The invariant the operations rely on together: the list of a room is a  *)
(* suffix of what was ever added to it, in order of sequence and of time.  *)
(***************************************************************************)
BufferInv ==
  /\ BufferTypeOK
  /\ SequencesGivenOut
  /\ AgesOrdered
  /\ NoHoles
  /\ SweptOnTime

(***************************************************************************)
(* AddMessage never evicts the chunk it was called for, whatever its size: *)
(* the sequence the relay sends out with it (client.go:217) is replayable. *)
(***************************************************************************)
LatestKept ==
  [][\A r \in Rooms : sequenceMap'[r] > sequenceMap[r] =>
       \E m \in buffers'[r] : m.seq = sequenceMap'[r]]_bufferVars

(***************************************************************************)
(* The list of a room is within the size limit unless it is one chunk that *)
(* alone exceeds it (buffer_service.go:179).                               *)
(***************************************************************************)
SizeBounded ==
  \A r \in Rooms :
    TotalSize(buffers[r]) <= MaxSizeBytes \/ Cardinality(buffers[r]) = 1

(***************************************************************************)
(* How long memory holds a chunk of a room that fell silent: expiry only   *)
(* happens at the next AddMessage or at the ticker, so up to MaxDuration   *)
(* plus one CleanupInterval, and never longer.                             *)
(***************************************************************************)
RetentionBounded ==
  \A r \in Rooms : \A m \in buffers[r] : now < m.ts + MaxDuration + CleanupInterval
=============================================================================
