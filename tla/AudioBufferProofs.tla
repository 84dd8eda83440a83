------------------------- MODULE AudioBufferProofs --------------------------
(***************************************************************************)
(* Proofs about the replay buffer, for any rooms, sizes, limits and        *)
(* durations.                                                              *)
(***************************************************************************)
EXTENDS AudioBuffer, SumProofs

(***************************************************************************)
(* What a cleanup does to a list.  L is the list of one room as a set of   *)
(* entries whose ages follow their order.                                  *)
(***************************************************************************)
Ordered(L) ==
  \A m, n \in L : m.seq <= n.seq => m.ts <= n.ts

LEMMA CleanupSubset ==
  ASSUME NEW L
  PROVE  CleanupOldMessages(L) \subseteq L
  BY DEF CleanupOldMessages, CleanupBySize, Unexpired

LEMMA CleanupUnexpired ==
  ASSUME NEW L, NEW m \in CleanupOldMessages(L)
  PROVE  m.ts > now - MaxDuration
  BY DEF CleanupOldMessages, CleanupBySize, Unexpired

(* A cleanup that keeps an entry keeps every later one.                    *)
LEMMA CleanupUpwardClosed ==
  ASSUME BufferAssumption, now \in Nat,
         NEW L \in SUBSET Entry, Ordered(L),
         NEW m \in CleanupOldMessages(L), NEW n \in L, m.seq <= n.seq
  PROVE  n \in CleanupOldMessages(L)
<1>1. m \in L /\ m.ts > now - MaxDuration
  BY CleanupSubset, CleanupUnexpired
<1>2. n.ts \in Nat /\ m.ts \in Nat /\ n.seq \in Nat /\ m.seq \in Nat
  BY <1>1 DEF Entry
<1>3. n \in Unexpired(L)
  BY <1>1, <1>2 DEF Ordered, Unexpired, BufferAssumption
<1>4. PICK k \in Unexpired(L) : k.seq <= m.seq /\ MayStartList(Unexpired(L), k)
  BY DEF CleanupOldMessages, CleanupBySize
<1>5. k.seq \in Nat
  BY <1>4 DEF Unexpired, Entry
<1>6. k.seq <= n.seq
  BY <1>2, <1>4, <1>5
<1> QED
  BY <1>3, <1>4, <1>6 DEF CleanupOldMessages, CleanupBySize

(* The newest entry of a list survives a cleanup unless it has expired.    *)
LEMMA CleanupKeepsNewest ==
  ASSUME NEW L \in SUBSET Entry, NEW m \in Unexpired(L), IsNewest(L, m)
  PROVE  m \in CleanupOldMessages(L)
<1>1. IsNewest(Unexpired(L), m)
  BY DEF IsNewest, Unexpired
<1>2. m.seq <= m.seq
  BY DEF Unexpired, Entry
<1> QED
  BY <1>1, <1>2 DEF CleanupOldMessages, CleanupBySize, MayStartList

-----------------------------------------------------------------------------
LEMMA BufferInitInv == BufferInit => BufferInv
  BY BufferAssumption DEF BufferInit, BufferInv, BufferTypeOK, SequencesGivenOut,
     AgesOrdered, NoHoles, SweptOnTime

(* The list AddMessage cleans up: the old one and the new entry.           *)
LEMMA NewEntryFits ==
  ASSUME BufferInv, NEW r \in Rooms, NEW u \in Users, NEW n \in Sizes
  PROVE  /\ NewEntry(r, u, n) \in Entry
         /\ buffers[r] \cup {NewEntry(r, u, n)} \in SUBSET Entry
         /\ Ordered(buffers[r] \cup {NewEntry(r, u, n)})
         /\ IsNewest(buffers[r] \cup {NewEntry(r, u, n)}, NewEntry(r, u, n))
         /\ NewEntry(r, u, n) \in Unexpired(buffers[r] \cup {NewEntry(r, u, n)})
<1> DEFINE e == NewEntry(r, u, n)
<1>1. sequenceMap[r] \in Nat /\ now \in Nat /\ buffers[r] \in SUBSET Entry
  BY BufferAssumption DEF BufferInv, BufferTypeOK
<1>2. e.seq = sequenceMap[r] + 1 /\ e.ts = now
  BY DEF NewEntry
<1>3. e \in Entry
  BY <1>1 DEF NewEntry, Entry
<1>4. \A m \in buffers[r] : m.seq \in Nat /\ m.seq <= sequenceMap[r] /\ m.ts <= now
  BY <1>1 DEF BufferInv, SequencesGivenOut, AgesOrdered, Entry
<1>5. \A m, k \in buffers[r] : m.seq <= k.seq => m.ts <= k.ts
  BY DEF BufferInv, AgesOrdered
<1> HIDE DEF e
<1>6. Ordered(buffers[r] \cup {e})
  BY <1>1, <1>2, <1>4, <1>5 DEF Ordered
<1>7. IsNewest(buffers[r] \cup {e}, e)
  BY <1>1, <1>2, <1>4 DEF IsNewest
<1>8. e \in Unexpired(buffers[r] \cup {e})
  BY <1>1, <1>2, BufferAssumption DEF Unexpired, BufferAssumption
<1> QED
  BY <1>1, <1>3, <1>6, <1>7, <1>8 DEF e

LEMMA AddKeepsInv ==
  ASSUME BufferInv, NEW r \in Rooms, NEW u \in Users, NEW n \in Sizes, AddMessage(r, u, n)
  PROVE  BufferInv'
<1> DEFINE e == NewEntry(r, u, n)
           L == buffers[r] \cup {e}
<1>1. /\ e \in Entry /\ L \in SUBSET Entry /\ Ordered(L)
      /\ IsNewest(L, e) /\ e \in Unexpired(L)
  BY NewEntryFits
<1>2. e.seq = sequenceMap[r] + 1 /\ e.ts = now
  BY DEF NewEntry
<1> HIDE DEF e
<1>3. /\ buffers' = [buffers EXCEPT ![r] = CleanupOldMessages(L)]
      /\ sequenceMap' = [sequenceMap EXCEPT ![r] = @ + 1]
      /\ now' = now /\ lastCleanup' = lastCleanup
      /\ sequenceMap[r] < MaxSeq
  BY DEF AddMessage, e
<1>4. /\ buffers \in [Rooms -> SUBSET Entry]
      /\ sequenceMap \in [Rooms -> 0 .. MaxSeq]
      /\ now \in Nat /\ lastCleanup \in Nat
  BY BufferAssumption DEF BufferInv, BufferTypeOK
<1>5. CleanupOldMessages(L) \subseteq L
  BY CleanupSubset
<1>6. /\ buffers'[r] = CleanupOldMessages(L)
      /\ sequenceMap'[r] = sequenceMap[r] + 1
      /\ \A s \in Rooms \ {r} : buffers'[s] = buffers[s] /\ sequenceMap'[s] = sequenceMap[s]
  BY <1>3, <1>4
<1>7. BufferTypeOK'
  <2>1. CleanupOldMessages(L) \in SUBSET Entry
    BY <1>1, <1>5
  <2>2. buffers' \in [Rooms -> SUBSET Entry]
    BY <2>1, <1>3, <1>4
  <2>3. sequenceMap' \in [Rooms -> 0 .. MaxSeq]
    BY <1>3, <1>4, BufferAssumption DEF BufferAssumption
  <2> QED
    BY <2>2, <2>3, <1>3 DEF BufferInv, BufferTypeOK
<1>8. \A m, k \in L : m.seq \in 1 .. sequenceMap[r] + 1 /\ (m.seq = k.seq => m = k) /\ m.ts <= now
  BY <1>2, <1>4 DEF BufferInv, SequencesGivenOut, AgesOrdered, Entry
<1>9. SequencesGivenOut'
  BY <1>5, <1>6, <1>8 DEF BufferInv, SequencesGivenOut
<1>10. AgesOrdered'
  BY <1>1, <1>3, <1>5, <1>6, <1>8, ZenonT(40) DEF BufferInv, AgesOrdered, Ordered
<1>11. NoHoles'
  <2>1. ASSUME NEW s \in Rooms, NEW m \in buffers'[s], NEW q \in m.seq .. sequenceMap'[s]
        PROVE  \E k \in buffers'[s] : k.seq = q
    <3>1. CASE s # r
      BY <3>1, <1>6, <2>1 DEF BufferInv, NoHoles
    <3>2. CASE s = r
      <4>1. m \in CleanupOldMessages(L) /\ m \in L
            /\ q \in m.seq .. sequenceMap[r] + 1 /\ m.seq \in Nat /\ m.seq <= q
        <5>1. m \in CleanupOldMessages(L) /\ q \in m.seq .. sequenceMap[r] + 1
          BY <3>2, <1>6, <2>1
        <5>2. m \in L
          BY <5>1, <1>5
        <5>3. m.seq \in Nat
          BY <5>2, <1>1 DEF Entry
        <5> QED
          BY <5>1, <5>2, <5>3
      <4>2. PICK k \in L : k.seq = q
        <5>1. CASE q = sequenceMap[r] + 1
          BY <5>1, <1>2
        <5>2. CASE q # sequenceMap[r] + 1
          <6>1. m \in buffers[r] /\ q \in m.seq .. sequenceMap[r]
            BY <4>1, <5>2, <1>2, <1>4
          <6> QED
            BY <6>1 DEF BufferInv, NoHoles
        <5> QED
          BY <5>1, <5>2
      <4>3. k \in CleanupOldMessages(L)
        BY <1>1, <1>4, <4>1, <4>2, CleanupUpwardClosed, BufferAssumption
      <4> QED
        BY <3>2, <1>6, <4>2, <4>3
    <3> QED
      BY <3>1, <3>2
  <2> QED
    BY <2>1 DEF NoHoles
<1>12. SweptOnTime'
  <2>1. \A m \in L : m.ts > lastCleanup - MaxDuration
    BY <1>2, <1>4, BufferAssumption DEF BufferInv, SweptOnTime, BufferAssumption
  <2> QED
    BY <2>1, <1>3, <1>5, <1>6 DEF BufferInv, SweptOnTime
<1> QED
  BY <1>7, <1>9, <1>10, <1>11, <1>12 DEF BufferInv

(* Marking entries as replayed changes nothing the invariant mentions.     *)
LEMMA MarkKeepsInv ==
  ASSUME BufferInv, NEW r \in Rooms,
         NEW M, \A m \in buffers[r] : M[m] = m \/ M[m] = Replayed(m),
         buffers' = [buffers EXCEPT ![r] = {M[m] : m \in @}],
         UNCHANGED <<sequenceMap, now, lastCleanup>>
  PROVE  BufferInv'
<1>1. buffers \in [Rooms -> SUBSET Entry]
  BY DEF BufferInv, BufferTypeOK
<1>2. \A m \in buffers[r] : M[m] \in Entry /\ M[m].seq = m.seq /\ M[m].ts = m.ts
  <2>1. ASSUME NEW m \in Entry
        PROVE  Replayed(m) \in Entry /\ Replayed(m).seq = m.seq /\ Replayed(m).ts = m.ts
    BY DEF Replayed, Entry
  <2> QED
    BY <1>1, <2>1
<1>3. /\ buffers'[r] = {M[m] : m \in buffers[r]}
      /\ \A s \in Rooms \ {r} : buffers'[s] = buffers[s]
  BY <1>1
<1>4. BufferTypeOK'
  BY <1>1, <1>2 DEF BufferInv, BufferTypeOK
<1>5. SequencesGivenOut'
  BY <1>2, <1>3 DEF BufferInv, SequencesGivenOut
<1>6. AgesOrdered'
  BY <1>2, <1>3 DEF BufferInv, AgesOrdered
<1>7. NoHoles'
  BY <1>2, <1>3 DEF BufferInv, NoHoles
<1>8. SweptOnTime'
  BY <1>2, <1>3 DEF BufferInv, SweptOnTime
<1> QED
  BY <1>4, <1>5, <1>6, <1>7, <1>8 DEF BufferInv

LEMMA ClearKeepsInv ==
  ASSUME BufferInv, NEW r \in Rooms, ClearChannel(r)
  PROVE  BufferInv'
<1>1. /\ buffers \in [Rooms -> SUBSET Entry] /\ sequenceMap \in [Rooms -> 0 .. MaxSeq]
      /\ buffers' = [buffers EXCEPT ![r] = {}]
      /\ sequenceMap' = [sequenceMap EXCEPT ![r] = 0]
      /\ now' = now /\ lastCleanup' = lastCleanup
  BY DEF BufferInv, BufferTypeOK, ClearChannel
<1>2. BufferTypeOK'
  BY <1>1, BufferAssumption DEF BufferInv, BufferTypeOK, BufferAssumption
<1> QED
  BY <1>1, <1>2 DEF BufferInv, SequencesGivenOut, AgesOrdered, NoHoles, SweptOnTime

LEMMA SweepKeepsInv ==
  ASSUME BufferInv, CleanupAllChannels
  PROVE  BufferInv'
<1>1. /\ buffers \in [Rooms -> SUBSET Entry] /\ sequenceMap \in [Rooms -> 0 .. MaxSeq]
      /\ now \in Nat /\ lastCleanup' = now /\ now' = now /\ sequenceMap' = sequenceMap
      /\ buffers' = [r \in Rooms |-> CleanupOldMessages(buffers[r])]
  BY BufferAssumption DEF BufferInv, BufferTypeOK, CleanupAllChannels
<1>2. \A r \in Rooms : buffers'[r] = CleanupOldMessages(buffers[r]) /\ buffers'[r] \subseteq buffers[r]
  BY <1>1, CleanupSubset
<1>3. BufferTypeOK'
  BY <1>1, <1>2 DEF BufferInv, BufferTypeOK
<1>4. SequencesGivenOut' /\ AgesOrdered'
  BY <1>1, <1>2 DEF BufferInv, SequencesGivenOut, AgesOrdered
<1>5. NoHoles'
  <2>1. ASSUME NEW r \in Rooms, NEW m \in buffers'[r], NEW q \in m.seq .. sequenceMap[r]
        PROVE  \E k \in buffers'[r] : k.seq = q
    <3>1. m \in buffers[r] /\ buffers[r] \in SUBSET Entry /\ Ordered(buffers[r])
      BY <1>1, <1>2, <2>1 DEF BufferInv, AgesOrdered, Ordered
    <3>2. PICK k \in buffers[r] : k.seq = q
      BY <3>1, <2>1 DEF BufferInv, NoHoles
    <3>3. m.seq <= k.seq
      BY <3>1, <3>2, <2>1 DEF Entry
    <3>4. k \in CleanupOldMessages(buffers[r])
      BY <1>1, <1>2, <2>1, <3>1, <3>2, <3>3, CleanupUpwardClosed, BufferAssumption
    <3> QED
      BY <1>2, <3>2, <3>4
  <2> QED
    BY <1>1, <2>1 DEF NoHoles
<1>6. SweptOnTime'
  <2>1. \A r \in Rooms : \A m \in buffers'[r] : m.ts > now - MaxDuration
    BY <1>2, CleanupUnexpired
  <2> QED
    BY <1>1, <2>1, BufferAssumption DEF SweptOnTime, BufferAssumption
<1> QED
  BY <1>3, <1>4, <1>5, <1>6 DEF BufferInv

LEMMA TickKeepsInv ==
  ASSUME BufferInv, Tick
  PROVE  BufferInv'
<1>1. /\ buffers' = buffers /\ sequenceMap' = sequenceMap /\ lastCleanup' = lastCleanup
      /\ now' = now + 1 /\ now < MaxTime /\ now < lastCleanup + CleanupInterval
      /\ now \in Nat /\ lastCleanup \in Nat /\ buffers \in [Rooms -> SUBSET Entry]
  BY BufferAssumption DEF Tick, BufferInv, BufferTypeOK
<1>2. BufferTypeOK'
  BY <1>1, BufferAssumption DEF BufferInv, BufferTypeOK, BufferAssumption
<1>3. AgesOrdered'
  BY <1>1 DEF BufferInv, AgesOrdered, Entry
<1>4. SweptOnTime'
  BY <1>1, BufferAssumption DEF BufferInv, SweptOnTime, BufferAssumption
<1> QED
  BY <1>1, <1>2, <1>3, <1>4 DEF BufferInv, SequencesGivenOut, NoHoles

LEMMA BufferStepInv == BufferInv /\ [BufferNext]_bufferVars => BufferInv'
<1> SUFFICES ASSUME BufferInv, [BufferNext]_bufferVars
             PROVE  BufferInv'
  OBVIOUS
<1>1. CASE UNCHANGED bufferVars
  BY <1>1 DEF bufferVars, BufferInv, BufferTypeOK, SequencesGivenOut, AgesOrdered,
     NoHoles, SweptOnTime
<1>2. ASSUME NEW r \in Rooms, NEW u \in Users, NEW n \in Sizes, AddMessage(r, u, n)
      PROVE  BufferInv'
  BY <1>2, AddKeepsInv
<1>3. ASSUME NEW r \in Rooms, MarkAllAsReplayed(r)
      PROVE  BufferInv'
  <2> DEFINE M == [m \in buffers[r] |-> Replayed(m)]
  <2>1. \A m \in buffers[r] : M[m] = Replayed(m)
    OBVIOUS
  <2>2. buffers' = [buffers EXCEPT ![r] = {M[m] : m \in @}]
    BY <1>3 DEF MarkAllAsReplayed, BufferInv, BufferTypeOK
  <2> HIDE DEF M
  <2> QED
    BY <1>3, <2>1, <2>2, MarkKeepsInv DEF MarkAllAsReplayed
<1>4. ASSUME NEW r \in Rooms, NEW ids, MarkAsReplayed(r, ids)
      PROVE  BufferInv'
  <2> DEFINE M == [m \in buffers[r] |-> IF m.seq \in ids THEN Replayed(m) ELSE m]
  <2>1. \A m \in buffers[r] : M[m] = m \/ M[m] = Replayed(m)
    OBVIOUS
  <2>2. buffers' = [buffers EXCEPT ![r] = {M[m] : m \in @}]
    BY <1>4 DEF MarkAsReplayed, BufferInv, BufferTypeOK
  <2> HIDE DEF M
  <2> QED
    BY <1>4, <2>1, <2>2, MarkKeepsInv DEF MarkAsReplayed
<1>5. ASSUME NEW r \in Rooms, ClearChannel(r)
      PROVE  BufferInv'
  BY <1>5, ClearKeepsInv
<1>6. CASE CleanupAllChannels
  BY <1>6, SweepKeepsInv
<1>7. CASE Tick
  BY <1>7, TickKeepsInv
<1> QED
  BY <1>1, <1>2, <1>3, <1>4, <1>5, <1>6, <1>7 DEF BufferNext

(***************************************************************************)
(* The buffer of every room stays an ordered suffix of what was added.     *)
(***************************************************************************)
THEOREM BufferInvariant == BufferSpec => []BufferInv
<1> QED
  BY BufferInitInv, BufferStepInv, PTL DEF BufferSpec

(***************************************************************************)
(* A replay never has a hole in its middle, whatever sizes and ages the    *)
(* chunks have: no eviction passes over an older entry.                    *)
(***************************************************************************)
THEOREM NoHolesTheorem == BufferSpec => []NoHoles
<1>1. BufferInv => NoHoles
  BY DEF BufferInv
<1> QED
  BY <1>1, BufferInvariant, PTL

(***************************************************************************)
(* A chunk is never held for MaxDuration plus CleanupInterval or longer.   *)
(***************************************************************************)
THEOREM RetentionTheorem == BufferSpec => []RetentionBounded
<1>1. BufferInv => RetentionBounded
  BY BufferAssumption DEF BufferInv, BufferTypeOK, SweptOnTime, RetentionBounded, Entry,
     BufferAssumption
<1> QED
  BY <1>1, BufferInvariant, PTL

(***************************************************************************)
(* AddMessage keeps the chunk it was called for, even one larger than the  *)
(* whole buffer may be.                                                    *)
(***************************************************************************)
THEOREM LatestKeptTheorem == BufferSpec => LatestKept
<1> DEFINE Kept == \A r \in Rooms : sequenceMap'[r] > sequenceMap[r] =>
                     \E m \in buffers'[r] : m.seq = sequenceMap'[r]
<1>1. ASSUME BufferInv, [BufferNext]_bufferVars
      PROVE  [Kept]_bufferVars
  <2>1. CASE UNCHANGED bufferVars
    BY <2>1
  <2>2. ASSUME NEW s \in Rooms, NEW u \in Users, NEW n \in Sizes, AddMessage(s, u, n)
        PROVE  Kept
    <3> DEFINE e == NewEntry(s, u, n)
    <3>1. e \in CleanupOldMessages(buffers[s] \cup {e})
      BY <1>1, <2>2, NewEntryFits, CleanupKeepsNewest
    <3>2. e.seq = sequenceMap[s] + 1
      BY DEF NewEntry
    <3> HIDE DEF e
    <3>3. /\ buffers' = [buffers EXCEPT ![s] = CleanupOldMessages(buffers[s] \cup {e})]
          /\ sequenceMap' = [sequenceMap EXCEPT ![s] = @ + 1]
          /\ buffers \in [Rooms -> SUBSET Entry]
          /\ sequenceMap \in [Rooms -> 0 .. MaxSeq]
      BY <1>1, <2>2 DEF AddMessage, e, BufferInv, BufferTypeOK
    <3> QED
      BY <3>1, <3>2, <3>3, BufferAssumption DEF BufferAssumption
  <2>3. CASE \/ \E r \in Rooms :
                  \/ MarkAllAsReplayed(r)
                  \/ ClearChannel(r)
                  \/ \E m \in buffers[r] : MarkAsReplayed(r, {m.seq})
             \/ CleanupAllChannels
             \/ Tick
    <3>1. sequenceMap \in [Rooms -> 0 .. MaxSeq]
      BY <1>1 DEF BufferInv, BufferTypeOK
    <3>2. \A r \in Rooms : sequenceMap'[r] = sequenceMap[r] \/ sequenceMap'[r] = 0
      BY <2>3, <3>1 DEF MarkAllAsReplayed, ClearChannel, MarkAsReplayed, CleanupAllChannels, Tick
    <3> QED
      BY <3>1, <3>2
  <2> QED
    BY <1>1, <2>1, <2>2, <2>3 DEF BufferNext
<1> QED
  BY <1>1, BufferInvariant, PTL DEF BufferSpec, LatestKept

-----------------------------------------------------------------------------
(***************************************************************************)
(* The size limit.  TotalSize is a sum over the entries of a list; only    *)
(* marking entries needs to know more of it than that it exists.           *)
(***************************************************************************)
EntrySize == [m \in Entry |-> m.size]

(* The sum TotalSize takes, as the sum of a function.                      *)
LEMMA TotalSizeIs ==
  ASSUME NEW S \in SUBSET Entry, IsFiniteSet(S)
  PROVE  TotalSize(S) = SumFunctionOnSet(EntrySize, S)
<1>1. PICK g : IsSum(g, EntrySize, SUBSET S) /\ SumFunctionOnSet(EntrySize, S) = g[S]
  BY SumIs
<1> DEFINE Solves(h) == h = [s \in SUBSET S |->
                IF s = {} THEN 0 ELSE Some(s).size + h[s \ {Some(s)}]]
           iter == CHOOSE h : Solves(h)
<1>2. \A s \in SUBSET S : s # {} => EntrySize[Some(s)] = Some(s).size
  BY DEF Some, EntrySize
<1>3. \A h : Solves(h) <=> IsSum(h, EntrySize, SUBSET S)
  BY <1>2 DEF IsSum
<1>4. TotalSize(S) = iter[S]
  BY DEF TotalSize, MapThenSumSet, MapThenFoldSet, Some
<1> HIDE DEF Solves
<1>5. Solves(iter)
  BY <1>1, <1>3
<1> HIDE DEF iter
<1> QED
  BY <1>1, <1>3, <1>4, <1>5, SumUnique

(* What SizeBounded says of one list.                                      *)
SizeFits(S) == TotalSize(S) <= MaxSizeBytes \/ Cardinality(S) = 1

LEMMA EmptyFits == SizeFits({})
<1>1. TotalSize({}) = 0
  BY TotalSizeIs, SumEmpty, FS_EmptySet
<1> QED
  BY <1>1, BufferAssumption DEF SizeFits, BufferAssumption

(* The entries of a list carry distinct sequences, up to some bound.       *)
Distinct(L, bound) ==
  \A m, n \in L : m.seq \in 0 .. bound /\ (m.seq = n.seq => m = n)

(* Whatever the list, a cleanup leaves one that fits: it starts at the     *)
(* first entry from which the rest fits, or at the newest.                 *)
LEMMA CleanupFits ==
  ASSUME NEW L \in SUBSET Entry, NEW bound \in Nat, Distinct(L, bound)
  PROVE  SizeFits(CleanupOldMessages(L))
<1> DEFINE S == Unexpired(L)
           Starts == {n \in S : MayStartList(S, n)}
<1>1. S \in SUBSET L
  BY DEF Unexpired
<1>2. \A m \in S : m.seq \in Nat /\ m.seq <= bound
  BY <1>1 DEF Distinct
<1>3. \A m, n \in S : m.seq = n.seq => m = n
  BY <1>1 DEF Distinct
<1>4. CleanupOldMessages(L) = {m \in S : \E n \in Starts : n.seq <= m.seq}
  BY DEF CleanupOldMessages, CleanupBySize
<1> HIDE DEF S
<1>5. CASE S = {}
  BY <1>4, <1>5, EmptyFits
<1>6. CASE S # {}
  <2>1. \E n \in S : IsNewest(S, n)
    <3> DEFINE T == {m.seq : m \in S}
    <3>1. T \in SUBSET Nat /\ T # {} /\ \A q \in T : q <= bound
      BY <1>2, <1>6
    <3>2. \E q \in T : \A p \in T : p <= q
      <4> HIDE DEF T
      <4> QED BY <3>1, GreatestElement
    <3> QED
      BY <3>2 DEF IsNewest
  <2>2. PICK n \in Starts : \A k \in Starts : n.seq <= k.seq
    <3> DEFINE T == {m.seq : m \in Starts}
    <3>1. T \in SUBSET Nat /\ T # {}
      BY <1>2, <2>1 DEF MayStartList
    <3>2. \E q \in T : \A p \in T : q <= p
      <4> HIDE DEF T
      <4> QED BY <3>1, LeastElement
    <3> QED
      BY <3>2
  <2>3. CleanupOldMessages(L) = From(S, n)
    <3>1. ASSUME NEW m \in S PROVE (\E k \in Starts : k.seq <= m.seq) <=> m.seq >= n.seq
      BY <1>2, <2>2
    <3> HIDE DEF Starts
    <3> QED
      BY <1>4, <3>1 DEF From
  <2>4. CASE SuffixFits(S, n)
    BY <2>3, <2>4 DEF SuffixFits, SizeFits
  <2>5. CASE IsNewest(S, n)
    <3>1. From(S, n) = {n}
      BY <1>2, <1>3, <2>5 DEF From, IsNewest
    <3> QED
      BY <2>3, <3>1, FS_Singleton DEF SizeFits
  <2> QED
    BY <2>2, <2>4, <2>5 DEF MayStartList
<1> QED
  BY <1>5, <1>6

LEMMA ListFinite ==
  ASSUME NEW L \in SUBSET Entry, NEW bound \in Nat, Distinct(L, bound)
  PROVE  IsFiniteSet(L)
<1> DEFINE f == [m \in L |-> m.seq]
<1>1. f \in Injection(L, 0 .. bound)
  BY DEF Distinct, Injection, IsInjective
<1>2. IsFiniteSet(0 .. bound)
  BY FS_Interval
<1> QED
  BY <1>1, <1>2, FS_Injection

(* Marking entries as replayed leaves their sizes and their number.        *)
LEMMA MarkFits ==
  ASSUME NEW L \in SUBSET Entry, NEW bound \in Nat, Distinct(L, bound),
         NEW M, \A m \in L : M[m] = m \/ M[m] = Replayed(m), SizeFits(L)
  PROVE  SizeFits({M[m] : m \in L})
<1> DEFINE K == {M[m] : m \in L}
<1>1. \A m \in L : M[m] \in Entry /\ M[m].seq = m.seq /\ M[m].size = m.size
  <2>1. ASSUME NEW m \in Entry
        PROVE  Replayed(m) \in Entry /\ Replayed(m).seq = m.seq /\ Replayed(m).size = m.size
    BY DEF Replayed, Entry
  <2> QED
    BY <2>1
<1>2. \A m, n \in L : M[m] = M[n] => m = n
  BY <1>1 DEF Distinct
<1>3. IsFiniteSet(L)
  BY ListFinite
<1>4. IsFiniteSet(K) /\ Cardinality(K) = Cardinality(L)
  <2> DEFINE f == [m \in L |-> M[m]]
  <2>1. f \in Surjection(L, K) /\ f \in Injection(L, K)
    BY <1>2 DEF Surjection, Injection, IsInjective
  <2> QED
    BY <1>3, <2>1, FS_Surjection
<1>5. SumFunctionOnSet(EntrySize, K) = SumFunctionOnSet(EntrySize, L)
  <2>1. ASSUME NEW m \in Entry
        PROVE  EntrySize[m] = m.size /\ m.size \in Int
    <3>1. EntrySize[m] = m.size
      BY DEF EntrySize
    <3>2. m.size \in Sizes
      BY DEF Entry
    <3>3. m.size \in Nat
      BY <3>2, BufferAssumption DEF BufferAssumption
    <3> QED
      BY <3>1, <3>3
  <2>2. \A m \in L : EntrySize[m] \in Int /\ EntrySize[M[m]] = EntrySize[m]
    BY <1>1, <2>1
  <2> QED
    BY <1>2, <1>3, <2>2, SumImage
<1>6. K \in SUBSET Entry
  BY <1>1
<1>7. TotalSize(K) = TotalSize(L)
  BY <1>3, <1>4, <1>5, <1>6, TotalSizeIs
<1> QED
  BY <1>4, <1>7 DEF SizeFits

LEMMA ListsDistinct ==
  ASSUME BufferInv, NEW r \in Rooms
  PROVE  /\ buffers[r] \in SUBSET Entry
         /\ MaxSeq \in Nat
         /\ Distinct(buffers[r], MaxSeq)
<1>1. buffers[r] \in SUBSET Entry /\ sequenceMap[r] \in 0 .. MaxSeq /\ MaxSeq \in Nat
  BY BufferAssumption DEF BufferInv, BufferTypeOK, BufferAssumption
<1>2. \A m, n \in buffers[r] : m.seq \in 1 .. sequenceMap[r] /\ (m.seq = n.seq => m = n)
  BY DEF BufferInv, SequencesGivenOut
<1> QED
  BY <1>1, <1>2 DEF Distinct

LEMMA BufferStepSize ==
  ASSUME BufferInv, SizeBounded, [BufferNext]_bufferVars
  PROVE  SizeBounded'
<1>0. SizeBounded <=> \A r \in Rooms : SizeFits(buffers[r])
  BY DEF SizeBounded, SizeFits
<1>1. SUFFICES ASSUME NEW r \in Rooms PROVE SizeFits(buffers'[r])
  BY DEF SizeBounded, SizeFits
<1>2. buffers \in [Rooms -> SUBSET Entry]
  BY DEF BufferInv, BufferTypeOK
<1>3. ASSUME buffers'[r] = buffers[r] PROVE SizeFits(buffers'[r])
  BY <1>0, <1>3
<1>4. CASE UNCHANGED bufferVars
  BY <1>3, <1>4 DEF bufferVars
<1>5. ASSUME NEW s \in Rooms, NEW u \in Users, NEW n \in Sizes, AddMessage(s, u, n)
      PROVE  SizeFits(buffers'[r])
  <2>1. CASE s # r
    BY <1>2, <1>3, <1>5, <2>1 DEF AddMessage
  <2>2. CASE s = r
    <3> DEFINE e == NewEntry(r, u, n)
               L == buffers[r] \cup {e}
    <3>1. L \in SUBSET Entry
      BY NewEntryFits
    <3>2. e.seq = sequenceMap[r] + 1 /\ sequenceMap[r] < MaxSeq
          /\ sequenceMap[r] \in Nat /\ MaxSeq \in Nat
      BY <1>5, <2>2, BufferAssumption
         DEF NewEntry, AddMessage, BufferInv, BufferTypeOK, BufferAssumption
    <3>3. buffers'[r] = CleanupOldMessages(L)
      BY <1>2, <1>5, <2>2 DEF AddMessage
    <3> HIDE DEF e
    <3>4. \A m, k \in buffers[r] : m.seq \in 1 .. sequenceMap[r] /\ (m.seq = k.seq => m = k)
      BY DEF BufferInv, SequencesGivenOut
    <3>5. Distinct(L, MaxSeq)
      BY <3>2, <3>4 DEF Distinct
    <3> QED
      BY <3>1, <3>2, <3>3, <3>5, CleanupFits
  <2> QED
    BY <2>1, <2>2
<1>6. ASSUME NEW s \in Rooms,
             NEW M, \A m \in buffers[s] : M[m] = m \/ M[m] = Replayed(m),
             buffers' = [buffers EXCEPT ![s] = {M[m] : m \in @}]
      PROVE  SizeFits(buffers'[r])
  <2>1. CASE s # r
    BY <1>2, <1>3, <1>6, <2>1
  <2>2. CASE s = r
    <3>1. buffers'[r] = {M[m] : m \in buffers[r]}
      BY <1>2, <1>6, <2>2
    <3> QED
      BY <1>0, <1>6, <2>2, <3>1, ListsDistinct, MarkFits
  <2> QED
    BY <2>1, <2>2
<1>7. ASSUME NEW s \in Rooms, MarkAllAsReplayed(s) PROVE SizeFits(buffers'[r])
  <2> DEFINE M == [m \in buffers[s] |-> Replayed(m)]
  <2>1. \A m \in buffers[s] : M[m] = m \/ M[m] = Replayed(m)
    OBVIOUS
  <2>2. buffers' = [buffers EXCEPT ![s] = {M[m] : m \in @}]
    BY <1>2, <1>7 DEF MarkAllAsReplayed
  <2> HIDE DEF M
  <2> QED
    BY <1>6, <2>1, <2>2
<1>8. ASSUME NEW s \in Rooms, NEW ids, MarkAsReplayed(s, ids) PROVE SizeFits(buffers'[r])
  <2> DEFINE M == [m \in buffers[s] |-> IF m.seq \in ids THEN Replayed(m) ELSE m]
  <2>1. \A m \in buffers[s] : M[m] = m \/ M[m] = Replayed(m)
    OBVIOUS
  <2>2. buffers' = [buffers EXCEPT ![s] = {M[m] : m \in @}]
    BY <1>2, <1>8 DEF MarkAsReplayed
  <2> HIDE DEF M
  <2> QED
    BY <1>6, <2>1, <2>2
<1>9. ASSUME NEW s \in Rooms, ClearChannel(s) PROVE SizeFits(buffers'[r])
  BY <1>2, <1>3, <1>9, EmptyFits DEF ClearChannel
<1>10. CASE CleanupAllChannels
  <2>1. buffers'[r] = CleanupOldMessages(buffers[r])
    BY <1>10 DEF CleanupAllChannels
  <2> QED
    BY <2>1, ListsDistinct, CleanupFits
<1>11. CASE Tick
  BY <1>3, <1>11 DEF Tick
<1> QED
  BY <1>4, <1>5, <1>7, <1>8, <1>9, <1>10, <1>11 DEF BufferNext

(***************************************************************************)
(* The list of a room is within MaxSizeBytes unless it is one chunk, after *)
(* every sequence of operations, for any sizes and any limit.              *)
(***************************************************************************)
THEOREM SizeTheorem == BufferSpec => []SizeBounded
<1>1. BufferInit => SizeBounded
  BY EmptyFits DEF BufferInit, SizeBounded, SizeFits
<1>2. BufferInv /\ SizeBounded /\ [BufferNext]_bufferVars => SizeBounded'
  BY BufferStepSize
<1> QED
  BY <1>1, <1>2, BufferInvariant, PTL DEF BufferSpec
=============================================================================
