------------------------- MODULE VoiceScreenProofs -------------------------
(***************************************************************************)
(* The flags of the voice screen, for any number of pending calls, presses *)
(* and messages; they do not depend on what the queue holds.  And the      *)
(* bytes in the queue, for any chunks and any limit.                       *)
(***************************************************************************)
EXTENDS VoiceScreen, SequenceTheorems, SumProofs

(* The recorder runs only for somebody shown as transmitting, unless a call*)
(* of _stopTalking is about to end it.                                     *)
MicAccounted ==
  mounted /\ capturing /\ stops = {} => transmitting /\ recording

ScreenInv == FlagsTypeOK /\ BusyIffActive /\ MicAccounted

ListenVarsUnchanged == UNCHANGED <<listenVars, busy, mounted>>

TalkVarsUnchanged == UNCHANGED <<talkVars, mounted>>

(* What listening does to the flags, with the microphone left alone.       *)
LEMMA ListeningKeepsScreenInv ==
  ASSUME ScreenInv, TalkVarsUnchanged,
         \/ ListenVarsUnchanged
         \/ EndReceiveSegment
         \/ PlayChunk
  PROVE  ScreenInv'
<1> USE DEF ScreenInv, FlagsTypeOK, BusyIffActive, MicAccounted,
            TalkVarsUnchanged, talkVars
<1>1. CASE ListenVarsUnchanged
  BY <1>1 DEF ListenVarsUnchanged, listenVars
<1>2. CASE EndReceiveSegment
  BY <1>2 DEF EndReceiveSegment, StillBusy
<1>3. CASE PlayChunk
  BY <1>3 DEF PlayChunk, ResetReceiveIdleTimer
<1> QED
  BY <1>1, <1>2, <1>3

(* A call of _startTalking at one of its awaits.                           *)
LEMMA StartTalkingKeepsScreenInv ==
  ASSUME ScreenInv, NEW i \in Calls,
         \/ PressToTalk(i)
         \/ PermissionDenied(i) \/ AlreadyRecording(i) \/ PermissionGranted(i)
         \/ RecorderStarted(i) \/ RecorderFailed(i)
  PROVE  ScreenInv'
<1> USE DEF ScreenInv, FlagsTypeOK, BusyIffActive, MicAccounted, listenVars
<1>1. CASE PressToTalk(i)
  BY <1>1 DEF PressToTalk, Press
<1>2. CASE PermissionDenied(i)
  BY <1>2 DEF PermissionDenied
<1>3. CASE AlreadyRecording(i)
  BY <1>3 DEF AlreadyRecording, NowTransmitting
<1>4. CASE PermissionGranted(i)
  BY <1>4 DEF PermissionGranted
<1>5. CASE RecorderStarted(i)
  BY <1>5 DEF RecorderStarted, NowTransmitting
<1>6. CASE RecorderFailed(i)
  BY <1>6 DEF RecorderFailed, NowTransmitting
<1> QED
  BY <1>1, <1>2, <1>3, <1>4, <1>5, <1>6

(* A call of _stopTalking before and after its await.                      *)
LEMMA StopTalkingKeepsScreenInv ==
  ASSUME ScreenInv,
         \/ StopAtOnce
         \/ \E i \in Calls : StopRecording(i) \/ RecorderStopped(i)
  PROVE  ScreenInv'
<1> USE DEF ScreenInv, FlagsTypeOK, BusyIffActive, MicAccounted, listenVars
<1>1. CASE StopAtOnce
  BY <1>1 DEF StopAtOnce, EndTap, EndStop
<1>2. ASSUME NEW i \in Calls, StopRecording(i)
      PROVE  ScreenInv'
  <2>1. stops' # {}
    BY <1>2 DEF StopRecording
  <2> QED
    BY <1>2, <2>1 DEF StopRecording, EndTap
<1>3. ASSUME NEW i \in Calls, RecorderStopped(i)
      PROVE  ScreenInv'
  BY <1>3 DEF RecorderStopped, EndStop
<1> QED
  BY <1>1, <1>2, <1>3

LEMMA StepKeepsScreenInv ==
  ASSUME ScreenInv, [Next]_vars
  PROVE  ScreenInv'
<1> USE DEF talkVars
<1>1. CASE \E n \in Lengths : OnAudio(n)
  BY <1>1, ListeningKeepsScreenInv DEF OnAudio, ListenVarsUnchanged, TalkVarsUnchanged
<1>2. CASE OnEndOfSegment
  BY <1>2, ListeningKeepsScreenInv
  DEF OnEndOfSegment, ListenVarsUnchanged, TalkVarsUnchanged
<1>3. CASE OnDisconnected \/ ReceiveIdle \/ StopListening \/ PlayMarker
  BY <1>3, ListeningKeepsScreenInv
  DEF OnDisconnected, ReceiveIdle, StopListening, PlayMarker, TalkVarsUnchanged
<1>4. CASE PlayChunk
  BY <1>4, ListeningKeepsScreenInv DEF PlayChunk, TalkVarsUnchanged
<1>5. CASE PlaybackEnds
  BY <1>5, ListeningKeepsScreenInv
  DEF PlaybackEnds, ListenVarsUnchanged, TalkVarsUnchanged
<1>6. CASE PressIgnored
  BY <1>6, ListeningKeepsScreenInv
  DEF PressIgnored, Press, ListenVarsUnchanged, TalkVarsUnchanged
<1>7. CASE ReleaseUnheard
  BY <1>7, ListeningKeepsScreenInv
  DEF ReleaseUnheard, ListenVarsUnchanged, TalkVarsUnchanged
<1>8. CASE StopAtOnce
  BY <1>8, StopTalkingKeepsScreenInv
<1>9. ASSUME NEW i \in Calls,
             \/ PressToTalk(i)
             \/ PermissionDenied(i) \/ AlreadyRecording(i) \/ PermissionGranted(i)
             \/ RecorderStarted(i) \/ RecorderFailed(i)
      PROVE  ScreenInv'
  BY <1>9, StartTalkingKeepsScreenInv
<1>10. CASE \E i \in Calls : StopRecording(i) \/ RecorderStopped(i)
  BY <1>10, StopTalkingKeepsScreenInv
<1>11. CASE Dispose
  BY <1>11 DEF Dispose, ScreenInv, FlagsTypeOK, BusyIffActive, MicAccounted
<1>12. CASE UNCHANGED vars
  BY <1>12, ListeningKeepsScreenInv DEF vars, ListenVarsUnchanged, TalkVarsUnchanged
<1> QED
  BY <1>1, <1>2, <1>3, <1>4, <1>5, <1>6, <1>7, <1>8, <1>9, <1>10, <1>11, <1>12
  DEF Next, Playback

(* The three facts about the flags hold together for ever.                 *)
THEOREM ScreenInvariant == Spec => []ScreenInv
<1>1. Init => ScreenInv
  BY DEF Init, ScreenInv, FlagsTypeOK, BusyIffActive, MicAccounted
<1>2. ScreenInv /\ [Next]_vars => ScreenInv'
  BY StepKeepsScreenInv
<1> QED
  BY <1>1, <1>2, PTL DEF Spec

(* The button is blocked exactly while the screen receives or transmits,   *)
(* and reception always has its idle timer, whatever the interleaving of   *)
(* presses, recorder answers, messages and timers.                         *)
THEOREM BusyTheorem == Spec => []BusyIffActive
<1>1. ScreenInv => BusyIffActive
  BY DEF ScreenInv
<1> QED
  BY <1>1, ScreenInvariant, PTL

(* An open microphone is always shown, however many calls of _startTalking *)
(* and _stopTalking overlapped before.                                     *)
THEOREM OpenMicTheorem == Spec => []OpenMicShown
<1>1. ScreenInv => OpenMicShown
  BY DEF ScreenInv, MicAccounted, OpenMicShown, Settled
<1> QED
  BY <1>1, ScreenInvariant, PTL

-----------------------------------------------------------------------------
(***************************************************************************)
(* The bytes of a sequence of chunks: a sum over its indices.              *)
(***************************************************************************)
LengthsOf(q) == [i \in 1 .. Len(q) |-> q[i].length]

LEMMA ChunkTypes ==
  /\ EndMarker \in AudioChunk
  /\ \A n \in Lengths : Chunk(n) \in AudioChunk
  /\ \A c \in AudioChunk : c.length \in Nat
  /\ \A c \in AudioChunk : c.end => c = EndMarker
  /\ \A c \in AudioChunk : ~c.end => \E n \in Lengths : c = Chunk(n)
<1>1. EndMarker \in AudioChunk /\ EndMarker.length = 0 /\ EndMarker.end
  BY DEF AudioChunk, EndMarker
<1>2. \A n \in Lengths : Chunk(n) \in AudioChunk
  BY DEF AudioChunk, Chunk
<1>3. \A c \in AudioChunk : c = EndMarker \/ (~c.end /\ \E n \in Lengths : c = Chunk(n))
  <2> SUFFICES ASSUME NEW c \in [end : {FALSE}, length : Lengths]
               PROVE  ~c.end /\ \E n \in Lengths : c = Chunk(n)
    BY DEF AudioChunk
  <2>1. c.end = FALSE /\ c.length \in Lengths
    OBVIOUS
  <2>2. c = [end |-> c.end, length |-> c.length]
    OBVIOUS
  <2> QED
    BY <2>1, <2>2 DEF Chunk
<1>4. \A n \in Lengths : n \in Nat /\ Chunk(n).length = n
  BY QueueAssumption DEF QueueAssumption, Chunk
<1>5. \A c \in AudioChunk : c.length \in Nat
  BY <1>1, <1>3, <1>4
<1> QED
  BY <1>1, <1>2, <1>3, <1>5

LEMMA BytesIs ==
  ASSUME NEW q \in Seq(AudioChunk)
  PROVE  /\ IsFiniteSet(1 .. Len(q))
         /\ \A i \in 1 .. Len(q) : LengthsOf(q)[i] = q[i].length /\ q[i].length \in Nat
         /\ Bytes(q) = SumFunctionOnSet(LengthsOf(q), 1 .. Len(q))
         /\ Bytes(q) \in Nat
<1> DEFINE I == 1 .. Len(q)
           f == LengthsOf(q)
<1>1. DOMAIN q = I /\ IsFiniteSet(I)
  BY LenProperties, FS_Interval
<1>2. \A i \in I : f[i] = q[i].length /\ q[i].length \in Nat
  BY ChunkTypes, ElementOfSeq DEF LengthsOf
<1>3. PICK g : IsSum(g, f, SUBSET I) /\ SumFunctionOnSet(f, I) = g[I]
  BY <1>1, SumIs
<1> DEFINE Solves(h) == h = [s \in SUBSET I |->
                IF s = {} THEN 0 ELSE q[Some(s)].length + h[s \ {Some(s)}]]
           iter == CHOOSE h : Solves(h)
<1>4. \A h : Solves(h) <=> IsSum(h, f, SUBSET I)
  <2>1. \A s \in SUBSET I : s # {} => f[Some(s)] = q[Some(s)].length
    BY <1>2 DEF Some
  <2> HIDE DEF f, I
  <2> QED
    BY <2>1 DEF IsSum
<1>5. Bytes(q) = iter[I]
  BY <1>1 DEF Bytes, FoldSeq, FoldFunction, FoldFunctionOnSet, MapThenFoldSet, Some
<1> HIDE DEF Solves, f
<1>6. Solves(iter)
  BY <1>3, <1>4
<1> HIDE DEF iter, I
<1>7. Bytes(q) = SumFunctionOnSet(f, I)
  BY <1>1, <1>3, <1>4, <1>5, <1>6, SumUnique
<1>8. SumFunctionOnSet(f, I) \in Nat
  BY <1>1, <1>2, SumNat
<1> QED
  BY <1>1, <1>2, <1>7, <1>8 DEF f, I

LEMMA BytesEmpty == Bytes(<< >>) = 0
<1>1. << >> \in Seq(AudioChunk) /\ 1 .. Len(<< >>) = {}
  BY EmptySeq
<1> QED
  BY <1>1, BytesIs, SumEmpty

(* A sequence of markers only.                                             *)
LEMMA BytesOfMarkers ==
  ASSUME NEW q \in Seq(AudioChunk), \A i \in 1 .. Len(q) : q[i].end
  PROVE  Bytes(q) = 0
<1>1. \A i \in 1 .. Len(q) : LengthsOf(q)[i] = 0
  <2>1. \A i \in 1 .. Len(q) : q[i] = EndMarker
    BY ChunkTypes, ElementOfSeq
  <2> QED
    BY <2>1 DEF LengthsOf, EndMarker
<1> QED
  BY <1>1, BytesIs, SumNat

(* One more at the end.                                                    *)
LEMMA BytesLonger ==
  ASSUME NEW q \in Seq(AudioChunk), NEW p \in Seq(AudioChunk),
         Len(p) = Len(q) + 1, \A i \in 1 .. Len(q) : p[i] = q[i]
  PROVE  Bytes(p) = Bytes(q) + p[Len(p)].length
<1> DEFINE I == 1 .. Len(p)
           J == 1 .. Len(q)
           f == LengthsOf(p)
<1>0. Len(q) \in Nat
  BY LenProperties
<1>1. J = I \ {Len(p)} /\ Len(p) \in I
  BY <1>0
<1>2. IsFiniteSet(I) /\ IsFiniteSet(J)
  BY BytesIs
<1>3. \A i \in I : f[i] \in Int
  BY BytesIs
<1>4. SumFunctionOnSet(f, I) = f[Len(p)] + SumFunctionOnSet(f, J)
  <2> HIDE DEF I, J, f
  <2> QED
    BY <1>1, <1>2, <1>3, SumRemove
<1>5. SumFunctionOnSet(f, J) = SumFunctionOnSet(LengthsOf(q), J)
  <2>1. \A i \in J : f[i] = LengthsOf(q)[i]
    BY <1>0 DEF LengthsOf
  <2> HIDE DEF J, f
  <2> QED
    BY <1>2, <2>1, SumSame
<1>6. f[Len(p)] = p[Len(p)].length /\ p[Len(p)].length \in Nat
  BY <1>1, BytesIs
<1> QED
  BY <1>4, <1>5, <1>6, BytesIs

(* A sequence cut in two.                                                  *)
LEMMA BytesSplit ==
  ASSUME NEW q \in Seq(AudioChunk), NEW k \in 0 .. Len(q)
  PROVE  /\ SubSeq(q, 1, k) \in Seq(AudioChunk)
         /\ SubSeq(q, k + 1, Len(q)) \in Seq(AudioChunk)
         /\ Bytes(q) = Bytes(SubSeq(q, 1, k)) + Bytes(SubSeq(q, k + 1, Len(q)))
<1> DEFINE part(a, b) == SubSeq(q, a, b)
           P(j) == k + j <= Len(q) =>
                     Bytes(part(1, k + j)) = Bytes(part(1, k)) + Bytes(part(k + 1, k + j))
           K == {j \in Nat : P(j)}
<1>0. Len(q) \in Nat /\ \A i \in 1 .. Len(q) : q[i] \in AudioChunk
  BY LenProperties, ElementOfSeq
<1>1. ASSUME NEW a \in 1 .. Len(q) + 1, NEW b \in 0 .. Len(q), a <= b + 1
      PROVE  /\ part(a, b) \in Seq(AudioChunk)
             /\ Len(part(a, b)) = b - a + 1
             /\ \A i \in 1 .. b - a + 1 : part(a, b)[i] = q[a + i - 1]
  <2>1. a \in Int /\ b \in Int /\ \A i \in a .. b : q[i] \in AudioChunk
    BY <1>0
  <2>2. /\ SubSeq(q, a, b) \in Seq(AudioChunk)
        /\ Len(SubSeq(q, a, b)) = IF a <= b THEN b - a + 1 ELSE 0
        /\ \A i \in 1 .. b - a + 1 : SubSeq(q, a, b)[i] = q[a + i - 1]
    BY <2>1, SubSeqProperties
  <2> QED
    BY <1>1, <2>1, <2>2
<1>2. ASSUME NEW a \in 1 .. Len(q), NEW b \in 0 .. Len(q) - 1, a <= b + 1
      PROVE  Bytes(part(a, b + 1)) = Bytes(part(a, b)) + q[b + 1].length
  <2> DEFINE s == part(a, b)
             t == part(a, b + 1)
  <2>1. /\ s \in Seq(AudioChunk) /\ Len(s) = b - a + 1
        /\ \A i \in 1 .. b - a + 1 : s[i] = q[a + i - 1]
    BY <1>0, <1>1, <1>2
  <2>2. /\ t \in Seq(AudioChunk) /\ Len(t) = b - a + 2
        /\ \A i \in 1 .. b - a + 2 : t[i] = q[a + i - 1]
    <3>1. a \in 1 .. Len(q) + 1 /\ b + 1 \in 0 .. Len(q) /\ a <= b + 1 + 1
      BY <1>0, <1>2
    <3>2. b + 1 - a + 1 = b - a + 2
      BY <1>0
    <3> QED
      BY <1>1, <3>1, <3>2
  <2> HIDE DEF s, t
  <2>3. Len(t) = Len(s) + 1 /\ \A i \in 1 .. Len(s) : t[i] = s[i]
    BY <1>0, <2>1, <2>2
  <2>4. t[Len(t)] = q[b + 1]
    <3>1. Len(t) \in 1 .. b - a + 2 /\ a + Len(t) - 1 = b + 1
      BY <1>0, <1>2, <2>2
    <3> QED
      BY <2>2, <3>1
  <2>5. Bytes(t) = Bytes(s) + t[Len(t)].length
    BY <2>1, <2>2, <2>3, BytesLonger
  <2> QED
    BY <2>4, <2>5 DEF s, t
<1>3. ASSUME NEW a \in 1 .. Len(q) + 1, NEW b \in 0 .. Len(q), a <= b + 1
      PROVE  Bytes(part(a, b)) \in Nat
  BY <1>1, <1>3, BytesIs
<1> HIDE DEF part
<1>4. 0 \in K
  <2>1. part(k + 1, k) = << >>
    BY SubSeqEmpty DEF part
  <2>2. Bytes(part(1, k)) \in Nat
    BY <1>0, <1>3
  <2>3. k + 0 = k
    OBVIOUS
  <2> QED
    BY <2>1, <2>2, <2>3, BytesEmpty
<1>5. ASSUME NEW j \in Nat, j \in K PROVE j + 1 \in K
  <2> SUFFICES ASSUME k + (j + 1) <= Len(q) PROVE P(j + 1)
    OBVIOUS
  <2>1. Bytes(part(1, k + j)) = Bytes(part(1, k)) + Bytes(part(k + 1, k + j))
    BY <1>0, <1>5
  <2>2. Bytes(part(1, k + j + 1)) = Bytes(part(1, k + j)) + q[k + j + 1].length
    BY <1>0, <1>2
  <2>3. Bytes(part(k + 1, k + j + 1)) = Bytes(part(k + 1, k + j)) + q[k + j + 1].length
    BY <1>0, <1>2
  <2>4. /\ Bytes(part(1, k)) \in Nat /\ Bytes(part(k + 1, k + j)) \in Nat
        /\ q[k + j + 1].length \in Nat
    <3>1. k + j + 1 \in 1 .. Len(q)
      BY <1>0
    <3>2. k + j \in 0 .. Len(q) /\ k \in 0 .. Len(q) /\ k + 1 \in 1 .. Len(q) + 1
      BY <1>0
    <3>3. Bytes(part(1, k)) \in Nat
      BY <1>0, <1>3, <3>2
    <3>4. k + 1 <= k + j + 1
      BY <1>0
    <3>5. Bytes(part(k + 1, k + j)) \in Nat
      BY <1>3, <3>2, <3>4
    <3> QED
      BY <1>0, <3>1, <3>3, <3>5, ChunkTypes
  <2>5. k + (j + 1) = k + j + 1
    OBVIOUS
  <2> QED
    BY <2>1, <2>2, <2>3, <2>4, <2>5
<1>6. Len(q) - k \in K
  <2> HIDE DEF K
  <2>1. Nat \subseteq K
    BY <1>4, <1>5, Induction
  <2> QED
    BY <1>0, <2>1
<1>7. k + (Len(q) - k) = Len(q)
  BY <1>0
<1>8. part(1, Len(q)) = q
  BY SubSeqFull DEF part
<1>9. Bytes(q) = Bytes(part(1, k)) + Bytes(part(k + 1, Len(q)))
  BY <1>0, <1>6, <1>7, <1>8
<1> QED
  BY <1>0, <1>1, <1>9 DEF part

-----------------------------------------------------------------------------
(* What the operations of the queue rely on together.                      *)
QueueInv ==
  /\ queue \in Seq(AudioChunk)
  /\ playing \in BOOLEAN
  /\ QueueConsistent

(* What QueueConsistent says of the number of chunks, without counting.    *)
LEMMA OneChunk ==
  ASSUME NEW q \in Seq(AudioChunk)
  PROVE  Cardinality({i \in DOMAIN q : ~q[i].end}) = 1
           <=> \E i \in 1 .. Len(q) : \A j \in 1 .. Len(q) : ~q[j].end <=> j = i
<1> DEFINE C == {i \in DOMAIN q : ~q[i].end}
<1>1. DOMAIN q = 1 .. Len(q)
  BY LenProperties
<1>2. IsFiniteSet(C)
  <2>1. Len(q) \in Nat
    BY LenProperties
  <2>2. IsFiniteSet(1 .. Len(q))
    BY <2>1, FS_Interval
  <2>3. C \in SUBSET (1 .. Len(q))
    BY <1>1
  <2> HIDE DEF C
  <2> QED
    BY <2>2, <2>3, FS_Subset
<1>3. Cardinality(C) = 1 <=> \E i : C = {i}
  <2> HIDE DEF C
  <2> QED
    BY <1>2, FS_Singleton
<1>4. (\E i : C = {i}) <=> \E i \in 1 .. Len(q) : \A j \in 1 .. Len(q) : ~q[j].end <=> j = i
  <2> DEFINE audio(j) == ~q[j].end
  <2>1. C = {j \in 1 .. Len(q) : audio(j)}
    BY <1>1
  <2> HIDE DEF C, audio
  <2>2. (\E i : C = {i}) <=> \E i \in 1 .. Len(q) : \A j \in 1 .. Len(q) : audio(j) <=> j = i
    <3>1. ASSUME NEW i, C = {i}
          PROVE  i \in 1 .. Len(q) /\ \A j \in 1 .. Len(q) : audio(j) <=> j = i
      <4>1. i \in 1 .. Len(q) /\ audio(i)
        BY <2>1, <3>1
      <4>2. ASSUME NEW j \in 1 .. Len(q), audio(j) PROVE j = i
        BY <2>1, <3>1, <4>2
      <4> QED
        BY <4>1, <4>2
    <3>2. ASSUME NEW i \in 1 .. Len(q), \A j \in 1 .. Len(q) : audio(j) <=> j = i
          PROVE  C = {i}
      BY <2>1, <3>2
    <3> QED
      BY <3>1, <3>2
  <2> QED
    BY <2>2 DEF audio
<1> QED
  BY <1>3, <1>4

(* The loop of enqueue comes to an end: to the smallest number of entries  *)
(* it is enough to drop.                                                   *)
LEMMA EnoughIsReached ==
  ASSUME NEW q \in Seq(AudioChunk), q # << >>, NEW bytes \in Nat
  PROVE  LET k == CHOOSE i \in 0 .. Len(q) :
                    /\ Enough(q, bytes, i)
                    /\ \A j \in 0 .. i - 1 : ~Enough(q, bytes, j)
         IN  k \in 0 .. Len(q) - 1 /\ Enough(q, bytes, k)
<1> DEFINE T == {i \in 0 .. Len(q) : Enough(q, bytes, i)}
           Least(i) == Enough(q, bytes, i) /\ \A j \in 0 .. i - 1 : ~Enough(q, bytes, j)
           k == CHOOSE i \in 0 .. Len(q) : Least(i)
<1>1. Len(q) \in Nat /\ Len(q) # 0
  BY EmptySeq, LenProperties
<1>2. Len(q) - 1 \in T
  BY <1>1 DEF Enough
<1>3. PICK i \in T : \A j \in T : i <= j
  <2> HIDE DEF T
  <2>1. T \in SUBSET Nat
    BY <1>1 DEF T
  <2> QED
    BY <1>2, <2>1, LeastElement
<1>4. i \in 0 .. Len(q) /\ Least(i)
  BY <1>1, <1>3
<1> HIDE DEF Least
<1>5. k \in 0 .. Len(q) /\ Least(k)
  BY <1>4
<1>6. k \in 0 .. Len(q) - 1 /\ Enough(q, bytes, k)
  <2> HIDE DEF k
  <2> QED
    BY <1>1, <1>5 DEF Least, Enough
<1> QED
  BY <1>6 DEF Least

LEMMA EnqueueKeepsQueue ==
  ASSUME QueueInv, NEW n \in Lengths, Enqueue(n), StartPlayback
  PROVE  QueueInv'
<1> DEFINE q == Append(queue, Chunk(n))
           bytes == BytesWith(n)
           k == CHOOSE i \in 0 .. Len(q) :
                  /\ Enough(q, bytes, i)
                  /\ \A j \in 0 .. i - 1 : ~Enough(q, bytes, j)
<1>1. queue \in Seq(AudioChunk) /\ Len(queue) \in Nat /\ Chunk(n) \in AudioChunk
  BY ChunkTypes, LenProperties DEF QueueInv
<1>2. /\ q \in Seq(AudioChunk) /\ Len(q) = Len(queue) + 1
      /\ \A i \in 1 .. Len(queue) : q[i] = queue[i]
      /\ q[Len(q)] = Chunk(n)
  BY <1>1
<1>3. /\ queue' = SubSeq(q, k + 1, Len(q))
      /\ totalBytes' = bytes - Bytes(SubSeq(q, 1, k))
      /\ playing' = TRUE
  BY DEF Enqueue, BytesWithout, StartPlayback
<1>4. bytes = Bytes(q) /\ bytes \in Nat
  <2>1. totalBytes = Bytes(queue) /\ Chunk(n).length = n
    BY DEF QueueInv, QueueConsistent, Chunk
  <2> HIDE DEF q
  <2>2. Bytes(q) = Bytes(queue) + n
    BY <1>1, <1>2, <2>1, BytesLonger
  <2> QED
    BY <1>2, <2>1, <2>2, BytesIs DEF BytesWith
<1> HIDE DEF q, bytes
<1>5. q # << >>
  BY <1>1, <1>2, EmptySeq
<1>6. k \in 0 .. Len(q) - 1 /\ Enough(q, bytes, k)
  BY <1>2, <1>4, <1>5, EnoughIsReached
<1> HIDE DEF k
<1>7. /\ queue' \in Seq(AudioChunk)
      /\ SubSeq(q, 1, k) \in Seq(AudioChunk)
      /\ Bytes(q) = Bytes(SubSeq(q, 1, k)) + Bytes(queue')
  <2>1. k \in 0 .. Len(q)
    BY <1>1, <1>2, <1>6
  <2> QED
    BY <1>2, <1>3, <2>1, BytesSplit
<1>8. totalBytes' = Bytes(queue')
  <2>1. Bytes(SubSeq(q, 1, k)) \in Nat /\ Bytes(queue') \in Nat
    BY <1>7, BytesIs
  <2> QED
    BY <1>3, <1>4, <1>7, <2>1
<1>9. totalBytes' <= MaxBytes \/ Cardinality(Chunks') = 1
  <2>1. CASE bytes - Bytes(SubSeq(q, 1, k)) <= MaxBytes
    BY <1>3, <2>1
  <2>2. CASE k = Len(q) - 1
    <3>1. Len(q) \in Int /\ \A i \in Len(q) .. Len(q) : q[i] \in AudioChunk
      BY <1>1, <1>2
    <3>2. queue' = SubSeq(q, Len(q), Len(q))
      BY <1>1, <1>2, <1>3, <2>2
    <3>3. Len(queue') = 1 /\ queue'[1] = q[Len(q)]
      BY <3>1, <3>2, SubSeqProperties
    <3>4. ~queue'[1].end
      BY <1>2, <3>3 DEF Chunk
    <3>5. \A j \in 1 .. Len(queue') : ~queue'[j].end <=> j = 1
      BY <3>3, <3>4
    <3>6. 1 \in 1 .. Len(queue')
      BY <3>3
    <3>7. Cardinality({i \in DOMAIN queue' : ~queue'[i].end}) = 1
      BY <1>7, <3>5, <3>6, OneChunk
    <3> QED
      BY <3>7 DEF Chunks
  <2> QED
    BY <1>6, <2>1, <2>2 DEF Enough
<1> QED
  BY <1>3, <1>7, <1>8, <1>9 DEF QueueInv, QueueConsistent

LEMMA MarkerKeepsQueue ==
  ASSUME QueueInv, EnqueueEndOfSegment, UNCHANGED playing
  PROVE  QueueInv'
<1>1. /\ queue \in Seq(AudioChunk) /\ Len(queue) \in Nat /\ EndMarker \in AudioChunk
      /\ totalBytes = Bytes(queue)
  BY ChunkTypes, LenProperties DEF QueueInv, QueueConsistent
<1>2. queue' = Append(queue, EndMarker) /\ totalBytes' = totalBytes
  BY DEF EnqueueEndOfSegment
<1>3. /\ queue' \in Seq(AudioChunk) /\ Len(queue') = Len(queue) + 1
      /\ \A i \in 1 .. Len(queue) : queue'[i] = queue[i]
      /\ queue'[Len(queue')] = EndMarker
  BY <1>1, <1>2
<1>4. Bytes(queue') = Bytes(queue)
  <2>1. Bytes(queue') = Bytes(queue) + queue'[Len(queue')].length
    BY <1>1, <1>3, BytesLonger
  <2>2. Bytes(queue) \in Nat
    BY <1>1, BytesIs
  <2> QED
    BY <1>3, <2>1, <2>2 DEF EndMarker
<1>5. Chunks' = Chunks
  <2>1. DOMAIN queue = 1 .. Len(queue) /\ DOMAIN queue' = 1 .. Len(queue) + 1
    BY <1>1, <1>3, LenProperties
  <2>2. queue'[Len(queue) + 1].end
    BY <1>3 DEF EndMarker
  <2>3. \A i : i \in Chunks' <=> i \in Chunks
    BY <1>1, <1>3, <2>1, <2>2 DEF Chunks
  <2> QED
    BY <2>3
<1> QED
  BY <1>1, <1>2, <1>3, <1>4, <1>5 DEF QueueInv, QueueConsistent

LEMMA ClearKeepsQueue ==
  ASSUME Clear
  PROVE  QueueInv'
<1>1. queue' = << >> /\ totalBytes' = 0 /\ playing' = FALSE
  BY DEF Clear
<1>2. queue' \in Seq(AudioChunk) /\ Bytes(queue') = 0
  BY <1>1, EmptySeq, BytesEmpty
<1>3. Chunks' = {}
  BY <1>1 DEF Chunks
<1>4. totalBytes' <= MaxBytes
  BY <1>1, QueueAssumption DEF QueueAssumption
<1> QED
  BY <1>1, <1>2, <1>3, <1>4 DEF QueueInv, QueueConsistent

LEMMA ProcessKeepsQueue ==
  ASSUME QueueInv, NEW chunk, ProcessNextChunk(chunk)
  PROVE  QueueInv'
<1>1. /\ queue \in Seq(AudioChunk) /\ queue # << >> /\ totalBytes = Bytes(queue)
      /\ chunk = Head(queue) /\ queue' = Tail(queue)
      /\ totalBytes' = totalBytes - chunk.length
      /\ playing /\ playing' = playing
  BY DEF QueueInv, QueueConsistent, ProcessNextChunk
<1>2. Len(queue) \in Nat /\ Len(queue) # 0
  BY <1>1, EmptySeq, LenProperties
<1>3. /\ queue' \in Seq(AudioChunk) /\ Len(queue') = Len(queue) - 1
      /\ \A i \in 1 .. Len(queue') : queue'[i] = queue[i + 1]
  BY <1>1, HeadTailProperties
<1>4. chunk = queue[1] /\ chunk \in AudioChunk
  BY <1>1, <1>2, ElementOfSeq
<1>5. Bytes(queue) = chunk.length + Bytes(queue')
  <2>1. 1 \in 0 .. Len(queue)
    BY <1>2
  <2>2. queue' = SubSeq(queue, 1 + 1, Len(queue))
    BY <1>1, TailIsSubSeq
  <2>3. /\ SubSeq(queue, 1, 1) \in Seq(AudioChunk)
        /\ Bytes(queue) = Bytes(SubSeq(queue, 1, 1)) + Bytes(queue')
    BY <1>1, <2>1, <2>2, BytesSplit
  <2>4. Len(SubSeq(queue, 1, 1)) = 1 /\ SubSeq(queue, 1, 1)[1] = queue[1]
    <3>1. \A i \in 1 .. 1 : queue[i] \in AudioChunk
      BY <1>4
    <3> QED
      BY <3>1, SubSeqProperties
  <2> DEFINE empty == << >>
  <2>5. empty \in Seq(AudioChunk) /\ Len(empty) = 0 /\ Bytes(empty) = 0
    BY EmptySeq, BytesEmpty
  <2> HIDE DEF empty
  <2>6. Bytes(SubSeq(queue, 1, 1)) = Bytes(empty) + queue[1].length
    <3> DEFINE first == SubSeq(queue, 1, 1)
    <3>1. first \in Seq(AudioChunk) /\ Len(first) = Len(empty) + 1 /\ first[Len(first)] = queue[1]
      BY <2>3, <2>4, <2>5
    <3>2. \A i \in 1 .. Len(empty) : first[i] = empty[i]
      BY <2>5
    <3> HIDE DEF first
    <3>3. Bytes(first) = Bytes(empty) + first[Len(first)].length
      BY <2>5, <3>1, <3>2, BytesLonger
    <3> QED
      BY <3>1, <3>3 DEF first
  <2>7. chunk.length \in Nat
    BY <1>4, ChunkTypes
  <2> QED
    BY <1>4, <2>3, <2>5, <2>6, <2>7
<1>6. /\ totalBytes' = Bytes(queue') /\ totalBytes' \in Nat
      /\ totalBytes \in Nat /\ totalBytes' <= totalBytes
  <2>1. chunk.length \in Nat /\ Bytes(queue') \in Nat /\ Bytes(queue) \in Nat
    BY <1>1, <1>3, <1>4, BytesIs, ChunkTypes
  <2> QED
    BY <1>1, <1>5, <2>1
<1>7. totalBytes' <= MaxBytes \/ Cardinality(Chunks') = 1
  <2>1. CASE totalBytes <= MaxBytes
    BY <1>6, <2>1, QueueAssumption DEF QueueAssumption
  <2>2. CASE Cardinality(Chunks) = 1
    <3>1. PICK i \in 1 .. Len(queue) : \A j \in 1 .. Len(queue) : ~queue[j].end <=> j = i
      BY <1>1, <2>2, OneChunk DEF Chunks
    <3>2. CASE i = 1
      <4>1. \A j \in 1 .. Len(queue') : queue'[j].end
        BY <1>2, <1>3, <3>1, <3>2
      <4>2. totalBytes' = 0
        BY <1>3, <1>6, <4>1, BytesOfMarkers
      <4> QED
        BY <4>2, QueueAssumption DEF QueueAssumption
    <3>3. CASE i # 1
      <4>1. i - 1 \in 1 .. Len(queue')
        BY <1>2, <1>3, <3>3
      <4>2. \A j \in 1 .. Len(queue') : ~queue'[j].end <=> j = i - 1
        BY <1>2, <1>3, <3>1
      <4>3. Cardinality({j \in DOMAIN queue' : ~queue'[j].end}) = 1
        BY <1>3, <4>1, <4>2, OneChunk
      <4> QED
        BY <4>3 DEF Chunks
    <3> QED
      BY <3>2, <3>3
  <2> QED
    BY <2>1, <2>2 DEF QueueInv, QueueConsistent
<1> QED
  BY <1>1, <1>3, <1>6, <1>7 DEF QueueInv, QueueConsistent

LEMMA StepKeepsQueueInv ==
  ASSUME QueueInv, [Next]_vars
  PROVE  QueueInv'
<1>1. ASSUME UNCHANGED queueVars PROVE QueueInv'
  BY <1>1 DEF QueueInv, QueueConsistent, Chunks, queueVars
<1>2. ASSUME NEW n \in Lengths, OnAudio(n) PROVE QueueInv'
  BY <1>2, EnqueueKeepsQueue DEF OnAudio
<1>3. CASE OnEndOfSegment
  BY <1>3, MarkerKeepsQueue DEF OnEndOfSegment
<1>4. CASE PlayChunk \/ PlayMarker
  BY <1>4, ProcessKeepsQueue DEF PlayChunk, PlayMarker
<1>5. CASE PlaybackEnds
  <2>1. queue = << >> /\ queue' = queue /\ totalBytes' = totalBytes /\ playing' = FALSE
    BY <1>5 DEF PlaybackEnds, StopPlayback
  <2>2. Chunks = {} /\ Chunks' = {}
    BY <2>1 DEF Chunks
  <2> QED
    BY <2>1, <2>2 DEF QueueInv, QueueConsistent
<1>6. CASE StopListening \/ Dispose
  BY <1>6, ClearKeepsQueue DEF StopListening, Dispose
<1>7. CASE OnDisconnected \/ ReceiveIdle \/ ReleaseUnheard
  BY <1>1, <1>7 DEF OnDisconnected, ReceiveIdle, ReleaseUnheard
<1>8. CASE PressIgnored \/ StopAtOnce
  BY <1>1, <1>8 DEF PressIgnored, Press, StopAtOnce, EndTap
<1>9. ASSUME NEW i \in Calls,
             \/ PressToTalk(i)
             \/ PermissionDenied(i) \/ AlreadyRecording(i) \/ PermissionGranted(i)
             \/ RecorderStarted(i) \/ RecorderFailed(i)
             \/ StopRecording(i) \/ RecorderStopped(i)
      PROVE  QueueInv'
  BY <1>1, <1>9 DEF PressToTalk, Press, PermissionDenied, AlreadyRecording,
     PermissionGranted, RecorderStarted, RecorderFailed, StopRecording, EndTap,
     RecorderStopped
<1>10. CASE UNCHANGED vars
  BY <1>1, <1>10 DEF vars
<1> QED
  BY <1>2, <1>3, <1>4, <1>5, <1>6, <1>7, <1>8, <1>9, <1>10 DEF Next, Playback

(***************************************************************************)
(* The sum kept beside the queue is the bytes in it, whatever was received,*)
(* played and cleared before; they are within the limit or those of a      *)
(* single chunk; and what is queued is being played.                       *)
(***************************************************************************)
THEOREM QueueTheorem == Spec => []QueueConsistent
<1>1. Init => QueueInv
  <2> SUFFICES ASSUME Init PROVE QueueInv
    OBVIOUS
  <2>1. queue = << >> /\ totalBytes = 0 /\ playing = FALSE
    BY DEF Init, QueueInit
  <2>2. queue \in Seq(AudioChunk) /\ Bytes(queue) = 0 /\ Chunks = {}
    BY <2>1, EmptySeq, BytesEmpty DEF Chunks
  <2>3. totalBytes <= MaxBytes
    BY <2>1, QueueAssumption DEF QueueAssumption
  <2> QED
    BY <2>1, <2>2, <2>3 DEF QueueInv, QueueConsistent
<1>2. QueueInv /\ [Next]_vars => QueueInv'
  BY StepKeepsQueueInv
<1>3. QueueInv => QueueConsistent
  BY DEF QueueInv
<1> QED
  BY <1>1, <1>2, <1>3, PTL DEF Spec
=============================================================================
