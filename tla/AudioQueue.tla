----------------------------- MODULE AudioQueue -----------------------------
(***************************************************************************)
(* The app's queue of received audio: AudioQueue                           *)
(* (frontend/lib/features/voice/services/audio_queue.dart), a FIFO of      *)
(* chunks and end-of-segment markers that a timer empties.  Dart runs one  *)
(* callback at a time, so every method is one action.                      *)
(***************************************************************************)
EXTENDS Naturals, Sequences, SequencesExt

CONSTANTS
  Lengths,    \* the lengths of the chunks, never 0: enqueue ignores those
  MaxBytes    \* the limit of the queue, 960000 bytes in the app

ASSUME QueueAssumption ==
  /\ Lengths \subseteq Nat \ {0}
  /\ MaxBytes \in Nat

VARIABLES
  queue,        \* _queue
  totalBytes,   \* _totalBytes, kept along with the queue
  playing       \* _isPlaying: the periodic timer runs

queueVars == <<queue, totalBytes, playing>>

Chunk(n) == [end |-> FALSE, length |-> n]
EndMarker == [end |-> TRUE, length |-> 0]
AudioChunk == [end : {FALSE}, length : Lengths] \cup {EndMarker}

QueueInit ==
  /\ queue = << >>
  /\ totalBytes = 0
  /\ playing = FALSE

-----------------------------------------------------------------------------
\* The bytes of a sequence of chunks.
Bytes(q) == FoldSeq(LAMBDA chunk, sum : chunk.length + sum, 0, q)

\* Dropping the k oldest of q is enough: what is left fits, or is the newest.
Enough(q, bytes, k) ==
  \/ k \in 0 .. Len(q) - 1 /\ bytes - Bytes(SubSeq(q, 1, k)) <= MaxBytes
  \/ k = Len(q) - 1

\* Mutant: the bytes of what is dropped stay in the sum.
ForgetNothing(bytes, dropped) == bytes

BytesWithout(bytes, dropped) == bytes - Bytes(dropped)

BytesWith(n) == totalBytes + n

\* enqueue drops the oldest, chunks and markers alike, until enough is dropped.
Enqueue(n) ==
  LET q == Append(queue, Chunk(n))
      bytes == BytesWith(n)
      k == CHOOSE i \in 0 .. Len(q) :
             /\ Enough(q, bytes, i)
             /\ \A j \in 0 .. i - 1 : ~Enough(q, bytes, j)
  IN  /\ queue' = SubSeq(q, k + 1, Len(q))
      /\ totalBytes' = BytesWithout(bytes, SubSeq(q, 1, k))

\* A marker takes no room, drops nothing and does not start the playback.
EnqueueEndOfSegment ==
  /\ queue' = Append(queue, EndMarker)
  /\ UNCHANGED totalBytes

StartPlayback == playing' = TRUE

Clear ==
  /\ queue' = << >>
  /\ totalBytes' = 0
  /\ playing' = FALSE

\* The timer finds the queue empty, and stops.
StopPlayback ==
  /\ playing
  /\ queue = << >>
  /\ playing' = FALSE
  /\ UNCHANGED <<queue, totalBytes>>

\* The timer takes the next chunk or marker.
ProcessNextChunk(chunk) ==
  /\ playing
  /\ queue # << >>
  /\ chunk = Head(queue)
  /\ queue' = Tail(queue)
  /\ totalBytes' = totalBytes - chunk.length
  /\ UNCHANGED playing

-----------------------------------------------------------------------------
\* Where the chunks are among what is queued.
Chunks == {i \in DOMAIN queue : ~queue[i].end}

(***************************************************************************)
(* RF08, "Fila limitada a 30 segundos de audio": through any sequence of   *)
(* chunks, markers, playing and clearing, the sum kept beside the queue is *)
(* the bytes in it, and they are within the limit unless they are those of *)
(* a single chunk; and audio never waits without the timer running.        *)
(***************************************************************************)
QueueConsistent ==
  /\ totalBytes = Bytes(queue)
  /\ totalBytes <= MaxBytes \/ Cardinality(Chunks) = 1
  /\ Chunks # {} => playing
=============================================================================
