------------------------- MODULE ReaderParserProofs -------------------------
(***************************************************************************)
(* For every stream, every read size and every behaviour of the reader:    *)
(* the window is well typed, holds exactly the bytes of the stream it      *)
(* claims to hold, is bounded by the consumed prefix and one read chunk,   *)
(* and is, for its caller, nothing but a cursor over the stream.           *)
(*   ReaderParser uses its window only through the window's own            *)
(* operations, so all that holds of Get and ArrayEach too, for every path; *)
(* a token they retain stays where it is; the buffer is no larger than the *)
(* longest token needs; a reader is given up after exactly as many empty   *)
(* reads as it should; and no chunking of the stream makes a difference to *)
(* the call.                                                               *)
(***************************************************************************)
EXTENDS ReaderHistory, ReaderChunking, SequenceTheorems, TLAPS

\* A buffer b that starts at offset o, with position p and capacity c, is a
\* window on the first n bytes of the stream.
Holds(b, o, p, c, n) ==
  /\ b \in Seq(STRING)
  /\ o \in Nat /\ p \in Nat /\ c \in Nat
  /\ p =< Len(b)
  /\ Len(b) =< c
  /\ c =< p + ReadSize
  /\ o + Len(b) = n
  /\ n =< Len(stream)
  /\ \A k \in 1 .. Len(b) : b[k] = stream[o + k]

WindowOf(w, n) ==
  /\ w = [buf |-> w.buf, bufStart |-> w.bufStart, pos |-> w.pos, cap |-> w.cap]
  /\ Holds(w.buf, w.bufStart, w.pos, w.cap, n)

WindowInv ==
  /\ stream \in Seq(STRING)
  /\ served \in Nat
  /\ WindowOf(win, served)
  /\ readErr \in ReadErrors \cup {"none"}
  /\ emptyReads \in 0 .. MaxEmptyReads
  /\ readErr = "none" => emptyReads < MaxEmptyReads

\* A suffix of a sequence, element by element.
LEMMA SuffixProperties ==
  ASSUME NEW s \in Seq(STRING), NEW m \in Nat, m =< Len(s)
  PROVE  /\ SubSeq(s, m + 1, Len(s)) \in Seq(STRING)
         /\ Len(SubSeq(s, m + 1, Len(s))) = Len(s) - m
         /\ \A k \in 1 .. Len(s) - m : SubSeq(s, m + 1, Len(s))[k] = s[m + k]
<1>1. Len(s) \in Nat /\ \A k \in m + 1 .. Len(s) : s[k] \in STRING
  BY LenProperties, ElementOfSeq
<1>2. /\ SubSeq(s, m + 1, Len(s)) \in Seq(STRING)
      /\ Len(SubSeq(s, m + 1, Len(s)))
           = IF m + 1 <= Len(s) THEN Len(s) - (m + 1) + 1 ELSE 0
      /\ \A k \in 1 .. Len(s) - (m + 1) + 1 :
           SubSeq(s, m + 1, Len(s))[k] = s[m + 1 + k - 1]
  BY <1>1, SubSeqProperties
<1> QED BY <1>1, <1>2

\* The next n bytes of a sequence, element by element.
LEMMA ChunkProperties ==
  ASSUME NEW s \in Seq(STRING), NEW m \in Nat, NEW n \in Nat, m + n =< Len(s)
  PROVE  /\ SubSeq(s, m + 1, m + n) \in Seq(STRING)
         /\ Len(SubSeq(s, m + 1, m + n)) = n
         /\ \A k \in 1 .. n : SubSeq(s, m + 1, m + n)[k] = s[m + k]
<1>1. Len(s) \in Nat /\ \A k \in m + 1 .. m + n : s[k] \in STRING
  BY LenProperties, ElementOfSeq
<1>2. /\ SubSeq(s, m + 1, m + n) \in Seq(STRING)
      /\ Len(SubSeq(s, m + 1, m + n))
           = IF m + 1 <= m + n THEN m + n - (m + 1) + 1 ELSE 0
      /\ \A k \in 1 .. m + n - (m + 1) + 1 :
           SubSeq(s, m + 1, m + n)[k] = s[m + 1 + k - 1]
  BY <1>1, SubSeqProperties
<1> QED BY <1>1, <1>2

\* Dropping the consumed prefix keeps the contents and moves the offset.
LEMMA DropHolds ==
  ASSUME NEW b, NEW o, NEW p, NEW c, NEW n \in Nat, Holds(b, o, p, c, n)
  PROVE  /\ Holds(SubSeq(b, p + 1, Len(b)), o + p, 0, c - p, n)
         /\ Len(SubSeq(b, p + 1, Len(b))) = Len(b) - p
<1> DEFINE rest == SubSeq(b, p + 1, Len(b))
<1>1. /\ b \in Seq(STRING) /\ Len(b) \in Nat /\ ReadSize \in Nat
      /\ o \in Nat /\ p \in Nat /\ c \in Nat
      /\ p =< Len(b) /\ Len(b) =< c /\ c =< p + ReadSize
      /\ o + Len(b) = n /\ n =< Len(stream)
      /\ \A k \in 1 .. Len(b) : b[k] = stream[o + k]
  BY LenProperties, ReadSizeAssumption DEF Holds
<1>2. /\ rest \in Seq(STRING)
      /\ Len(rest) = Len(b) - p
      /\ \A k \in 1 .. Len(b) - p : rest[k] = b[p + k]
  BY <1>1, SuffixProperties
<1> HIDE DEF rest
<1>3. ASSUME NEW k \in 1 .. Len(rest)
      PROVE  rest[k] = stream[(o + p) + k]
  <2>1. k \in 1 .. Len(b) - p /\ p + k \in 1 .. Len(b)
    BY <1>1, <1>2
  <2>2. o + (p + k) = (o + p) + k
    BY <1>1, <2>1
  <2> QED BY <1>1, <1>2, <2>1, <2>2
<1>4. /\ o + p \in Nat /\ c - p \in Nat /\ 0 =< Len(rest)
      /\ Len(rest) =< c - p /\ c - p =< 0 + ReadSize
      /\ (o + p) + Len(rest) = n
  <2>1. Len(rest) = Len(b) - p
    BY <1>2
  <2>2. /\ Len(b) \in Nat /\ ReadSize \in Nat /\ o \in Nat /\ p \in Nat
        /\ c \in Nat /\ p =< Len(b) /\ Len(b) =< c /\ c =< p + ReadSize
        /\ o + Len(b) = n
    BY <1>1
  <2> QED BY <2>1, <2>2
<1> QED BY <1>1, <1>2, <1>3, <1>4 DEF Holds, rest

\* discardConsumed leaves a window on the same bytes.
LEMMA DiscardedIsWindow ==
  ASSUME NEW w, NEW n \in Nat, WindowOf(w, n)
  PROVE  /\ WindowOf(Discarded(w), n)
         /\ Len(Discarded(w).buf) = Len(w.buf) - w.pos
BY DropHolds DEF WindowOf, Discarded

\* Appending the next m bytes of the stream to a buffer that is used up.
LEMMA AppendHolds ==
  ASSUME stream \in Seq(STRING), served \in Nat,
         NEW b, NEW o, NEW c, Holds(b, o, Len(b), c, served),
         NEW m \in 0 .. ReadSize, served + m =< Len(stream)
  PROVE  Holds(b \o SubSeq(stream, served + 1, served + m), o, Len(b),
               IF c - Len(b) < ReadSize THEN Len(b) + ReadSize ELSE c,
               served + m)
<1> DEFINE chunk == SubSeq(stream, served + 1, served + m)
           whole == b \o chunk
           room == IF c - Len(b) < ReadSize THEN Len(b) + ReadSize ELSE c
<1>1. /\ b \in Seq(STRING) /\ Len(b) \in Nat /\ ReadSize \in Nat /\ m \in Nat
      /\ o \in Nat /\ c \in Nat
      /\ Len(b) =< c /\ c =< Len(b) + ReadSize
      /\ o + Len(b) = served
      /\ \A k \in 1 .. Len(b) : b[k] = stream[o + k]
  BY LenProperties, ReadSizeAssumption DEF Holds
<1>2. /\ chunk \in Seq(STRING) /\ Len(chunk) = m
      /\ \A k \in 1 .. m : chunk[k] = stream[served + k]
  BY <1>1, ChunkProperties
<1> HIDE DEF chunk
<1>3. /\ whole \in Seq(STRING)
      /\ Len(whole) = Len(b) + Len(chunk)
      /\ \A k \in 1 .. Len(b) + Len(chunk) :
           whole[k] = IF k <= Len(b) THEN b[k] ELSE chunk[k - Len(b)]
  BY <1>1, <1>2, ConcatProperties
<1> HIDE DEF whole
<1>4. ASSUME NEW k \in 1 .. Len(whole)
      PROVE  whole[k] = stream[o + k]
  <2>1. k \in Nat /\ k \in 1 .. Len(b) + m
    BY <1>1, <1>2, <1>3
  <2>2. CASE k <= Len(b)
    <3>1. k \in 1 .. Len(b)
      BY <1>1, <2>1, <2>2
    <3>2. whole[k] = b[k]
      BY <1>2, <1>3, <2>1, <2>2
    <3> QED BY <1>1, <3>1, <3>2
  <2>3. CASE ~(k <= Len(b))
    <3>1. k - Len(b) \in 1 .. m /\ served + (k - Len(b)) = o + k
      <4>1. Len(b) \in Nat /\ o \in Nat /\ m \in Nat /\ served = o + Len(b)
        BY <1>1
      <4> QED BY <2>1, <2>3, <4>1
    <3>2. whole[k] = chunk[k - Len(b)]
      BY <1>2, <1>3, <2>1, <2>3
    <3> QED BY <1>2, <3>1, <3>2
  <2> QED BY <2>2, <2>3
<1>5. /\ room \in Nat /\ Len(whole) =< room /\ room =< Len(b) + ReadSize
      /\ Len(b) =< Len(whole) /\ o + Len(whole) = served + m
  <2>1. Len(whole) = Len(b) + m
    BY <1>2, <1>3
  <2>2. /\ Len(b) \in Nat /\ ReadSize \in Nat /\ m \in Nat /\ m =< ReadSize
        /\ o \in Nat /\ c \in Nat
        /\ Len(b) =< c /\ c =< Len(b) + ReadSize /\ o + Len(b) = served
    BY <1>1
  <2> QED BY <2>1, <2>2
<1> HIDE DEF room
<1>6. Holds(whole, o, Len(b), room, served + m)
  BY <1>1, <1>3, <1>4, <1>5 DEF Holds
<1> QED BY <1>6 DEF whole, chunk, room

\* readMore on a window that is used up gives a window on n more bytes.
LEMMA ReceivedIsWindow ==
  ASSUME NEW w, stream \in Seq(STRING), served \in Nat, WindowOf(w, served),
         w.pos = Len(w.buf), NEW n \in 0 .. ReadSize, served + n =< Len(stream)
  PROVE  WindowOf(Received(w, n), served + n)
BY AppendHolds DEF WindowOf, Received

---------------------------------------------------------------------------
\* NewReaderParser's empty window satisfies the invariant.
LEMMA WindowInvInit == WindowInit => WindowInv
<1> SUFFICES ASSUME WindowInit PROVE WindowInv
  OBVIOUS
<1>1. Len(stream) \in Nat /\ <<>> \in Seq(STRING) /\ Len(<<>>) = 0
  BY LenProperties, EmptySeq DEF WindowInit
<1>2. Holds(<<>>, 0, 0, 0, 0)
  BY <1>1, ReadSizeAssumption DEF Holds
<1>3. WindowOf(win, served)
  BY <1>2 DEF WindowInit, WindowOf
<1> QED BY <1>3, MaxEmptyReadsAssumption DEF WindowInit, WindowInv, ReadErrors

\* rp.pos++ on a byte that has been peeked at stays in the buffer.
LEMMA ConsumeHolds ==
  ASSUME NEW b, NEW o, NEW p, NEW c, NEW n, Holds(b, o, p, c, n), p < Len(b)
  PROVE  Holds(b, o, p + 1, c, n)
<1>1. Len(b) \in Nat /\ ReadSize \in Nat
  BY LenProperties, ReadSizeAssumption DEF Holds
<1> QED BY <1>1 DEF Holds

\* rp.pos++ keeps the invariant.
LEMMA ConsumeInv == WindowInv /\ ConsumeByte => WindowInv'
<1> SUFFICES ASSUME WindowInv, ConsumeByte PROVE WindowInv'
  OBVIOUS
<1>1. Holds(win.buf, win.bufStart, win.pos + 1, win.cap, served)
  BY ConsumeHolds DEF WindowInv, WindowOf, ConsumeByte, Ready
<1>2. win' = [buf |-> win.buf, bufStart |-> win.bufStart,
              pos |-> win.pos + 1, cap |-> win.cap]
  BY DEF WindowInv, WindowOf, ConsumeByte, Consumed
<1>3. stream' = stream /\ served' = served
  BY DEF ConsumeByte
<1>4. WindowOf(win, served)'
  BY <1>1, <1>2, <1>3 DEF WindowOf, Holds
<1> QED BY <1>3, <1>4 DEF WindowInv, ConsumeByte

\* discardConsumed keeps the invariant.
LEMMA DiscardInv == WindowInv /\ DiscardConsumed => WindowInv'
<1> SUFFICES ASSUME WindowInv, DiscardConsumed PROVE WindowInv'
  OBVIOUS
<1>1. WindowOf(Discarded(win), served)
  BY DiscardedIsWindow DEF WindowInv
<1>2. WindowOf(win, served)'
  BY <1>1 DEF DiscardConsumed, WindowOf, Holds
<1> QED BY <1>2 DEF WindowInv, DiscardConsumed

\* What the buffer is when readMore appends to it.
LEMMA KeptIsWindow ==
  ASSUME WindowInv, ~Ready, NEW retain \in BOOLEAN
  PROVE  LET kept == IF retain THEN win ELSE Discarded(win)
         IN  /\ WindowOf(kept, served)
             /\ kept.pos = Len(kept.buf)
             /\ kept.bufStart + kept.pos = win.bufStart + win.pos
<1>1. /\ win.pos = Len(win.buf) /\ win.pos \in Nat /\ win.bufStart \in Nat
      /\ served \in Nat
  BY LenProperties DEF WindowInv, WindowOf, Holds, Ready
<1>2. CASE retain
  BY <1>1, <1>2 DEF WindowInv
<1>3. CASE ~retain
  <2>1. /\ WindowOf(Discarded(win), served)
        /\ Len(Discarded(win).buf) = 0
    BY <1>1, DiscardedIsWindow DEF WindowInv
  <2>2. Discarded(win).pos = 0 /\ Discarded(win).bufStart = win.bufStart + win.pos
    BY DEF Discarded
  <2> QED BY <1>1, <1>3, <2>1, <2>2
<1> QED BY <1>2, <1>3

\* A refill keeps the invariant, whatever Read returns and whatever is retained.
LEMMA RefillInv ==
  ASSUME WindowInv, NEW retain \in BOOLEAN, Refill(retain)
  PROVE  WindowInv'
<1> DEFINE kept == IF retain THEN win ELSE Discarded(win)
<1>1. PICK n \in 0 .. ReadSize :
        /\ served + n =< Len(stream)
        /\ win' = Received(kept, n)
        /\ served' = served + n
        /\ \E err \in ReadOutcomes(n) : AccountRead(n, err)
  BY DEF Refill
<1>2. PICK err \in ReadOutcomes(n) : AccountRead(n, err)
  BY <1>1
<1>3. stream' = stream /\ ~Ready /\ readErr = "none"
  BY DEF Refill
<1>4. WindowOf(kept, served) /\ kept.pos = Len(kept.buf)
  BY <1>3, KeptIsWindow
<1>5. WindowOf(Received(kept, n), served + n)
  BY <1>1, <1>4, ReceivedIsWindow DEF WindowInv
<1>6. WindowOf(win, served)'
  BY <1>1, <1>3, <1>5 DEF WindowOf, Holds
<1>7. served' \in Nat
  BY <1>1, ReadSizeAssumption DEF WindowInv
<1>8. /\ readErr' \in ReadErrors \cup {"none"}
      /\ emptyReads' \in 0 .. MaxEmptyReads
      /\ readErr' = "none" => emptyReads' < MaxEmptyReads
  BY <1>2, <1>3, MaxEmptyReadsAssumption
     DEF WindowInv, AccountRead, ReadOutcomes, ReadErrors
<1> QED BY <1>3, <1>6, <1>7, <1>8 DEF WindowInv

\* The inductive invariant: every operation of the window keeps it.
LEMMA WindowInvNext == WindowInv /\ [WindowNext]_windowVars => WindowInv'
<1> SUFFICES ASSUME WindowInv, [WindowNext]_windowVars PROVE WindowInv'
  OBVIOUS
<1>1. CASE ConsumeByte BY <1>1, ConsumeInv
<1>2. CASE DiscardConsumed BY <1>2, DiscardInv
<1>3. CASE \E retain \in BOOLEAN : Refill(retain) BY <1>3, RefillInv
<1>4. CASE UNCHANGED windowVars
  BY <1>4 DEF windowVars, WindowInv, WindowOf, Holds
<1> QED BY <1>1, <1>2, <1>3, <1>4 DEF WindowNext

\* The invariant gives the three properties the runs check.
LEMMA WindowInvImplies ==
  WindowInv => WindowTypeOK /\ WindowIsStream /\ WindowBounded
<1> SUFFICES ASSUME WindowInv
             PROVE  WindowTypeOK /\ WindowIsStream /\ WindowBounded
  OBVIOUS
<1>1. /\ Len(win.buf) \in Nat /\ Len(stream) \in Nat /\ win.bufStart \in Nat
      /\ served \in Nat /\ win.buf \in Seq(STRING)
      /\ win.bufStart + Len(win.buf) = served /\ served =< Len(stream)
  BY LenProperties DEF WindowInv, WindowOf, Holds
<1>2. WindowTypeOK /\ WindowBounded
  BY <1>1 DEF WindowInv, WindowOf, Holds, WindowTypeOK, WindowBounded
<1> DEFINE part == SubSeq(stream, win.bufStart + 1, win.bufStart + Len(win.buf))
<1>3. /\ part \in Seq(STRING) /\ Len(part) = Len(win.buf)
      /\ \A k \in 1 .. Len(win.buf) : part[k] = stream[win.bufStart + k]
  <2> DEFINE m == win.bufStart
             n == Len(win.buf)
  <2>1. stream \in Seq(STRING) /\ m \in Nat /\ n \in Nat /\ m + n =< Len(stream)
    BY <1>1 DEF WindowInv
  <2> HIDE DEF m, n
  <2>2. /\ SubSeq(stream, m + 1, m + n) \in Seq(STRING)
        /\ Len(SubSeq(stream, m + 1, m + n)) = n
        /\ \A k \in 1 .. n : SubSeq(stream, m + 1, m + n)[k] = stream[m + k]
    BY <2>1, ChunkProperties
  <2> QED BY <2>2 DEF m, n
<1> HIDE DEF part
<1>4. \A k \in 1 .. Len(win.buf) : win.buf[k] = part[k]
  BY <1>3 DEF WindowInv, WindowOf, Holds
<1>5. win.buf = part
  BY <1>1, <1>3, <1>4, SeqEqual
<1> USE DEF part
<1> QED BY <1>1, <1>2, <1>5 DEF WindowIsStream

---------------------------------------------------------------------------
\* The byte a peek would return is the byte of the stream at the cursor.
Peeked == IF win.pos < Len(win.buf) THEN win.buf[win.pos + 1] ELSE NoByte

\* The byte a peek sees is the byte of the stream at the cursor.
LEMMA PeekedIsStream ==
  ASSUME WindowInv
  PROVE  /\ win.bufStart + win.pos \in Nat
         /\ win.pos < Len(win.buf) <=> win.bufStart + win.pos < served
         /\ win.pos = Len(win.buf) <=> win.bufStart + win.pos = served
         /\ Peeked = Cursor!ByteAt(win.bufStart + win.pos, served)
<1>1. /\ Len(win.buf) \in Nat /\ win.pos \in Nat /\ win.bufStart \in Nat
      /\ win.bufStart + Len(win.buf) = served
  BY LenProperties DEF WindowInv, WindowOf, Holds
<1>2. \A k \in 1 .. Len(win.buf) : win.buf[k] = stream[win.bufStart + k]
  BY DEF WindowInv, WindowOf, Holds
<1>3. /\ win.pos < Len(win.buf) <=> win.bufStart + win.pos < served
      /\ win.pos = Len(win.buf) <=> win.bufStart + win.pos = served
      /\ win.bufStart + (win.pos + 1) = (win.bufStart + win.pos) + 1
  BY <1>1
<1>4. CASE win.pos < Len(win.buf)
  <2>1. win.pos + 1 \in 1 .. Len(win.buf)
    BY <1>1, <1>4
  <2> QED BY <1>1, <1>2, <1>3, <1>4, <2>1 DEF Peeked, Cursor!ByteAt
<1>5. CASE ~(win.pos < Len(win.buf))
  BY <1>1, <1>3, <1>5 DEF Peeked, Cursor!ByteAt
<1> QED BY <1>4, <1>5

SeenAtCursor == Peeked = Cursor!ByteAt(win.bufStart + win.pos, served)

\* In every state of the invariant the abstract cursor shows that byte.
LEMMA AlwaysSeenAtCursor == WindowInv => SeenAtCursor
BY PeekedIsStream DEF SeenAtCursor

\* The window starts as a cursor at the start of the stream.
LEMMA InitIsCursor == WindowInit => Cursor!Init
BY EmptySeq DEF WindowInit, Cursor!Init

\* rp.pos++ is an advance of the cursor.
LEMMA ConsumeAdvances ==
  ASSUME WindowInv, WindowInv', ConsumeByte
  PROVE  Cursor!Advance
<1>1. /\ win'.buf = win.buf /\ win'.bufStart = win.bufStart
      /\ win'.pos = win.pos + 1 /\ win.pos < Len(win.buf)
  BY DEF WindowInv, WindowOf, ConsumeByte, Consumed, Ready
<1>2. win.bufStart \in Nat /\ win.pos \in Nat
  BY DEF WindowInv, WindowOf, Holds
<1>3. win'.bufStart + win'.pos = (win.bufStart + win.pos) + 1
  BY <1>1, <1>2
<1>4. win.bufStart + win.pos < served
  BY <1>1, PeekedIsStream
<1>5. SeenAtCursor'
  BY AlwaysSeenAtCursor, PTL
<1> QED BY <1>3, <1>4, <1>5
        DEF Cursor!Advance, SeenAtCursor, Cursor!ByteAt, Peeked, ConsumeByte

\* Releasing the consumed prefix is invisible to the caller.
LEMMA DiscardIsHidden ==
  ASSUME WindowInv, WindowInv', DiscardConsumed
  PROVE  UNCHANGED Cursor!vars
<1>1. /\ win'.bufStart = win.bufStart + win.pos /\ win'.pos = 0
      /\ win.bufStart \in Nat /\ win.pos \in Nat
  BY DEF WindowInv, WindowOf, Holds, DiscardConsumed, Discarded
<1>2. win'.bufStart + win'.pos = win.bufStart + win.pos
  BY <1>1
<1>3. Peeked' = Peeked
  <2>1. Peeked = Cursor!ByteAt(win.bufStart + win.pos, served)
    BY PeekedIsStream
  <2>2. SeenAtCursor'
    BY AlwaysSeenAtCursor, PTL
  <2> QED BY <1>2, <2>1, <2>2 DEF SeenAtCursor, Cursor!ByteAt, DiscardConsumed
<1> QED BY <1>2, <1>3 DEF Cursor!vars, Peeked, DiscardConsumed

\* A Read, whatever it returns and whatever is retained, fetches bytes from
\* the end of what was fetched and moves nothing else.
LEMMA RefillFetches ==
  ASSUME WindowInv, WindowInv', NEW retain \in BOOLEAN, Refill(retain)
  PROVE  Cursor!Fetch
<1> DEFINE kept == IF retain THEN win ELSE Discarded(win)
<1>1. PICK n \in 0 .. ReadSize :
        /\ served + n =< Len(stream)
        /\ win' = Received(kept, n)
        /\ served' = served + n
        /\ \E err \in ReadOutcomes(n) : AccountRead(n, err)
  BY DEF Refill
<1>2. PICK err \in ReadOutcomes(n) : AccountRead(n, err)
  BY <1>1
<1>3. stream' = stream /\ ~Ready /\ readErr = "none"
  BY DEF Refill
<1>4. /\ Len(win.buf) \in Nat /\ win.pos \in Nat /\ served \in Nat
      /\ ReadSize \in Nat /\ n \in Nat /\ Len(stream) \in Nat
      /\ win.pos =< Len(win.buf)
  BY LenProperties, ReadSizeAssumption DEF WindowInv, WindowOf, Holds
<1>5. win.bufStart + win.pos = served
  BY <1>3, <1>4, PeekedIsStream DEF Ready
<1>6. win'.bufStart + win'.pos = win.bufStart + win.pos
  <2>1. kept.bufStart + kept.pos = win.bufStart + win.pos
    BY <1>3, KeptIsWindow
  <2>2. win'.bufStart = kept.bufStart /\ win'.pos = kept.pos
    BY <1>1 DEF Received
  <2> QED BY <2>1, <2>2
<1>7. SeenAtCursor'
  BY AlwaysSeenAtCursor, PTL
<1>8. served' \in served .. served + ReadSize /\ served' =< Len(stream)
  BY <1>1, <1>4
<1>9. /\ readErr' \in {"none", "EOF", "Fault", "NoProgress"}
      /\ readErr' = "EOF" => served' = Len(stream)
      /\ readErr' = "NoProgress" => served' = served
  BY <1>1, <1>2, <1>4 DEF AccountRead, ReadOutcomes
<1> QED BY <1>3, <1>5, <1>6, <1>7, <1>8, <1>9
        DEF Cursor!Fetch, SeenAtCursor, Cursor!ByteAt, Peeked

\* Every step of the window is a step of the byte stream, or hidden.
LEMMA WindowStepIsCursorStep ==
  WindowInv /\ WindowInv' /\ [WindowNext]_windowVars
    => [Cursor!Next]_(Cursor!vars)
<1> SUFFICES ASSUME WindowInv, WindowInv', [WindowNext]_windowVars
             PROVE  [Cursor!Next]_(Cursor!vars)
  OBVIOUS
<1>1. CASE ConsumeByte BY <1>1, ConsumeAdvances DEF Cursor!Next
<1>2. CASE DiscardConsumed BY <1>2, DiscardIsHidden
<1>3. CASE \E retain \in BOOLEAN : Refill(retain)
  BY <1>3, RefillFetches DEF Cursor!Next
<1>4. CASE UNCHANGED windowVars
  BY <1>4 DEF windowVars, Cursor!vars
<1> QED BY <1>1, <1>2, <1>3, <1>4 DEF WindowNext

\* The window implements the lazy byte stream: with any reader and any
\* retaining, its caller sees the bytes of the stream in order, none lost and
\* none twice, and nothing read after the end.
THEOREM WindowImplementsCursor == WindowSpec => CursorSpec
<1>1. WindowSpec => []WindowInv
  BY WindowInvInit, WindowInvNext, PTL DEF WindowSpec
<1> QED BY <1>1, InitIsCursor, WindowStepIsCursorStep, PTL
        DEF WindowSpec, CursorSpec, Cursor!Spec

---------------------------------------------------------------------------
\* The window is well typed, for every reader.
THEOREM WindowTypeCorrect == WindowSpec => []WindowTypeOK
<1> QED BY WindowInvInit, WindowInvNext, WindowInvImplies, PTL DEF WindowSpec

\* buf is always the piece of the stream it claims to be, for every stream,
\* every chunking and every mixture of releasing and retaining.
THEOREM WindowIsStreamAlways == WindowSpec => []WindowIsStream
<1> QED BY WindowInvInit, WindowInvNext, WindowInvImplies, PTL DEF WindowSpec

\* The capacity never exceeds what was consumed since the last release by more
\* than one read chunk.
THEOREM WindowBoundedAlways == WindowSpec => []WindowBounded
<1> QED BY WindowInvInit, WindowInvNext, WindowInvImplies, PTL DEF WindowSpec

---------------------------------------------------------------------------
\* What peekByte does for the parser is a refill of the window.
LEMMA RefillIsWindowStep == ASSUME Refill(Retains) PROVE WindowNext
<1>1. CASE Retains
  <2>1. Refill(TRUE)
    BY <1>1 DEF Refill
  <2> QED BY <2>1 DEF WindowNext
<1>2. CASE ~Retains
  <2>1. Refill(FALSE)
    BY <1>2 DEF Refill
  <2> QED BY <2>1 DEF WindowNext
<1> QED BY <1>1, <1>2

\* What a step of the parser does to its window.
LEMMA StepOnWindow ==
  ASSUME [Next]_vars
  PROVE  \/ ConsumeByte \/ DiscardConsumed \/ Stay
         \/ Refill(Retains) /\ UNCHANGED control
<1>1. CASE CheckPath \/ StartGet \/ NextPart \/ CompareKey \/ SkipValue
             \/ ReturnValue \/ DeliverElement \/ ValueSkipped
  BY <1>1 DEF CheckPath, StartGet, NextPart, CompareKey, SkipValue,
              ReturnValue, DeliverElement, ValueSkipped
<1>2. CASE SkipBlank \/ ScanString
  BY <1>2 DEF SkipBlank, ScanString
<1>3. CASE StartArrayEach \/ FindValue \/ FirstPart \/ Colon
  BY <1>3 DEF StartArrayEach, FindValue, FirstPart, Colon
<1>4. CASE AfterPart
  BY <1>4 DEF AfterPart
<1>5. CASE ReadObjectKey \/ CaptureValue
  BY <1>5 DEF ReadObjectKey, CaptureValue
<1>6. CASE ScanValue \/ ScanComposite \/ ScanScalar
  BY <1>6 DEF ScanValue, ScanComposite, ScanScalar
<1>7. CASE ReadMore
  BY <1>7 DEF ReadMore
<1>8. CASE ReadFails
  BY <1>8 DEF ReadFails
<1>9. CASE UNCHANGED vars
  BY <1>9 DEF vars, Stay
<1> QED BY <1>1, <1>2, <1>3, <1>4, <1>5, <1>6, <1>7, <1>8, <1>9 DEF Next

\* Every step of the parser is one of the window, or leaves it alone.
LEMMA ParserStepIsWindowStep == [Next]_vars => [WindowNext]_windowVars
BY StepOnWindow, RefillIsWindowStep DEF WindowNext, Stay

\* The window under the parser runs as the window on its own does.
LEMMA ParserRunsWindow == Spec => WindowSpec
<1>1. Init => WindowInit
  BY DEF Init
<1> QED BY <1>1, ParserStepIsWindowStep, PTL DEF Spec, WindowSpec

\* Whatever Get and ArrayEach do, and whatever the reader does to them, they
\* see the bytes of the stream in order, none lost and none twice, and ask for
\* nothing after the end.
THEOREM ParserReadsTheStream == Spec => CursorSpec
<1> QED BY ParserRunsWindow, WindowImplementsCursor

---------------------------------------------------------------------------
\* A window step other than a release leaves the start of the buffer alone.
LEMMA StartOfBufferStays ==
  ASSUME ConsumeByte \/ Stay \/ (Refill(Retains) /\ Retains)
  PROVE  win'.bufStart = win.bufStart
<1>1. CASE ConsumeByte
  BY <1>1 DEF ConsumeByte, Consumed
<1>2. CASE Stay
  BY <1>2 DEF Stay, windowVars
<1>3. CASE Refill(Retains) /\ Retains
  BY <1>3 DEF Refill, Received
<1> QED BY <1>1, <1>2, <1>3

\* scan has its fields, and a retained token starts inside the buffer.
TokenInv ==
  /\ scan = [why |-> scan.why, retain |-> scan.retain, start |-> scan.start,
             kind |-> scan.kind, quote |-> scan.quote,
             escaped |-> scan.escaped, stack |-> scan.stack,
             consumed |-> scan.consumed]
  /\ pc \in {"scan", "scanned"} /\ scan.retain =>
       scan.start \in Nat /\ scan.start =< win.pos

\* No token is retained before the call begins.
LEMMA TokenInvInit == Init => TokenInv
BY DEF Init, TokenInv, NoScan

\* How a step may treat a token: it begins one, keeps it in place, or is done
\* with it.
BeginsToken == /\ scan' = [why |-> scan'.why, retain |-> scan'.retain,
                           start |-> win'.pos, kind |-> "none",
                           quote |-> NoQuote, escaped |-> FALSE,
                           stack |-> <<>>, consumed |-> FALSE]
               /\ scan'.why \in {"key", "value"} => scan'.retain
               /\ pc' = "scan" /\ pc # "scan"

KeepsToken == /\ pc = "scan" /\ pc' \in {"scan", "scanned"}
              /\ scan'.start = scan.start /\ scan'.retain = scan.retain
              /\ scan' = [why |-> scan.why, retain |-> scan.retain,
                          start |-> scan.start, kind |-> scan'.kind,
                          quote |-> scan'.quote, escaped |-> scan'.escaped,
                          stack |-> scan'.stack, consumed |-> scan'.consumed]
              /\ \/ ConsumeByte \/ Stay
                 \/ Refill(Retains)
                 \/ ~Retains

LeavesToken == scan' = scan /\ pc' \notin {"scan", "scanned"}

\* What one step of the parser may do to the scan and to the window: either
\* the token's start stays where it is in the stream, or the step begins one.
LEMMA StepOnToken ==
  ASSUME TokenInv, [Next]_vars
  PROVE  BeginsToken \/ KeepsToken \/ LeavesToken \/ UNCHANGED vars
<1>1. CASE CheckPath \/ StartGet \/ NextPart \/ StartArrayEach \/ FindValue
             \/ FirstPart \/ AfterPart
  BY <1>1 DEF CheckPath, StartGet, NextPart, StartArrayEach, FindValue,
              FirstPart, AfterPart, Goto, Fail, Finish, BeginPart,
              EndContainer, NotFoundHere, LeavesToken
<1>2. CASE CompareKey \/ Colon \/ ReturnValue \/ DeliverElement \/ ValueSkipped
  BY <1>2 DEF CompareKey, Colon, ReturnValue, DeliverElement, ValueSkipped,
              Goto, Fail, Finish, NotFoundHere, LeavesToken
<1>3. CASE ReadObjectKey \/ CaptureValue \/ SkipValue
  BY <1>3 DEF ReadObjectKey, CaptureValue, SkipValue, BeginScan, NoScan, At,
              Fail, Finish, BeginsToken, LeavesToken
<1>4. CASE ScanValue
  BY <1>4 DEF ScanValue, At, TokenInv, KeepsToken
<1>5. CASE ScanString
  BY <1>5 DEF ScanString, At, TokenInv, KeepsToken
<1>6. CASE ScanComposite
  BY <1>6 DEF ScanComposite, At, TokenInv, KeepsToken, Fail, Finish, LeavesToken
<1>7. CASE ScanScalar
  BY <1>7 DEF ScanScalar, At, TokenInv, KeepsToken, Goto, Fail, Finish,
              LeavesToken
<1>8. CASE SkipBlank \/ ReadMore
  <2>1. pc' = pc /\ scan' = scan /\ (SkipBlank => pc # "scan")
    BY <1>8 DEF SkipBlank, ReadMore, control, SkipsBlanks
  <2>2. pc # "scanned"
    BY <1>8 DEF SkipBlank, ReadMore, NeedsByte, SkipsBlanks
  <2> QED BY <1>8, <2>1, <2>2 DEF ReadMore, TokenInv, KeepsToken, LeavesToken
<1>9. CASE ReadFails
  BY <1>9 DEF ReadFails, TokenInv, KeepsToken, Retains, Goto, Fail, Finish,
              LeavesToken
<1>10. CASE UNCHANGED vars
  BY <1>10
<1> QED BY <1>1, <1>2, <1>3, <1>4, <1>5, <1>6, <1>7, <1>8, <1>9, <1>10 DEF Next

\* While a retained token is being scanned only its end moves.
LEMMA RetainedStays ==
  ASSUME TokenInv, WindowInv, KeepsToken, scan.retain
  PROVE  win'.bufStart = win.bufStart /\ win.pos =< win'.pos
<1>1. Retains
  BY DEF KeepsToken, Retains
<1>2. win.pos \in Nat
  BY DEF WindowInv, WindowOf, Holds
<1>3. CASE ConsumeByte
  BY <1>2, <1>3, StartOfBufferStays DEF ConsumeByte, Consumed, WindowInv, WindowOf
<1>4. CASE Stay
  BY <1>2, <1>4, StartOfBufferStays DEF Stay, windowVars
<1>5. CASE Refill(Retains)
  <2>1. win'.pos = win.pos
    BY <1>1, <1>5 DEF Refill, Received
  <2> QED BY <1>1, <1>2, <1>5, <2>1, StartOfBufferStays
<1> QED BY <1>1, <1>3, <1>4, <1>5 DEF KeepsToken

\* Every step keeps the retained token inside the buffer.
LEMMA TokenInvNext ==
  TokenInv /\ WindowInv /\ WindowInv' /\ [Next]_vars => TokenInv'
<1> SUFFICES ASSUME TokenInv, WindowInv, WindowInv', [Next]_vars
             PROVE  TokenInv'
  OBVIOUS
<1>1. win.pos \in Nat /\ win'.pos \in Nat
  BY DEF WindowInv, WindowOf, Holds
<1>2. CASE BeginsToken
  <2>1. scan'.start = win'.pos
    BY <1>2 DEF BeginsToken
  <2> QED BY <1>1, <1>2, <2>1 DEF BeginsToken, TokenInv
<1>3. CASE KeepsToken
  <2>1. scan.retain => scan'.start \in Nat /\ scan'.start =< win'.pos
    BY <1>1, <1>3, RetainedStays DEF KeepsToken, TokenInv
  <2> QED BY <1>3, <2>1 DEF KeepsToken, TokenInv
<1>4. CASE LeavesToken
  BY <1>4 DEF LeavesToken, TokenInv
<1>5. CASE UNCHANGED vars
  BY <1>5 DEF vars, control, windowVars, TokenInv
<1> QED BY <1>2, <1>3, <1>4, <1>5, StepOnToken

\* The invariant of the parser: that of its window and that of its token.
LEMMA ParserInv == Spec => [](TokenInv /\ WindowInv)
<1>1. Spec => []WindowInv
  BY ParserRunsWindow, WindowInvInit, WindowInvNext, PTL DEF WindowSpec
<1> QED BY <1>1, TokenInvInit, TokenInvNext, PTL DEF Spec

\* A retained token begins at the same byte of the stream for as long as it is
\* being scanned, through every refill and reallocation.
THEOREM RetainedTokenStays == Spec => TokenStays
<1> DEFINE Moves == pc = "scan" /\ scan.retain /\ pc' \in {"scan", "scanned"} =>
                      win'.bufStart + scan'.start = win.bufStart + scan.start
<1>1. TokenInv /\ WindowInv /\ [Next]_vars => [Moves]_vars
  <2> SUFFICES ASSUME TokenInv, WindowInv, [Next]_vars,
                      pc = "scan", scan.retain, pc' \in {"scan", "scanned"}
               PROVE  \/ UNCHANGED vars
                      \/ win'.bufStart + scan'.start = win.bufStart + scan.start
    OBVIOUS
  <2>1. KeepsToken \/ UNCHANGED vars
    BY StepOnToken DEF BeginsToken, LeavesToken
  <2> QED BY <2>1, RetainedStays DEF KeepsToken
<1> QED BY <1>1, ParserInv, PTL DEF Spec, TokenStays

\* The bytes of the buffer b between s and p are those of the stream.
SliceIsStream(b, o, s, p) ==
  SubSeq(b, s + 1, p) = SubSeq(stream, o + s + 1, o + p)

\* A slice of any buffer that holds the stream's bytes from o on.
LEMMA SliceOfPiece ==
  ASSUME stream \in Seq(STRING), NEW b \in Seq(STRING), NEW o \in Nat,
         NEW s \in Nat, NEW p \in Nat, s =< p, p =< Len(b),
         o + Len(b) =< Len(stream),
         \A k \in 1 .. Len(b) : b[k] = stream[o + k]
  PROVE  SliceIsStream(b, o, s, p)
<1>1. Len(b) \in Nat /\ Len(stream) \in Nat
  BY LenProperties
<1>2. PICK n \in Nat : s + n = p
  <2>1. p - s \in Nat /\ s + (p - s) = p
    BY <1>1
  <2> QED BY <2>1
<1>3. s + n =< Len(b) /\ o + s \in Nat /\ (o + s) + n =< Len(stream)
  BY <1>1, <1>2
<1> DEFINE t == SubSeq(b, s + 1, s + n)
           u == SubSeq(stream, (o + s) + 1, (o + s) + n)
<1>4. /\ t \in Seq(STRING) /\ Len(t) = n
      /\ \A k \in 1 .. n : t[k] = b[s + k]
  BY <1>1, <1>3, ChunkProperties
<1>5. /\ u \in Seq(STRING) /\ Len(u) = n
      /\ \A k \in 1 .. n : u[k] = stream[(o + s) + k]
  BY <1>3, ChunkProperties
<1>6. t = SubSeq(b, s + 1, p) /\ u = SubSeq(stream, o + s + 1, o + p)
  <2>1. (o + s) + n = o + p
    BY <1>1, <1>2
  <2> QED BY <1>2, <2>1
<1> HIDE DEF t, u
<1>7. ASSUME NEW k \in 1 .. n
      PROVE  t[k] = u[k]
  <2>1. s + k \in 1 .. Len(b) /\ o + (s + k) = (o + s) + k
    BY <1>1, <1>3
  <2> QED BY <1>4, <1>5, <2>1
<1>8. t = u
  BY <1>4, <1>5, <1>7, SeqEqual
<1> QED BY <1>6, <1>8 DEF SliceIsStream

\* A slice of the window is a slice of the stream.
LEMMA SliceOfWindow ==
  ASSUME stream \in Seq(STRING), NEW b, NEW o, NEW p, NEW c, NEW m,
         Holds(b, o, p, c, m), NEW s \in Nat, s =< p
  PROVE  SliceIsStream(b, o, s, p)
BY SliceOfPiece DEF Holds

\* A token that is used is exactly the bytes of the stream it stands for.
THEOREM TokenIsTheStream == Spec => []TokenIsStream
<1>1. TokenInv /\ WindowInv => TokenIsStream
  <2> SUFFICES ASSUME TokenInv, WindowInv, pc = "scanned", scan.retain
               PROVE  Token = SubSeq(stream, win.bufStart + scan.start + 1,
                                     win.bufStart + win.pos)
    BY DEF TokenIsStream
  <2>1. scan.start \in Nat /\ scan.start =< win.pos
    BY DEF TokenInv
  <2>2. /\ Holds(win.buf, win.bufStart, win.pos, win.cap, served)
        /\ stream \in Seq(STRING)
    BY DEF WindowInv, WindowOf
  <2>3. SliceIsStream(win.buf, win.bufStart, scan.start, win.pos)
    BY <2>1, <2>2, SliceOfWindow
  <2> QED BY <2>3 DEF Token, SliceIsStream
<1> QED BY <1>1, ParserInv, PTL

---------------------------------------------------------------------------
\* The parser with its history runs as the parser does.
LEMMA HistoryRunsParser == HistorySpec => Init /\ [][Next]_vars
<1>1. HistoryInit => Init
  BY DEF HistoryInit
<1>2. [HistoryNext]_historyVars => [Next]_vars
  BY DEF HistoryNext, historyVars
<1> QED BY <1>1, <1>2, PTL DEF HistorySpec

\* So both invariants hold of it.
LEMMA HistoryParserInv == HistorySpec => [](TokenInv /\ WindowInv)
<1>1. Init => WindowInit /\ TokenInv
  BY TokenInvInit DEF Init
<1>2. WindowInit => WindowInv
  BY WindowInvInit
<1>3. TokenInv /\ WindowInv /\ [Next]_vars => TokenInv' /\ WindowInv'
  BY ParserStepIsWindowStep, WindowInvNext, TokenInvNext
<1> QED BY <1>1, <1>2, <1>3, HistoryRunsParser, PTL

---------------------------------------------------------------------------
\* The longest retained token bounds the buffer: while one is being retained
\* it starts where the buffer does, so that the consumed prefix is the token.
MemoryInv ==
  /\ longest \in Nat
  /\ pc \in {"scan", "scanned"} /\ scan.retain =>
       scan.start = 0 /\ win.pos =< longest
  /\ MemoryIsBounded

\* The buffer is empty at first and nothing is retained.
LEMMA MemoryInvInit == HistoryInit => MemoryInv
BY ReadSizeAssumption
   DEF HistoryInit, Init, WindowInit, MemoryInv, MemoryIsBounded

\* A token that is to be retained is begun on a released buffer.
LEMMA RetainedBeginsAtZero ==
  ASSUME [Next]_vars, pc # "scan", pc' = "scan", scan'.retain
  PROVE  win' = Discarded(win)
<1>1. CASE ReadObjectKey \/ CaptureValue
  BY <1>1 DEF ReadObjectKey, CaptureValue, DiscardConsumed, Fail, Finish
<1>2. CASE SkipValue
  BY <1>2 DEF SkipValue, BeginScan, NoScan
<1>3. CASE CheckPath \/ StartGet \/ NextPart \/ StartArrayEach \/ FindValue
             \/ FirstPart \/ AfterPart
  BY <1>3 DEF CheckPath, StartGet, NextPart, StartArrayEach, FindValue,
              FirstPart, AfterPart, Goto, Fail, Finish, BeginPart,
              EndContainer, NotFoundHere
<1>4. CASE CompareKey \/ Colon \/ ReturnValue \/ DeliverElement \/ ValueSkipped
  BY <1>4 DEF CompareKey, Colon, ReturnValue, DeliverElement, ValueSkipped,
              Goto, Fail, Finish, NotFoundHere
<1>5. CASE ScanValue \/ ScanString \/ ScanComposite \/ ScanScalar
  BY <1>5 DEF ScanValue, ScanString, ScanComposite, ScanScalar, At
<1>6. CASE SkipBlank \/ ReadMore
  BY <1>6 DEF SkipBlank, ReadMore, control
<1>7. CASE ReadFails
  BY <1>7 DEF ReadFails, Goto, Fail, Finish
<1>8. CASE UNCHANGED vars
  BY <1>8 DEF vars, control
<1> QED BY <1>1, <1>2, <1>3, <1>4, <1>5, <1>6, <1>7, <1>8 DEF Next

\* How a step changes the capacity: it grows only when a full read would not
\* fit behind the token that is being retained.
LEMMA CapacityOfStep ==
  ASSUME WindowInv, [Next]_vars
  PROVE  /\ win'.cap \in Nat
         /\ \/ win'.cap =< win.cap
            \/ win'.cap =< ReadSize
            \/ Retains /\ pc' = pc /\ scan' = scan
                 /\ win'.cap =< win'.pos + ReadSize
<1>1. /\ win.cap \in Nat /\ win.pos \in Nat /\ Len(win.buf) \in Nat
      /\ win.pos =< Len(win.buf) /\ Len(win.buf) =< win.cap
      /\ win.cap =< win.pos + ReadSize /\ ReadSize \in Nat
  BY LenProperties, ReadSizeAssumption DEF WindowInv, WindowOf, Holds
<1>2. CASE ConsumeByte
  <2>1. win'.cap = win.cap
    BY <1>2 DEF ConsumeByte, Consumed, WindowInv, WindowOf
  <2> QED BY <1>1, <2>1
<1>3. CASE DiscardConsumed
  <2>1. win'.cap = win.cap - win.pos
    BY <1>3 DEF DiscardConsumed, Discarded
  <2> QED BY <1>1, <2>1
<1>4. CASE Stay
  BY <1>1, <1>4 DEF Stay, windowVars
<1>5. CASE Refill(Retains) /\ UNCHANGED control
  <2> DEFINE kept == IF Retains THEN win ELSE Discarded(win)
  <2>1. PICK n \in 0 .. ReadSize : win' = Received(kept, n)
    BY <1>5 DEF Refill
  <2>2. /\ win'.pos = kept.pos
        /\ win'.cap = IF kept.cap - Len(kept.buf) < ReadSize
                      THEN Len(kept.buf) + ReadSize ELSE kept.cap
    BY <2>1 DEF Received
  <2>3. ~Ready /\ win.pos = Len(win.buf)
    BY <1>1, <1>5 DEF Refill, Ready
  <2>4. CASE Retains
    <3>1. win'.cap \in Nat /\ win'.cap =< win'.pos + ReadSize
      BY <1>1, <2>2, <2>3, <2>4
    <3>2. pc' = pc /\ scan' = scan
      BY <1>5 DEF control
    <3> QED BY <2>4, <3>1, <3>2
  <2>5. CASE ~Retains
    <3>1. WindowOf(Discarded(win), served) /\ Len(Discarded(win).buf) = 0
      BY <1>1, <2>3, DiscardedIsWindow DEF WindowInv
    <3>2. Discarded(win).cap \in Nat /\ Discarded(win).cap =< ReadSize
      BY <1>1 DEF Discarded
    <3> QED BY <1>1, <2>2, <2>5, <3>1, <3>2
  <2> QED BY <2>4, <2>5
<1> QED BY <1>2, <1>3, <1>4, <1>5, StepOnWindow

\* Every step keeps the bound.
LEMMA MemoryInvNext ==
  /\ TokenInv /\ TokenInv' /\ WindowInv /\ WindowInv'
  /\ MemoryInv /\ [HistoryNext]_historyVars
  => MemoryInv'
<1> SUFFICES ASSUME TokenInv, TokenInv', WindowInv, WindowInv', MemoryInv,
                    [HistoryNext]_historyVars
             PROVE  MemoryInv'
  OBVIOUS
<1>1. CASE UNCHANGED historyVars
  BY <1>1 DEF historyVars, vars, windowVars, control, MemoryInv, MemoryIsBounded
<1>2. CASE HistoryNext
  <2>1. [Next]_vars
    BY <1>2 DEF HistoryNext
  <2>2. win'.pos \in Nat /\ win.cap \in Nat /\ ReadSize \in Nat /\ longest \in Nat
    BY ReadSizeAssumption DEF WindowInv, WindowOf, Holds, MemoryInv
  <2>3. Retained' \in Nat
    BY <2>2 DEF TokenInv, Retained
  <2>4. longest' \in Nat /\ longest =< longest' /\ Retained' =< longest'
    BY <1>2, <2>2, <2>3 DEF HistoryNext
  <2>5. ASSUME pc' \in {"scan", "scanned"}, scan'.retain
        PROVE  scan'.start = 0 /\ win'.pos =< longest'
    <3>1. scan'.start = 0
      <4>1. CASE BeginsToken
        <5>1. win' = Discarded(win)
          BY <2>1, <2>5, <4>1, RetainedBeginsAtZero DEF BeginsToken
        <5> QED BY <4>1, <5>1 DEF BeginsToken, Discarded
      <4>2. CASE KeepsToken
        BY <2>5, <4>2 DEF KeepsToken, MemoryInv
      <4>3. CASE UNCHANGED vars
        BY <2>5, <4>3 DEF vars, control, MemoryInv
      <4> QED BY <2>1, <2>5, <4>1, <4>2, <4>3, StepOnToken DEF LeavesToken
    <3>2. Retained' = win'.pos
      BY <2>2, <2>5, <3>1 DEF Retained
    <3> QED BY <2>4, <3>1, <3>2
  <2>6. win'.cap =< longest' + ReadSize
    <3>1. win.cap =< longest + ReadSize
      BY DEF MemoryInv, MemoryIsBounded
    <3>2. CASE win'.cap =< win.cap \/ win'.cap =< ReadSize
      BY <2>1, <2>2, <2>4, <3>1, <3>2, CapacityOfStep
    <3>3. CASE Retains /\ pc' = pc /\ scan' = scan /\ win'.cap =< win'.pos + ReadSize
      <4>1. win'.pos =< longest'
        BY <2>5, <3>3 DEF Retains
      <4> QED BY <2>1, <2>2, <2>4, <3>3, <4>1, CapacityOfStep
    <3> QED BY <2>1, <3>2, <3>3, CapacityOfStep
  <2> QED BY <2>4, <2>5, <2>6 DEF MemoryInv, MemoryIsBounded
<1> QED BY <1>1, <1>2

\* "Memory use is bounded by the largest element plus the sliding read window":
\* for every stream, path, read size and reader.
THEOREM MemoryIsAlwaysBounded == HistorySpec => []MemoryIsBounded
<1>1. MemoryInv => MemoryIsBounded
  BY DEF MemoryInv
<1> QED BY <1>1, MemoryInvInit, MemoryInvNext, HistoryParserInv, PTL
        DEF HistorySpec

---------------------------------------------------------------------------
\* The code's count of empty reads is the length of the drought, until an
\* error ends the reading.
DroughtInv ==
  /\ readErr \in {"none", "NoProgress"} => drought = emptyReads
  /\ readErr = "NoProgress" => emptyReads = MaxEmptyReads

\* A Read counts as the history counts it.
LEMMA RefillCounts ==
  ASSUME WindowInv, DroughtInv, Refill(Retains), HistoryNext
  PROVE  DroughtInv'
<1>1. PICK n \in 0 .. ReadSize :
        /\ served' = served + n
        /\ \E err \in ReadOutcomes(n) : AccountRead(n, err)
  BY DEF Refill
<1>2. PICK err \in ReadOutcomes(n) : AccountRead(n, err)
  BY <1>1
<1>3. /\ served \in Nat /\ n \in Nat /\ emptyReads \in Nat
      /\ readErr = "none" /\ emptyReads < MaxEmptyReads
      /\ drought = emptyReads
      /\ MaxEmptyReads \in Nat \ {0}
  BY ReadSizeAssumption, MaxEmptyReadsAssumption DEF Refill, WindowInv, DroughtInv
<1>4. err # "NoProgress"
  BY DEF ReadOutcomes
<1>5. CASE n > 0
  <2>1. emptyReads' = 0 /\ readErr' = err
    BY <1>2, <1>5 DEF AccountRead
  <2>2. served' # served
    BY <1>1, <1>3, <1>5
  <2>3. drought' = 0
    BY <2>2 DEF HistoryNext, Reads, Empty
  <2> QED BY <1>4, <2>1, <2>3 DEF DroughtInv
<1>6. CASE n = 0 /\ err # "none"
  BY <1>2, <1>4, <1>6 DEF AccountRead, DroughtInv
<1>7. CASE n = 0 /\ err = "none"
  <2>1. /\ emptyReads' = emptyReads + 1
        /\ readErr' = IF emptyReads' >= MaxEmptyReads THEN "NoProgress" ELSE "none"
    BY <1>2, <1>7 DEF AccountRead
  <2>2. Reads /\ Empty
    BY <1>1, <1>3, <1>7, <2>1 DEF Reads, Empty
  <2>3. drought' = drought + 1
    BY <2>2 DEF HistoryNext
  <2>4. emptyReads' = drought'
    BY <1>3, <2>1, <2>3
  <2>5. emptyReads' >= MaxEmptyReads => emptyReads' = MaxEmptyReads
    BY <1>3, <2>1
  <2> QED BY <2>1, <2>4, <2>5 DEF DroughtInv
<1> QED BY <1>3, <1>5, <1>6, <1>7

\* Every step keeps the two counts equal.
LEMMA DroughtInvNext ==
  WindowInv /\ DroughtInv /\ [HistoryNext]_historyVars => DroughtInv'
<1> SUFFICES ASSUME WindowInv, DroughtInv, [HistoryNext]_historyVars
             PROVE  DroughtInv'
  OBVIOUS
<1>1. CASE UNCHANGED historyVars
  BY <1>1 DEF historyVars, vars, windowVars, DroughtInv
<1>2. CASE HistoryNext /\ Refill(Retains)
  BY <1>2, RefillCounts
<1>3. CASE HistoryNext /\ (ConsumeByte \/ DiscardConsumed \/ Stay)
  <2>1. served' = served /\ readErr' = readErr /\ emptyReads' = emptyReads
    BY <1>3 DEF ConsumeByte, DiscardConsumed, Stay, windowVars
  <2>2. drought' = drought
    BY <1>3, <2>1 DEF HistoryNext, Reads
  <2> QED BY <2>1, <2>2 DEF DroughtInv
<1>4. HistoryNext => [Next]_vars
  BY DEF HistoryNext
<1> QED BY <1>1, <1>2, <1>3, <1>4, StepOnWindow

\* io.ErrNoProgress is reported after exactly maxConsecutiveEmptyReads empty
\* reads in a row and the reading goes on before that, whatever the bound is.
THEOREM GivesUpExactlyWhenStarved == HistorySpec => []GivesUpOnlyWhenStarved
<1>1. HistoryInit => DroughtInv
  BY DEF HistoryInit, Init, WindowInit, DroughtInv
<1>2. WindowInv /\ DroughtInv => GivesUpOnlyWhenStarved
  BY DEF WindowInv, DroughtInv, GivesUpOnlyWhenStarved
<1> QED BY <1>1, <1>2, DroughtInvNext, HistoryParserInv, PTL DEF HistorySpec

---------------------------------------------------------------------------
\* The scanners of the mapped parser are those of the parser: neither looks at
\* its window.
LEMMA SameQuotes ==
  /\ Whole!Quotes = Quotes /\ Whole!Blank = Blank /\ Whole!NoQuote = NoQuote
  /\ Whole!SkipsBlanks = SkipsBlanks /\ Whole!NoScan = NoScan
  /\ Whole!Backslash = Backslash
  /\ \A b : Whole!Delimiter(b) = Delimiter(b)
  /\ \A b : Whole!ClosingDelimiter(b) = ClosingDelimiter(b)
BY DEF Whole!Quotes, Quotes, Whole!Blank, Blank, Whole!NoQuote, NoQuote,
       Whole!SkipsBlanks, SkipsBlanks, Whole!NoScan, NoScan,
       Whole!Quote, Quote, Whole!Backslash, Backslash,
       Whole!Delimiter, Delimiter, Whole!ClosingDelimiter, ClosingDelimiter

\* A component asks for the same element.
LEMMA SameIndex ==
  ASSUME NEW key
  PROVE  Whole!ReaderIndex(key) = ReaderIndex(key) /\ Whole!Index(key) = Index(key)
BY DEF Whole!ReaderIndex, ReaderIndex, Whole!Index, Index, Whole!IsIndex, IsIndex,
       Whole!IsIndexForm, IsIndexForm, Whole!IndexBody, IndexBody, Whole!Atoi, Atoi,
       Whole!Unsigned, Unsigned, Whole!Signed, Signed, Whole!IsInteger, IsInteger,
       Whole!DigitValue, DigitValue, Whole!Digits, Digits, Whole!DigitNames, DigitNames

\* A key is decoded to the same text.
LEMMA SameUnescape ==
  ASSUME NEW b
  PROVE  Whole!Unescape(b) = Unescape(b) /\ Whole!BadText = BadText
BY DEF Whole!Unescape, Unescape, Whole!BadText, BadText, Whole!EscapeAt, EscapeAt,
       Whole!EvenRun, EvenRun, Whole!EscapedByte, EscapedByte,
       Whole!Escapable, Escapable, Whole!Quote, Quote, Whole!Backslash, Backslash

\* The scanners of the in-memory Get stop at the same places,
LEMMA SameEnds ==
  ASSUME NEW d, NEW i, NEW hi
  PROVE  /\ Whole!NextToken(d, i, hi) = NextToken(d, i, hi)
         /\ Whole!TokenEnd(d, i, hi) = TokenEnd(d, i, hi)
         /\ \A q : Whole!StringEnd(d, i, hi, q) = StringEnd(d, i, hi, q)
BY DEF Whole!NextToken, NextToken, Whole!TokenEnd, TokenEnd,
       Whole!StringEnd, StringEnd, Whole!EvenRun, EvenRun,
       Whole!First, First, Whole!None, None, Whole!Blank, Blank,
       Whole!Backslash, Backslash

\* those of a block among them,
LEMMA SameBlockEnd ==
  ASSUME NEW d, NEW i, NEW hi, NEW open, NEW close
  PROVE  Whole!BlockEnd(d, i, hi, open, close) = BlockEnd(d, i, hi, open, close)
BY DEF Whole!BlockEnd, BlockEnd, Whole!Cardinality, Cardinality, Whole!First, First, Whole!None, None,
       Whole!Reading, Reading, Whole!Modes, Modes, Whole!Outside, Outside,
       Whole!NoQuote, NoQuote, Whole!Quotes, Quotes, Whole!Quote, Quote,
       Whole!Backslash, Backslash

\* so that a value is read in the same way
LEMMA SameGetType ==
  ASSUME NEW d, NEW i, NEW hi
  PROVE  Whole!GetType(d, i, hi) = GetType(d, i, hi)
<1>1. \A type, j, window, end, err :
        Whole!Delimited(type, j, window, end, err) = Delimited(type, j, window, end, err)
  BY DEF Whole!Delimited, Delimited, Whole!Failed, Failed, Whole!Got, Got,
         Whole!NoWindow, NoWindow, Whole!None, None
<1>2. \A j, end : Whole!GetString(j, end) = GetString(j, end)
  BY <1>1 DEF Whole!GetString, GetString, Whole!None, None
<1>3. \A type, j, end, err :
        Whole!GetBlock(type, j, end, err) = GetBlock(type, j, end, err)
  BY <1>1 DEF Whole!GetBlock, GetBlock
<1>4. \A text : Whole!ScalarType(text) = ScalarType(text)
  BY DEF Whole!ScalarType, ScalarType, Whole!Digits, Digits, 
         Whole!DigitNames, DigitNames
<1>5. \A t, j, e : Whole!GetScalar(t, j, e) = GetScalar(t, j, e)
  BY <1>4 DEF Whole!GetScalar, GetScalar, Whole!Failed, Failed, Whole!Got, Got,
         Whole!NoWindow, NoWindow, Whole!Text, Text
<1> QED BY <1>2, <1>3, <1>5, SameEnds, SameBlockEnd, SameQuotes
        DEF Whole!GetType, GetType

\* and a token is classified in the same way.
LEMMA SameClosest ==
  ASSUME NEW d, NEW i, NEW hi
  PROVE  Whole!ClosestValue(d, i, hi) = ClosestValue(d, i, hi)
BY SameEnds, SameGetType DEF Whole!ClosestValue, ClosestValue, Whole!None, None,
   Whole!Failed, Failed, Whole!NoWindow, NoWindow

---------------------------------------------------------------------------
\* The mapped window under the parser's own.
LEMMA WholeWindow ==
  ASSUME WindowInv
  PROVE  /\ win.pos \in Nat /\ win.bufStart \in Nat /\ Len(win.buf) \in Nat
         /\ served = win.bufStart + Len(win.buf)
         /\ win.pos =< Len(win.buf) /\ served =< Len(stream) /\ Len(stream) \in Nat
         /\ WholeWin.buf \in Seq(STRING)
         /\ Len(WholeWin.buf) = Len(stream) - win.bufStart
         /\ \A k \in 1 .. Len(stream) - win.bufStart :
              WholeWin.buf[k] = stream[win.bufStart + k]
         /\ \A k \in 1 .. Len(win.buf) : win.buf[k] = stream[win.bufStart + k]
<1>1. /\ win.pos \in Nat /\ win.bufStart \in Nat /\ Len(win.buf) \in Nat
      /\ served = win.bufStart + Len(win.buf) /\ stream \in Seq(STRING)
      /\ win.pos =< Len(win.buf) /\ served =< Len(stream) /\ Len(stream) \in Nat
      /\ \A k \in 1 .. Len(win.buf) : win.buf[k] = stream[win.bufStart + k]
  BY LenProperties DEF WindowInv, WindowOf, Holds
<1>2. win.bufStart =< Len(stream)
  BY <1>1
<1> QED BY <1>1, <1>2, SuffixProperties DEF WholeWin

\* A byte the window has is the same byte of the whole stream.
LEMMA SameByte ==
  ASSUME WindowInv, Ready
  PROVE  Whole!Ready /\ Whole!Here = Here
<1>1. win.pos < Len(win.buf)
  BY DEF Ready
<1>2. /\ win.pos + 1 \in 1 .. Len(win.buf)
      /\ win.pos + 1 \in 1 .. Len(stream) - win.bufStart
      /\ win.pos < Len(stream) - win.bufStart
  <2>1. /\ win.pos \in Nat /\ win.bufStart \in Nat /\ Len(win.buf) \in Nat
        /\ win.bufStart + Len(win.buf) =< Len(stream) /\ Len(stream) \in Nat
    BY WholeWindow
  <2> QED BY <1>1, <2>1
<1>3. WholeWin.pos = win.pos
  BY DEF WholeWin
<1>4. Len(WholeWin.buf) = Len(stream) - win.bufStart
  BY WholeWindow
<1>5. WholeWin.buf[win.pos + 1] = win.buf[win.pos + 1]
  <2>1. WholeWin.buf[win.pos + 1] = stream[win.bufStart + (win.pos + 1)]
    BY <1>2, WholeWindow
  <2>2. win.buf[win.pos + 1] = stream[win.bufStart + (win.pos + 1)]
    BY <1>2, WholeWindow
  <2> QED BY <2>1, <2>2
<1> QED BY <1>2, <1>3, <1>4, <1>5 DEF Whole!Ready, Whole!Here, Here

\* So both look at the same byte when the call can go on.
LEMMA SamePoint ==
  ASSUME WindowInv, NEW point, At(point)
  PROVE  Whole!At(point) /\ Whole!Here = Here
BY SameByte, SameQuotes DEF At, Whole!At

\* Consuming it moves both.
LEMMA SameConsume ==
  ASSUME ConsumeByte, WindowInv PROVE Whole!ConsumeByte
<1>1. Whole!Ready
  BY SameByte DEF ConsumeByte
<1>2. /\ win'.buf = win.buf /\ win'.bufStart = win.bufStart
      /\ win'.pos = win.pos + 1 /\ stream' = stream
  BY DEF WindowInv, WindowOf, ConsumeByte, Consumed
<1>3. WholeWin' = [WholeWin EXCEPT !.pos = win.pos + 1]
  <2>1. WholeWin' = [buf      |-> SubSeq(stream, win.bufStart + 1, Len(stream)),
                     bufStart |-> win.bufStart,
                     pos      |-> win.pos + 1,
                     cap      |-> Len(stream) - win.bufStart]
    BY <1>2 DEF WholeWin
  <2> DEFINE b == SubSeq(stream, win.bufStart + 1, Len(stream))
             o == win.bufStart
             c == Len(stream) - win.bufStart
             p == win.pos
  <2> HIDE DEF b, o, c, p
  <2>2. WholeWin = [buf |-> b, bufStart |-> o, pos |-> p, cap |-> c]
    BY DEF WholeWin, b, o, c, p
  <2>3. WholeWin' = [buf |-> b, bufStart |-> o, pos |-> p + 1, cap |-> c]
    BY <2>1 DEF b, o, c, p
  <2>4. WholeWin' = [WholeWin EXCEPT !.pos = p + 1]
    BY <2>2, <2>3
  <2> QED BY <2>4 DEF p
<1>4. WholeWin.pos = win.pos
  BY DEF WholeWin
<1> QED BY <1>1, <1>2, <1>3, <1>4 DEF Whole!ConsumeByte, Whole!Consumed

\* What leaves one window alone leaves the other alone.
LEMMA SameStay == Stay => Whole!Stay
BY DEF Stay, windowVars, Whole!Stay, Whole!windowVars, WholeWin

\* A suffix of a suffix.
LEMMA SuffixOfSuffix ==
  ASSUME NEW s \in Seq(STRING), NEW m \in Nat, NEW n \in Nat, m + n =< Len(s)
  PROVE  SubSeq(SubSeq(s, m + 1, Len(s)), n + 1, Len(s) - m)
           = SubSeq(s, (m + n) + 1, Len(s))
<1> DEFINE t == SubSeq(s, m + 1, Len(s))
           u == SubSeq(t, n + 1, Len(t))
           v == SubSeq(s, (m + n) + 1, Len(s))
<1>1. Len(s) \in Nat /\ m =< Len(s) /\ m + n \in Nat
  BY LenProperties
<1>2. /\ t \in Seq(STRING) /\ Len(t) = Len(s) - m
      /\ \A k \in 1 .. Len(s) - m : t[k] = s[m + k]
  BY <1>1, SuffixProperties
<1>3. /\ v \in Seq(STRING) /\ Len(v) = Len(s) - (m + n)
      /\ \A k \in 1 .. Len(s) - (m + n) : v[k] = s[(m + n) + k]
  BY <1>1, SuffixProperties
<1> HIDE DEF t, v
<1>4. n =< Len(t)
  BY <1>1, <1>2
<1>5. /\ u \in Seq(STRING) /\ Len(u) = Len(t) - n
      /\ \A k \in 1 .. Len(t) - n : u[k] = t[n + k]
  BY <1>2, <1>4, SuffixProperties
<1> HIDE DEF u
<1>6. ASSUME NEW k \in 1 .. Len(u) PROVE u[k] = v[k]
  <2>1. /\ k \in 1 .. Len(t) - n /\ k \in 1 .. Len(s) - (m + n)
        /\ n + k \in 1 .. Len(s) - m /\ m + (n + k) = (m + n) + k
    BY <1>1, <1>2, <1>5
  <2> QED BY <1>2, <1>3, <1>5, <2>1
<1>7. Len(u) = Len(v)
  BY <1>1, <1>2, <1>3, <1>5
<1>8. u = v
  BY <1>3, <1>5, <1>6, <1>7, SeqEqual
<1> QED BY <1>2, <1>8 DEF t, u, v

\* Releasing the consumed prefix of one window releases that of the other.
LEMMA SameDiscarded ==
  ASSUME WindowInv, stream' = stream, win'.bufStart = win.bufStart + win.pos,
         win'.pos = 0
  PROVE  Whole!DiscardConsumed
<1>1. win.bufStart + win.pos =< Len(stream) /\ stream \in Seq(STRING)
  BY WholeWindow DEF WindowInv
<1>2. SubSeq(WholeWin.buf, win.pos + 1, Len(WholeWin.buf))
        = SubSeq(stream, (win.bufStart + win.pos) + 1, Len(stream))
  <2>1. win.pos \in Nat /\ win.bufStart \in Nat
    BY WholeWindow
  <2>2. Len(WholeWin.buf) = Len(stream) - win.bufStart
    BY WholeWindow
  <2>3. WholeWin.buf = SubSeq(stream, win.bufStart + 1, Len(stream))
    BY DEF WholeWin
  <2>4. SubSeq(SubSeq(stream, win.bufStart + 1, Len(stream)), win.pos + 1,
               Len(stream) - win.bufStart)
          = SubSeq(stream, (win.bufStart + win.pos) + 1, Len(stream))
    BY <1>1, <2>1, SuffixOfSuffix
  <2> QED BY <2>2, <2>3, <2>4
<1>3. Len(stream) - (win.bufStart + win.pos) = Len(stream) - win.bufStart - win.pos
  BY WholeWindow
<1>4. /\ WholeWin.pos = win.pos /\ WholeWin.bufStart = win.bufStart
      /\ WholeWin.cap = Len(stream) - win.bufStart
  BY DEF WholeWin
<1>5. WholeWin' = Whole!Discarded(WholeWin)
  BY <1>2, <1>3, <1>4 DEF WholeWin, Whole!Discarded
<1> QED BY <1>5 DEF Whole!DiscardConsumed

\* discardConsumed does it.
LEMMA SameDiscard ==
  ASSUME WindowInv, DiscardConsumed PROVE Whole!DiscardConsumed
BY SameDiscarded DEF DiscardConsumed, Discarded

\* A Read adds nothing to the mapped window, which has the bytes already; it
\* slides unless the token is retained.
LEMMA HiddenRefill ==
  ASSUME WindowInv, NEW retain \in BOOLEAN, Refill(retain)
  PROVE  IF retain THEN Whole!Stay ELSE Whole!DiscardConsumed
<1>1. PICK n \in 0 .. ReadSize :
        win' = Received(IF retain THEN win ELSE Discarded(win), n)
  BY DEF Refill
<1>2. stream' = stream
  BY DEF Refill
<1>3. CASE retain
  BY <1>1, <1>2, <1>3 DEF Received, Whole!Stay, Whole!windowVars, WholeWin
<1>4. CASE ~retain
  <2>1. win'.bufStart = win.bufStart + win.pos /\ win'.pos = 0
    BY <1>1, <1>4 DEF Received, Discarded
  <2> QED BY <1>2, <1>4, <2>1, SameDiscarded
<1> QED BY <1>3, <1>4

---------------------------------------------------------------------------
\* What a step does besides the window is the same for both.
LEMMA SameMoves ==
  /\ \A point : Goto(point) => Whole!Goto(point)
  /\ \A err, value, type : Finish(err, value, type) => Whole!Finish(err, value, type)
  /\ \A err : Fail(err) => Whole!Fail(err)
  /\ \A outer : NotFoundHere(outer) => Whole!NotFoundHere(outer)
  /\ \A why, retain : BeginScan(why, retain) => Whole!BeginScan(why, retain)
  /\ Whole!Frame = Frame /\ Whole!Outer = Outer
  /\ Whole!Closing = Closing /\ Whole!MalformedPart = MalformedPart
  /\ Whole!ArrayFrame = ArrayFrame /\ Whole!ObjectFrame = ObjectFrame
<1>1. \A point : Goto(point) => Whole!Goto(point)
  BY DEF Goto, Whole!Goto
<1>2. \A err, value, type : Finish(err, value, type) => Whole!Finish(err, value, type)
  BY DEF Finish, Whole!Finish
<1>3. \A err : Fail(err) => Whole!Fail(err)
  BY <1>2 DEF Fail, Whole!Fail, Capturing, Whole!Capturing
<1>4. \A outer : NotFoundHere(outer) => Whole!NotFoundHere(outer)
  BY <1>2 DEF NotFoundHere, Whole!NotFoundHere
<1>5. \A why, retain : BeginScan(why, retain) => Whole!BeginScan(why, retain)
  BY SameQuotes DEF BeginScan, Whole!BeginScan, WholeWin
<1>6. /\ Whole!Frame = Frame /\ Whole!Outer = Outer
      /\ Whole!Closing = Closing /\ Whole!MalformedPart = MalformedPart
      /\ Whole!ArrayFrame = ArrayFrame /\ Whole!ObjectFrame = ObjectFrame
  BY DEF Frame, Whole!Frame, Outer, Whole!Outer, Closing, Whole!Closing,
         MalformedPart, Whole!MalformedPart, ArrayFrame, Whole!ArrayFrame,
         ObjectFrame, Whole!ObjectFrame
<1> QED BY <1>1, <1>2, <1>3, <1>4, <1>5, <1>6

\* So are the steps from one part of a container to the next.
LEMMA SameParts ==
  /\ \A index : BeginPart(index) => Whole!BeginPart(index)
  /\ EndContainer => Whole!EndContainer
<1>1. EndContainer => Whole!EndContainer
  BY SameMoves DEF EndContainer, Whole!EndContainer
<1>2. \A index : BeginPart(index) => Whole!BeginPart(index)
  BY SameMoves, SameIndex DEF BeginPart, Whole!BeginPart
<1> QED BY <1>1, <1>2

\* The first steps of a call.
LEMMA SameStart ==
  ASSUME WindowInv, CheckPath \/ SkipBlank \/ StartGet \/ StartArrayEach
  PROVE  Whole!Next
<1>1. CASE CheckPath
  BY <1>1, SameMoves, SameStay DEF CheckPath, Whole!CheckPath, Whole!Next
<1>2. CASE SkipBlank
  BY <1>2, SameByte, SameConsume, SameQuotes
     DEF SkipBlank, Whole!SkipBlank, Whole!control, control, Whole!Next
<1>3. CASE StartGet
  BY <1>3, SameMoves, SamePoint, SameStay DEF StartGet, Whole!StartGet, Whole!Next
<1>4. CASE StartArrayEach
  BY <1>4, SameMoves, SamePoint, SameStay, SameConsume
     DEF StartArrayEach, Whole!StartArrayEach, Whole!Next
<1> QED BY <1>1, <1>2, <1>3, <1>4

\* The step into a container, or past a value.
LEMMA SameFindValue == ASSUME WindowInv, FindValue PROVE Whole!FindValue
<1>1. Whole!At("value") /\ Whole!Here = Here
  BY SamePoint DEF FindValue
<1>2. Whole!Enters <=> Enters
  BY <1>1, SameIndex DEF Enters, Whole!Enters
<1>3. CASE Len(frames) = Len(path)
  BY <1>1, <1>3, SameMoves, SameStay DEF FindValue, Whole!FindValue
<1>4. CASE Len(frames) # Len(path) /\ Enters
  BY <1>1, <1>2, <1>4, SameMoves, SameConsume DEF FindValue, Whole!FindValue
<1>5. CASE Len(frames) # Len(path) /\ ~Enters
  BY <1>1, <1>2, <1>5, SameMoves, SameStay DEF FindValue, Whole!FindValue
<1> QED BY <1>3, <1>4, <1>5

\* The steps between the parts of a container.
LEMMA SameContainer ==
  ASSUME WindowInv, FirstPart \/ AfterPart \/ NextPart
  PROVE  Whole!Next
<1>1. CASE FirstPart
  BY <1>1, SameMoves, SameParts, SamePoint, SameStay, SameConsume
     DEF FirstPart, Whole!FirstPart, Whole!Next
<1>2. CASE AfterPart
  <2>1. /\ Whole!At("afterPart") /\ Whole!Here = Here
        /\ Whole!Closing = Closing /\ Whole!MalformedPart = MalformedPart
    BY <1>2, SamePoint, SameMoves DEF AfterPart
  <2>2. CASE Here = Closing
    <3>1. Here # ","
      BY <2>2 DEF Closing
    <3> QED BY <1>2, <2>1, <2>2, <3>1, SameParts, SameConsume
            DEF AfterPart, Whole!AfterPart, Whole!Next
  <2>3. CASE Here # Closing /\ Here = ","
    BY <1>2, <2>1, <2>3, SameMoves, SameConsume
       DEF AfterPart, Whole!AfterPart, Whole!Next
  <2>4. CASE Here # Closing /\ Here # ","
    BY <1>2, <2>1, <2>4, SameMoves, SameStay
       DEF AfterPart, Whole!AfterPart, Whole!Next
  <2> QED BY <2>2, <2>3, <2>4
<1>3. CASE NextPart
  BY <1>3, SameMoves, SameParts, SamePoint, SameStay
     DEF NextPart, Whole!NextPart, Whole!Next
<1> QED BY <1>1, <1>2, <1>3

\* The steps around a key, and those that begin to scan a value.
LEMMA SameBegin ==
  ASSUME WindowInv, ReadObjectKey \/ Colon \/ CaptureValue \/ SkipValue
  PROVE  Whole!Next
<1>1. CASE ReadObjectKey
  BY <1>1, SameMoves, SamePoint, SameStay, SameDiscard, SameQuotes
     DEF ReadObjectKey, Whole!ReadObjectKey, Whole!Next
<1>2. CASE Colon
  BY <1>2, SameMoves, SamePoint, SameStay, SameConsume
     DEF Colon, Whole!Colon, Whole!Next
<1>3. CASE CaptureValue
  BY <1>3, SameMoves, SamePoint, SameDiscard
     DEF CaptureValue, Whole!CaptureValue, Whole!Next
<1>4. CASE SkipValue
  BY <1>4, SameMoves, SamePoint, SameStay
     DEF SkipValue, Whole!SkipValue, Whole!Next
<1> QED BY <1>1, <1>2, <1>3, <1>4

\* The scans of a value, byte by byte.
LEMMA SameScan ==
  ASSUME WindowInv, ScanValue \/ ScanString \/ ScanComposite \/ ScanScalar
  PROVE  Whole!Next
<1>1. CASE ScanValue
  BY <1>1, SamePoint, SameStay, SameConsume, SameQuotes
     DEF ScanValue, Whole!ScanValue, Whole!Next
<1>2. CASE ScanString
  BY <1>2, SamePoint, SameConsume, SameQuotes
     DEF ScanString, Whole!ScanString, Whole!Next
<1>3. CASE ScanComposite
  BY <1>3, SameMoves, SamePoint, SameStay, SameConsume, SameQuotes
     DEF ScanComposite, Whole!ScanComposite, Whole!Next
<1>4. CASE ScanScalar
  BY <1>4, SameMoves, SamePoint, SameStay, SameConsume, SameQuotes
     DEF ScanScalar, Whole!ScanScalar, Whole!Next
<1> QED BY <1>1, <1>2, <1>3, <1>4

---------------------------------------------------------------------------
\* Keys and values are retained while they are scanned; the end of the stream
\* is met where it is.
CallInv ==
  /\ pc \in {"scan", "scanned"} /\ scan.why \in {"key", "value"} => scan.retain
  /\ readErr = "EOF" => served = Len(stream)

\* A token that is used is the same slice of the stream in both windows.
LEMMA SameToken ==
  ASSUME WindowInv, TokenInv, pc = "scanned", scan.retain
  PROVE  Whole!Token = Token
<1>1. /\ scan.start \in Nat /\ scan.start =< win.pos /\ stream \in Seq(STRING)
      /\ win.buf \in Seq(STRING)
  BY DEF TokenInv, WindowInv, WindowOf, Holds
<1>2. /\ win.pos \in Nat /\ win.bufStart \in Nat /\ Len(win.buf) \in Nat
      /\ win.pos =< Len(win.buf) /\ win.bufStart + Len(win.buf) =< Len(stream)
      /\ Len(stream) \in Nat
      /\ WholeWin.buf \in Seq(STRING)
      /\ Len(WholeWin.buf) = Len(stream) - win.bufStart
      /\ \A k \in 1 .. Len(WholeWin.buf) :
           WholeWin.buf[k] = stream[win.bufStart + k]
      /\ \A k \in 1 .. Len(win.buf) : win.buf[k] = stream[win.bufStart + k]
  BY WholeWindow
<1>3. SliceIsStream(win.buf, win.bufStart, scan.start, win.pos)
  BY <1>1, <1>2, SliceOfPiece
<1>4. /\ win.pos =< Len(WholeWin.buf)
      /\ win.bufStart + Len(WholeWin.buf) =< Len(stream)
  <2>1. Len(WholeWin.buf) = Len(stream) - win.bufStart
    BY <1>2
  <2>2. /\ win.pos \in Nat /\ win.bufStart \in Nat /\ Len(win.buf) \in Nat
        /\ win.pos =< Len(win.buf) /\ win.bufStart + Len(win.buf) =< Len(stream)
        /\ Len(stream) \in Nat
    BY <1>2
  <2> QED BY <2>1, <2>2
<1>5. SliceIsStream(WholeWin.buf, win.bufStart, scan.start, win.pos)
  BY <1>1, <1>2, <1>4, SliceOfPiece
<1>6. WholeWin.pos = win.pos
  BY DEF WholeWin
<1> QED BY <1>3, <1>5, <1>6 DEF SliceIsStream, Whole!Token, Token

\* So a key is compared with the same outcome,
LEMMA SameCompareKey ==
  ASSUME WindowInv, TokenInv, CallInv, CompareKey PROVE Whole!CompareKey
<1>1. Whole!Token = Token
  BY SameToken DEF CallInv, CompareKey
<1> QED BY <1>1, SameMoves, SameUnescape, SameStay
        DEF CompareKey, Whole!CompareKey

\* and a value is returned, reported or skipped as the same value.
LEMMA SameAnswer ==
  ASSUME WindowInv, TokenInv, CallInv, ReturnValue \/ DeliverElement \/ ValueSkipped
  PROVE  Whole!Next
<1>1. pc = "scanned" /\ scan.why = "value"
        => Whole!Classified = Classified /\ Whole!Value = Value
  <2> SUFFICES ASSUME pc = "scanned", scan.why = "value"
               PROVE  Whole!Classified = Classified /\ Whole!Value = Value
    OBVIOUS
  <2>1. Whole!Token = Token
    BY SameToken DEF CallInv
  <2>2. Whole!Classified = Classified
    BY <2>1, SameClosest DEF Whole!Classified, Classified
  <2> QED BY <2>1, <2>2 DEF Whole!Value, Value, Whole!Text, Text
<1>2. \A type, value : Whole!Decoded(type, value) = Decoded(type, value)
  BY SameUnescape DEF Whole!Decoded, Decoded
<1>3. CASE ReturnValue
  BY <1>1, <1>2, <1>3, SameMoves, SameStay
     DEF ReturnValue, Whole!ReturnValue, Whole!Next
<1>4. CASE DeliverElement
  BY <1>1, <1>4, SameMoves, SameStay
     DEF DeliverElement, Whole!DeliverElement, Whole!Next
<1>5. CASE ValueSkipped
  BY <1>5, SameMoves, SameStay DEF ValueSkipped, Whole!ValueSkipped, Whole!Next
<1> QED BY <1>3, <1>4, <1>5

\* A Read is hidden, or slides the window.
LEMMA SameRead ==
  ASSUME WindowInv, ReadMore PROVE Slides \/ UNCHANGED Whole!vars
<1>1. Retains \in BOOLEAN /\ Refill(Retains) /\ UNCHANGED control
  BY DEF ReadMore, Retains
<1>2. IF Retains THEN Whole!Stay ELSE Whole!DiscardConsumed
  BY <1>1, HiddenRefill
<1>3. Retains <=> Keeps
  BY DEF Retains, Keeps
<1>4. Peeks
  BY DEF ReadMore, NeedsByte, Peeks
<1> QED BY <1>1, <1>2, <1>3, <1>4
        DEF Slides, Whole!vars, Whole!Stay, Whole!control, control

\* The end of the stream is met in the same state by both; any other error
\* ends the call with itself.
LEMMA SameEnd ==
  ASSUME WindowInv, CallInv, ReadFails PROVE Whole!Next \/ GivesUp
<1>1. IF Retains THEN Whole!Stay ELSE Whole!DiscardConsumed
  BY SameStay, SameDiscard DEF ReadFails
<1>2. CASE readErr = "EOF"
  <2>1. served = Len(stream)
    BY <1>2 DEF CallInv
  <2>2. Len(WholeWin.buf) = Len(win.buf)
    BY <2>1, WholeWindow
  <2>3. Whole!NeedsByte
    BY <2>2, SameQuotes DEF ReadFails, NeedsByte, Whole!NeedsByte, Ready, Whole!Ready,
       WholeWin
  <2>4. Whole!EOFError = EOFError /\ (Whole!Retains <=> Retains)
    BY SameMoves, SameQuotes DEF Whole!EOFError, EOFError, Whole!Retains, Retains
  <2> QED BY <1>1, <1>2, <2>3, <2>4, SameMoves
          DEF ReadFails, Whole!ReadFails, Whole!Next
<1>3. CASE readErr # "EOF"
  BY <1>1, <1>3, SameMoves
     DEF ReadFails, GivesUp, NeedsByte, Peeks, Retains, Keeps, WindowInv
<1> QED BY <1>2, <1>3

\* Every step maps.
LEMMA SameStep ==
  ASSUME WindowInv, TokenInv, CallInv, [Next]_vars
  PROVE  Whole!Next \/ Slides \/ GivesUp \/ UNCHANGED Whole!vars
<1>1. CASE UNCHANGED vars
  BY <1>1, SameStay DEF vars, Stay, Whole!vars, Whole!Stay, Whole!control, control
<1>2. CASE FindValue
  BY <1>2, SameFindValue DEF Whole!Next
<1>3. CASE CompareKey
  BY <1>3, SameCompareKey DEF Whole!Next
<1> QED BY <1>1, <1>2, <1>3, SameStart, SameContainer, SameBegin, SameScan,
           SameAnswer, SameRead, SameEnd DEF Next

\* Nothing is retained or read at first,
LEMMA CallInvInit == Init => CallInv
BY DEF Init, WindowInit, CallInv

\* and every step keeps what is.
LEMMA CallInvNext ==
  TokenInv /\ CallInv /\ WindowInv /\ [Next]_vars => CallInv'
<1> SUFFICES ASSUME TokenInv, CallInv, WindowInv, [Next]_vars PROVE CallInv'
  OBVIOUS
<1>1. readErr' = "EOF" => served' = Len(stream')
  <2>1. CASE ConsumeByte \/ DiscardConsumed \/ Stay
    BY <2>1 DEF CallInv, ConsumeByte, DiscardConsumed, Stay, windowVars
  <2>2. CASE Refill(Retains)
    <3>1. PICK n \in 0 .. ReadSize :
            served' = served + n /\ \E err \in ReadOutcomes(n) : AccountRead(n, err)
      BY <2>2 DEF Refill
    <3>2. stream' = stream
      BY <2>2 DEF Refill
    <3> QED BY <2>2, <3>1, <3>2 DEF Refill, AccountRead, ReadOutcomes
  <2> QED BY <2>1, <2>2, StepOnWindow
<1>2. CASE BeginsToken
  BY <1>1, <1>2 DEF BeginsToken, CallInv
<1>3. CASE KeepsToken
  <2>1. scan'.why = scan.why /\ scan'.retain = scan.retain
    BY <1>3 DEF KeepsToken
  <2> QED BY <1>1, <1>3, <2>1 DEF KeepsToken, CallInv
<1>4. CASE LeavesToken
  BY <1>1, <1>4 DEF LeavesToken, CallInv
<1>5. CASE UNCHANGED vars
  BY <1>1, <1>5 DEF vars, control, CallInv
<1> QED BY <1>2, <1>3, <1>4, <1>5, StepOnToken

\* However the reader chops the stream, stalls or delays its error, a call sees
\* it as it would with everything in its buffer: every step is one of that
\* call, a slide of the window or the report of the reader's own failure.
THEOREM ChunkingIsAlwaysInvisible == Spec => ChunkingIsInvisible
<1>1. Spec => []CallInv
  BY CallInvInit, CallInvNext, ParserInv, PTL DEF Spec
<1>2. WindowInv /\ TokenInv /\ CallInv /\ [Next]_vars
        => [Whole!Next \/ Slides \/ GivesUp]_(Whole!vars)
  BY SameStep
<1> QED BY <1>1, <1>2, ParserInv, PTL DEF Spec, ChunkingIsInvisible
=============================================================================
