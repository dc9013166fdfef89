--------------------------- MODULE ReaderWindow ---------------------------
(***************************************************************************)
(* The sliding read window of ReaderParser (reader_parser.go): the fields  *)
(* buf, bufStart and pos of the struct, the capacity of buf, the sticky    *)
(* read error and the count of consecutive empty reads, with the           *)
(* operations discardConsumed and readMore and the refill loop of          *)
(* peekByte.  The io.Reader underneath is an environment that may return   *)
(* short reads, empty reads, data together with an error, or an error.     *)
(***************************************************************************)
EXTENDS Integers, Sequences

CONSTANTS ReadSize,       \* readSize: min(64 KiB, MaxBufferSize), at least 1
          MaxEmptyReads,  \* maxConsecutiveEmptyReads
          NoByte          \* stands for "a peek has to read first"

ASSUME ReadSizeAssumption == ReadSize \in Nat \ {0}
ASSUME MaxEmptyReadsAssumption == MaxEmptyReads \in Nat \ {0}

VARIABLES stream,         \* everything the reader will ever produce
          served,         \* how many bytes of it Read has returned so far
          win,            \* [buf, bufStart, pos, cap] of the parser
          readErr,        \* the sticky error, "none" at first
          emptyReads      \* consecutive reads that returned (0, nil)

windowVars == <<stream, served, win, readErr, emptyReads>>

ReadErrors == {"EOF", "Fault", "NoProgress"}

WindowInit == /\ stream \in Seq(STRING)
              /\ served = 0
              /\ win = [buf |-> <<>>, bufStart |-> 0, pos |-> 0, cap |-> 0]
              /\ readErr = "none"
              /\ emptyReads = 0

---------------------------------------------------------------------------
Ready == win.pos < Len(win.buf)

Here == win.buf[win.pos + 1]

\* Mutant of Discarded: the offset of the buffer is not moved.
DiscardedInPlace(w) ==
  [w EXCEPT !.buf = SubSeq(@, w.pos + 1, Len(@)), !.pos = 0, !.cap = @ - w.pos]

\* w with the consumed prefix released: rp.buf = rp.buf[rp.pos:].
Discarded(w) ==
  [buf      |-> SubSeq(w.buf, w.pos + 1, Len(w.buf)),
   bufStart |-> w.bufStart + w.pos,
   pos      |-> 0,
   cap      |-> w.cap - w.pos]

\* Mutant of Received: the allocation doubles.
ReceivedDoubling(w, n) ==
  [buf      |-> w.buf \o SubSeq(stream, served + 1, served + n),
   bufStart |-> w.bufStart,
   pos      |-> w.pos,
   cap      |-> IF w.cap - Len(w.buf) < ReadSize
                THEN 2 * (Len(w.buf) + ReadSize) ELSE w.cap]

\* w with n more bytes of the stream at its end, reallocated when there is no
\* room for a full read.
Received(w, n) ==
  [buf      |-> w.buf \o SubSeq(stream, served + 1, served + n),
   bufStart |-> w.bufStart,
   pos      |-> w.pos,
   cap      |-> IF w.cap - Len(w.buf) < ReadSize
                THEN Len(w.buf) + ReadSize ELSE w.cap]

\* rp.pos++
Consumed(w) == [w EXCEPT !.pos = @ + 1]

\* The errors a Read of n bytes may carry: io.EOF only at the end of the
\* stream (possibly with the last bytes), any other failure at any time.
ReadOutcomes(n) ==
  {"none", "Fault"} \cup (IF served + n = Len(stream) THEN {"EOF"} ELSE {})

\* Mutant of AccountRead: the count of empty reads is not reset by data.
AccountReadNoReset(n, err) ==
  IF n > 0
  THEN readErr' = err /\ UNCHANGED emptyReads
  ELSE IF err # "none"
  THEN readErr' = err /\ UNCHANGED emptyReads
  ELSE /\ emptyReads' = emptyReads + 1
       /\ readErr' = IF emptyReads' >= MaxEmptyReads
                     THEN "NoProgress" ELSE "none"

\* The bookkeeping of readMore after rp.reader.Read returned (n, err).
AccountRead(n, err) ==
  IF n > 0
  THEN emptyReads' = 0 /\ readErr' = err
  ELSE IF err # "none"
  THEN readErr' = err /\ UNCHANGED emptyReads
  ELSE /\ emptyReads' = emptyReads + 1
       /\ readErr' = IF emptyReads' >= MaxEmptyReads
                     THEN "NoProgress" ELSE "none"

---------------------------------------------------------------------------
ConsumeByte == /\ Ready
               /\ win' = Consumed(win)
               /\ UNCHANGED <<stream, served, readErr, emptyReads>>

DiscardConsumed == /\ win' = Discarded(win)
                   /\ UNCHANGED <<stream, served, readErr, emptyReads>>

\* Mutant of Refill: the sticky error is not looked at before reading.
RefillAfterError(retain) ==
  /\ ~Ready
  /\ \E n \in 0 .. ReadSize :
       /\ served + n =< Len(stream)
       /\ win' = Received(IF retain THEN win ELSE Discarded(win), n)
       /\ served' = served + n
       /\ \E err \in ReadOutcomes(n) : AccountRead(n, err)
  /\ UNCHANGED stream

\* One turn of the loop of peekByte: the buffer is used up, so it is released
\* unless the caller retains a token in it, and one Read is made.
Refill(retain) ==
  /\ ~Ready
  /\ readErr = "none"
  /\ \E n \in 0 .. ReadSize :
       /\ served + n =< Len(stream)
       /\ win' = Received(IF retain THEN win ELSE Discarded(win), n)
       /\ served' = served + n
       /\ \E err \in ReadOutcomes(n) : AccountRead(n, err)
  /\ UNCHANGED stream

WindowNext == \/ ConsumeByte
              \/ DiscardConsumed
              \/ \E retain \in BOOLEAN : Refill(retain)

WindowSpec == WindowInit /\ [][WindowNext]_windowVars

---------------------------------------------------------------------------
\* Type correctness of the window, the reader and the error state.
WindowTypeOK ==
  /\ stream \in Seq(STRING)
  /\ served \in 0 .. Len(stream)
  /\ win \in [buf : Seq(STRING), bufStart : Nat, pos : Nat, cap : Nat]
  /\ readErr \in ReadErrors \cup {"none"}
  /\ emptyReads \in 0 .. MaxEmptyReads

\* The buffer is a window on the stream: whatever was released, retained,
\* reallocated or read in whatever chunks, buf holds exactly the bytes of the
\* stream from bufStart up to the last byte served (readMore, discardConsumed).
WindowIsStream ==
  /\ win.bufStart + Len(win.buf) = served
  /\ win.buf = SubSeq(stream, win.bufStart + 1, served)

\* Memory is bounded by what has been consumed since the last release plus one
\* read chunk: the unread suffix is at most one chunk (the comment in
\* captureValue) and so is the slack of the allocation.
WindowBounded ==
  /\ win.pos =< Len(win.buf)
  /\ Len(win.buf) =< win.cap
  /\ win.cap =< win.pos + ReadSize

\* The window gives a caller nothing but a cursor over the stream.
Cursor == INSTANCE ByteStream WITH
            cursor  <- win.bufStart + win.pos,
            fetched <- served,
            next    <- IF win.pos < Len(win.buf)
                       THEN win.buf[win.pos + 1] ELSE NoByte,
            ended   <- readErr

\* Refinement: every window step is a step of the lazy byte stream or hidden.
CursorSpec == Cursor!Spec
=============================================================================
