--------------------------- MODULE ReaderChunking ---------------------------
(***************************************************************************)
(* The same call with the whole stream in its buffer: the state of         *)
(* ReaderParser, mapped to that of a ReaderParser which has read           *)
(* everything there is and met io.EOF before it looks at the first byte.   *)
(* Its reader has nothing left to decide, so its run is determined by the  *)
(* stream.  The two share everything but the window.                       *)
(***************************************************************************)
EXTENDS ReaderParser

\* The window on the stream as the reader would fill it.
WholeWin == [buf      |-> SubSeq(stream, win.bufStart + 1, Len(stream)),
             bufStart |-> win.bufStart,
             pos      |-> win.pos,
             cap      |-> Len(stream) - win.bufStart]

Whole == INSTANCE ReaderParser WITH
           win        <- WholeWin,
           served     <- Len(stream),
           readErr    <- "EOF",
           emptyReads <- 0

\* The points where peekByte is called.
Peeks == pc \in SkipsBlanks \cup {"key", "scan"}

\* Whether the token being scanned will be used.
Keeps == pc = "scan" /\ scan.retain

\* The window slides over bytes that have been consumed, between two steps of
\* the call and never over a token it keeps.
Slides == /\ Peeks /\ ~Keeps
          /\ Whole!DiscardConsumed
          /\ UNCHANGED control

\* The call ends with what the reader failed with.
GivesUp == /\ Peeks /\ readErr \in ReadErrors \ {"EOF"}
           /\ Whole!Fail(readErr)
           /\ IF Keeps THEN Whole!Stay ELSE Whole!DiscardConsumed

\* How the reader chops the stream is invisible: on any bytes, well formed or
\* not, every step is one the call makes with the whole stream in its buffer -
\* the same byte, the same token, the same report to ArrayEach's callback, the
\* same error - or slides the window, or ends the call with the reader's own
\* error.  No byte is seen twice or missed at a read boundary, a token that
\* spans any number of reads is whole, and the end of the stream is only met
\* where it is (peekByte, readMore).
ChunkingIsInvisible == [][Whole!Next \/ Slides \/ GivesUp]_(Whole!vars)
=============================================================================
