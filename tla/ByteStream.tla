---------------------------- MODULE ByteStream ----------------------------
(***************************************************************************)
(* What ReaderParser needs from its sliding window, with no buffer in it:  *)
(* a cursor over the bytes of a stream that is read lazily.  `next` is the *)
(* byte a peek returns.  Bytes are fetched only when the cursor has used   *)
(* all the earlier ones, at most ReadSize at a time, and once the stream   *)
(* has ended - for whatever reason - nothing more is ever fetched, though  *)
(* the bytes already fetched can still be consumed.                        *)
(***************************************************************************)
EXTENDS Integers, Sequences

CONSTANTS ReadSize,      \* the most bytes one Read may return
          NoByte         \* what `next` is when a peek would have to read

VARIABLES stream,        \* the bytes the reader will produce
          cursor,        \* how many of them the parser has consumed
          fetched,       \* how many of them the reader has handed over
          next,          \* the byte at the cursor, if it has been fetched
          ended          \* "none" or the reason why reading stopped

vars == <<stream, cursor, fetched, next, ended>>

ByteAt(c, f) == IF c < f THEN stream[c + 1] ELSE NoByte

Init == /\ cursor = 0
        /\ fetched = 0
        /\ next = NoByte
        /\ ended = "none"

\* The parser consumes the byte it has peeked at.
Advance == /\ cursor < fetched
           /\ cursor' = cursor + 1
           /\ next' = ByteAt(cursor', fetched)
           /\ UNCHANGED <<stream, fetched, ended>>

\* A Read: perhaps some bytes, perhaps the end of the stream, perhaps neither.
Fetch == /\ cursor = fetched
         /\ ended = "none"
         /\ fetched' \in fetched .. fetched + ReadSize
         /\ fetched' =< Len(stream)
         /\ next' = ByteAt(cursor, fetched')
         /\ ended' \in {"none", "EOF", "Fault", "NoProgress"}
         /\ (ended' = "EOF" => fetched' = Len(stream))
         /\ (ended' = "NoProgress" => fetched' = fetched)
         /\ UNCHANGED <<stream, cursor>>

Next == Advance \/ Fetch

Spec == Init /\ [][Next]_vars
=============================================================================
