--------------------------- MODULE ReaderHistory ---------------------------
(***************************************************************************)
(* ReaderParser with two history variables, which record what its          *)
(* documentation speaks of and no field of the struct holds: how many      *)
(* reads in a row have returned nothing, and how long the longest token    *)
(* was that had to be kept whole.                                          *)
(***************************************************************************)
EXTENDS ReaderParser

VARIABLES drought,      \* reads since the last byte arrived
          longest       \* the most bytes a retained token has had so far

historyVars == <<vars, drought, longest>>

\* A step that is a Read, and one that returns nothing.
Reads == served' # served \/ <<readErr', emptyReads'>> # <<readErr, emptyReads>>
Empty == served' = served

\* The part of the token being retained that has been consumed.
Retained == IF pc \in {"scan", "scanned"} /\ scan.retain
            THEN win.pos - scan.start ELSE 0

HistoryInit == Init /\ drought = 0 /\ longest = 0

HistoryNext ==
  /\ Next
  /\ drought' = CASE ~Reads         -> drought
                  [] Reads /\ Empty -> drought + 1
                  [] OTHER          -> 0
  /\ longest' = IF Retained' > longest THEN Retained' ELSE longest

HistorySpec == HistoryInit /\ [][HistoryNext]_historyVars

---------------------------------------------------------------------------
\* io.ErrNoProgress is reported after exactly maxConsecutiveEmptyReads reads
\* in a row that returned nothing, never for empty reads that a byte separates
\* and never later (readMore).
GivesUpOnlyWhenStarved ==
  /\ readErr = "NoProgress" => drought = MaxEmptyReads
  /\ readErr = "none" => drought < MaxEmptyReads

\* "Memory use is bounded by the largest element plus the sliding read window"
\* (ArrayEach's comment): the buffer is never larger than the longest token
\* retained so far, a key or the value a call returns or reports, and one read
\* chunk.  What is skipped leaves no trace in it.
MemoryIsBounded == win.cap =< longest + ReadSize
=============================================================================
