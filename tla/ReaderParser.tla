--------------------------- MODULE ReaderParser ---------------------------
(***************************************************************************)
(* ReaderParser.Get, GetString and ArrayEach (reader_parser.go): a         *)
(* recursive-descent lookup that runs over the sliding window and must     *)
(* give the same answer however the reader chops the stream.  The call     *)
(* stack is `frames` (one record per container being searched) and pc; a   *)
(* scan of one value - string, composite or scalar - is the record `scan`. *)
(* Every peekByte is a point where the reader may have to be asked for     *)
(* more, may end or may fail: that is Refill and ReadFails, once, for all  *)
(* program points.                                                         *)
(***************************************************************************)
EXTENDS ReaderWindow, JsonText

VARIABLES op,           \* "Get", "GetString" or "ArrayEach"
          path,         \* the key path of the getters
          pc,           \* the program point
          frames,       \* the containers entered: [kind, index]
          scan,         \* the value being scanned
          matched,      \* readObjectKey's answer
          delivered,    \* what ArrayEach's callback has been given
          result        \* what the call returned

control == <<op, path, pc, frames, scan, matched, delivered, result>>
vars == <<windowVars, control>>

NoScan == [why |-> "none", retain |-> FALSE, start |-> 0, kind |-> "none",
           quote |-> NoQuote, escaped |-> FALSE, stack |-> <<>>,
           consumed |-> FALSE]

NoResult == [err |-> "none", value |-> <<>>, type |-> "NotExist"]

ArrayFrame == [kind |-> "array", index |-> 0]
ObjectFrame == [kind |-> "object", index |-> 0]

Init == /\ WindowInit
        /\ op \in {"Get", "GetString", "ArrayEach"}
        /\ path \in Seq(Seq(STRING))
        /\ pc = "check"
        /\ frames = <<>>
        /\ scan = NoScan
        /\ matched = FALSE
        /\ delivered = <<>>
        /\ result = NoResult

---------------------------------------------------------------------------
\* The points whose peekByte is inside a skipWhitespace.
SkipsBlanks == {"start", "value", "capture", "skip", "colon", "firstPart",
                "afterPart", "nextPart"}

At(point) == pc = point /\ Ready /\ (point \in SkipsBlanks => Here \notin Blank)

Stay == UNCHANGED windowVars

Frame == frames[Len(frames)]
Outer == SubSeq(frames, 1, Len(frames) - 1)
Closing == IF Frame.kind = "object" THEN "}" ELSE "]"
MalformedPart == IF Frame.kind = "object" THEN "MalformedObject"
                 ELSE "MalformedArray"

Goto(point) == /\ pc' = point
               /\ UNCHANGED <<op, path, frames, scan, matched, delivered, result>>

Finish(err, value, type) ==
  /\ pc' = "done"
  /\ result' = [err |-> err, value |-> value, type |-> type]
  /\ UNCHANGED <<op, path, frames, scan, matched>>

\* An error ends the call.  ArrayEach reports the ones of captureValue to the
\* callback first.
Capturing == pc = "capture" \/ (pc = "scan" /\ scan.why = "value")
Fail(err) ==
  /\ Finish(err, <<>>, "NotExist")
  /\ delivered' = IF op = "ArrayEach" /\ Capturing
                  THEN Append(delivered, [err |-> err, value |-> <<>>])
                  ELSE delivered

\* Nothing found in the value just consumed: the container around it goes on.
NotFoundHere(outer) ==
  IF outer = <<>>
  THEN Finish("KeyPathNotFound", <<>>, "NotExist") /\ UNCHANGED delivered
  ELSE /\ pc' = "afterPart"
       /\ frames' = outer
       /\ UNCHANGED <<op, path, scan, matched, delivered, result>>

\* start := rp.pos, and on to scanValue or scanString.
BeginScan(why, retain) ==
  /\ pc' = "scan"
  /\ scan' = [NoScan EXCEPT !.why = why, !.retain = retain, !.start = win'.pos]
  /\ UNCHANGED <<op, path, frames, matched, delivered, result>>

---------------------------------------------------------------------------
\* Get refuses an empty component before it reads anything.
CheckPath ==
  /\ pc = "check"
  /\ IF op # "ArrayEach" /\ \E n \in 1 .. Len(path) : path[n] = <<>>
     THEN Fail("KeyPathNotFound") ELSE Goto("start")
  /\ Stay

SkipBlank == /\ pc \in SkipsBlanks /\ Ready /\ Here \in Blank
             /\ ConsumeByte
             /\ UNCHANGED control

StartGet == /\ At("start") /\ op # "ArrayEach"
            /\ Goto(IF path = <<>> THEN "capture" ELSE "value")
            /\ Stay

StartArrayEach ==
  /\ At("start") /\ op = "ArrayEach"
  /\ IF Here = "["
     THEN /\ ConsumeByte
          /\ pc' = "firstPart" /\ frames' = <<ArrayFrame>>
          /\ UNCHANGED <<op, path, scan, matched, delivered, result>>
     ELSE Fail("MalformedArray") /\ Stay

\* findValue: the value at the cursor against path[Len(frames) + 1 ..].
ReaderIndex(key) == IsIndex(key) /\ Index(key) >= 0

Enters == \/ Here = "{"
          \/ Here = "[" /\ ReaderIndex(path[Len(frames) + 1])

FindValue ==
  /\ At("value")
  /\ IF Len(frames) = Len(path) THEN Goto("capture") /\ Stay
     ELSE IF Enters
     THEN /\ ConsumeByte
          /\ pc' = "firstPart"
          /\ frames' = Append(frames, IF Here = "{" THEN ObjectFrame
                                      ELSE ArrayFrame)
          /\ UNCHANGED <<op, path, scan, matched, delivered, result>>
     ELSE Goto("skip") /\ Stay

\* The next member (its key) or element (resolved, skipped or delivered).
BeginPart(index) ==
  /\ pc' = IF Frame.kind = "object" THEN "key"
           ELSE IF op = "ArrayEach" THEN "capture"
           ELSE IF index = Index(path[Len(frames)]) THEN "value"
           ELSE "skip"
  /\ frames' = Append(Outer, [Frame EXCEPT !.index = index])
  /\ UNCHANGED <<op, path, scan, matched, delivered, result>>

EndContainer ==
  IF op = "ArrayEach" THEN Finish("none", <<>>, "Array") /\ UNCHANGED delivered
  ELSE NotFoundHere(Outer)

FirstPart == /\ At("firstPart")
             /\ IF Here = Closing
                THEN ConsumeByte /\ EndContainer
                ELSE Stay /\ BeginPart(0)

AfterPart ==
  /\ At("afterPart")
  /\ CASE Here = Closing -> ConsumeByte /\ EndContainer
       [] Here = ","     -> ConsumeByte /\ Goto("nextPart")
       [] OTHER          -> Stay /\ Fail(MalformedPart)

NextPart == /\ At("nextPart")
            /\ IF Here = Closing THEN Fail(MalformedPart)
               ELSE BeginPart(Frame.index + 1)
            /\ Stay

\* readObjectKey: release everything before the key, then retain it.
ReadObjectKey ==
  /\ At("key")
  /\ IF Here \in Quotes
     THEN DiscardConsumed /\ BeginScan("key", TRUE)
     ELSE Stay /\ Fail("MalformedJson")

Token == SubSeq(win.buf, scan.start + 1, win.pos)

CompareKey ==
  /\ pc = "scanned" /\ scan.why = "key"
  /\ LET text == Unescape(SubSeq(Token, 2, Len(Token) - 1))
     IN  IF text = BadText THEN Fail("MalformedStringEscape")
         ELSE /\ matched' = (text = path[Len(frames)])
              /\ pc' = "colon"
              /\ UNCHANGED <<op, path, frames, scan, delivered, result>>
  /\ Stay

Colon == /\ At("colon")
         /\ IF Here = ":"
            THEN ConsumeByte /\ Goto(IF matched THEN "value" ELSE "skip")
            ELSE Stay /\ Fail("MalformedJson")

\* captureValue: release everything before the value, then retain it.
CaptureValue == /\ At("capture")
                /\ DiscardConsumed
                /\ BeginScan("value", TRUE)

\* Mutant of SkipValue: what is skipped is retained as well.
SkipValueRetained == /\ At("skip")
                     /\ Stay
                     /\ BeginScan("skip", TRUE)

SkipValue == /\ At("skip")
             /\ Stay
             /\ BeginScan("skip", FALSE)

---------------------------------------------------------------------------
Delimiter(b) == b \in Blank \cup {",", "}", "]"}

ClosingDelimiter(b) == IF b = "[" THEN "]" ELSE "}"

\* scanValue: what the first byte says the value is.
ScanValue ==
  /\ At("scan") /\ scan.kind = "none"
  /\ scan' = CASE Here \in Quotes ->
                    [scan EXCEPT !.kind = "string", !.quote = Here]
               [] Here \in {"{", "["} ->
                    [scan EXCEPT !.kind = Here,
                                 !.stack = <<ClosingDelimiter(Here)>>]
               [] OTHER -> [scan EXCEPT !.kind = "scalar"]
  /\ IF Here \in Quotes \cup {"{", "["} THEN ConsumeByte ELSE Stay
  /\ UNCHANGED <<op, path, pc, frames, matched, delivered, result>>

\* scanString, of a value, a key or inside a composite.
ScanString ==
  /\ At("scan") /\ scan.quote # NoQuote
  /\ LET closes == ~scan.escaped /\ Here = scan.quote
     IN  /\ scan' = [scan EXCEPT
                       !.escaped = ~scan.escaped /\ Here = Backslash,
                       !.quote = IF closes THEN NoQuote ELSE @]
         /\ pc' = IF closes /\ scan.stack = <<>> THEN "scanned" ELSE "scan"
  /\ ConsumeByte
  /\ UNCHANGED <<op, path, frames, matched, delivered, result>>

\* Mutant of ScanComposite: brackets inside strings are counted.
ScanCompositeNoStrings ==
  /\ At("scan") /\ scan.stack # <<>> /\ scan.quote = NoQuote
  /\ LET top == scan.stack[Len(scan.stack)]
         below == SubSeq(scan.stack, 1, Len(scan.stack) - 1)
     IN  IF Here \in {"}", "]"} /\ Here # top
         THEN Stay /\ Fail("MalformedJson")
         ELSE /\ ConsumeByte
              /\ scan' = CASE Here \in {"{", "["} ->
                                [scan EXCEPT !.stack =
                                   Append(@, ClosingDelimiter(Here))]
                           [] Here = top -> [scan EXCEPT !.stack = below]
                           [] OTHER -> scan
              /\ pc' = IF Here = top /\ below = <<>> THEN "scanned" ELSE "scan"
              /\ UNCHANGED <<op, path, frames, matched, delivered, result>>

\* Mutant of ScanComposite: only the bytes the switch names are passed over.
ScanCompositeStalls ==
  /\ At("scan") /\ scan.stack # <<>> /\ scan.quote = NoQuote
  /\ LET top == scan.stack[Len(scan.stack)]
         below == SubSeq(scan.stack, 1, Len(scan.stack) - 1)
     IN  IF Here \in {"}", "]"} /\ Here # top
         THEN Stay /\ Fail("MalformedJson")
         ELSE /\ IF Here \in Quotes \cup {"{", "}", "[", "]"}
                 THEN ConsumeByte ELSE Stay
              /\ scan' = CASE Here \in Quotes -> [scan EXCEPT !.quote = Here]
                           [] Here \in {"{", "["} ->
                                [scan EXCEPT !.stack =
                                   Append(@, ClosingDelimiter(Here))]
                           [] Here = top -> [scan EXCEPT !.stack = below]
                           [] OTHER -> scan
              /\ pc' = IF Here = top /\ below = <<>> THEN "scanned" ELSE "scan"
              /\ UNCHANGED <<op, path, frames, matched, delivered, result>>

\* scanComposite: brackets of both kinds must match; only their stack is kept.
ScanComposite ==
  /\ At("scan") /\ scan.stack # <<>> /\ scan.quote = NoQuote
  /\ LET top == scan.stack[Len(scan.stack)]
         below == SubSeq(scan.stack, 1, Len(scan.stack) - 1)
     IN  IF Here \in {"}", "]"} /\ Here # top
         THEN Stay /\ Fail("MalformedJson")
         ELSE /\ ConsumeByte
              /\ scan' = CASE Here \in Quotes -> [scan EXCEPT !.quote = Here]
                           [] Here \in {"{", "["} ->
                                [scan EXCEPT !.stack =
                                   Append(@, ClosingDelimiter(Here))]
                           [] Here = top -> [scan EXCEPT !.stack = below]
                           [] OTHER -> scan
              /\ pc' = IF Here = top /\ below = <<>> THEN "scanned" ELSE "scan"
              /\ UNCHANGED <<op, path, frames, matched, delivered, result>>

\* scanScalar: up to a delimiter, which is left for the caller.
ScanScalar ==
  /\ At("scan") /\ scan.kind = "scalar"
  /\ CASE ~Delimiter(Here) ->
            /\ ConsumeByte
            /\ scan' = [scan EXCEPT !.consumed = TRUE]
            /\ UNCHANGED <<op, path, pc, frames, matched, delivered, result>>
       [] Delimiter(Here) /\ scan.consumed -> Stay /\ Goto("scanned")
       [] OTHER -> Stay /\ Fail("MalformedJson")

\* The value captured is classified by the in-memory Get.
Classified == ClosestValue(Token, 1, Len(Token) + 1)
Value == Text(Token, Classified.window[1], Classified.window[2])

\* What GetString makes of a value that Get has classified.
Decoded(type, value) ==
  CASE type = "Null"                    -> [err |-> "NullValue", value |-> <<>>]
    [] type \notin {"Null", "String"}   -> [err |-> "WrongType", value |-> <<>>]
    [] type = "String" /\ Unescape(value) = BadText ->
         [err |-> "MalformedValue", value |-> <<>>]
    [] OTHER -> [err |-> "none", value |-> Unescape(value)]

ReturnValue ==
  /\ pc = "scanned" /\ scan.why = "value" /\ op # "ArrayEach"
  /\ IF op = "Get" \/ Classified.err # "none"
     THEN Finish(Classified.err, Value, Classified.type)
     ELSE Finish(Decoded(Classified.type, Value).err,
                 Decoded(Classified.type, Value).value, Classified.type)
  /\ UNCHANGED delivered
  /\ Stay

DeliverElement ==
  /\ pc = "scanned" /\ scan.why = "value" /\ op = "ArrayEach"
  /\ delivered' = Append(delivered, [err |-> Classified.err, value |-> Value])
  /\ IF Classified.err = "none"
     THEN /\ pc' = "afterPart"
          /\ UNCHANGED <<op, path, frames, scan, matched, result>>
     ELSE Finish(Classified.err, <<>>, "NotExist")
  /\ Stay

ValueSkipped == /\ pc = "scanned" /\ scan.why = "skip"
                /\ NotFoundHere(frames)
                /\ Stay

---------------------------------------------------------------------------
\* peekByte with the buffer used up.
NeedsByte == pc \in SkipsBlanks \cup {"key", "scan"} /\ ~Ready

\* Mutant of Retains: peekByte(false) while a token is being retained.
RetainsNothing == FALSE

Retains == pc = "scan" /\ scan.retain

ReadMore == /\ NeedsByte
            /\ Refill(Retains)
            /\ UNCHANGED control

\* Mutant of EOFError: the end inside a container means the value is absent.
EOFErrorAbsent ==
  IF pc \in {"firstPart", "afterPart", "nextPart"} THEN "KeyPathNotFound"
  ELSE "MalformedJson"

\* What io.EOF is turned into, by where it is met.
EOFError ==
  CASE pc = "start"  -> IF op = "ArrayEach" THEN "MalformedObject"
                        ELSE "KeyPathNotFound"
    [] pc \in {"firstPart", "afterPart", "nextPart"} -> MalformedPart
    [] pc = "scan" /\ scan.quote # NoQuote -> "MalformedString"
    [] pc = "scan" /\ scan.kind = "[" -> "MalformedArray"
    [] pc = "scan" /\ scan.kind = "{" -> "MalformedObject"
    [] OTHER -> "MalformedJson"

\* Mutant of ReadFails: a failure is taken for the end of the stream.
ReadFailsAsEnd ==
  /\ NeedsByte /\ readErr # "none"
  /\ IF pc = "scan" /\ scan.consumed THEN Goto("scanned") ELSE Fail(EOFError)
  /\ IF Retains THEN Stay ELSE DiscardConsumed

\* readErr is met: the end of the stream ends a scalar; any other failure is
\* returned as it is.
ReadFails ==
  /\ NeedsByte /\ readErr # "none"
  /\ IF readErr = "EOF" /\ pc = "scan" /\ scan.consumed THEN Goto("scanned")
     ELSE Fail(IF readErr = "EOF" THEN EOFError ELSE readErr)
  /\ IF Retains THEN Stay ELSE DiscardConsumed

Next == \/ CheckPath \/ SkipBlank \/ StartGet \/ StartArrayEach
        \/ FindValue \/ FirstPart \/ AfterPart \/ NextPart
        \/ ReadObjectKey \/ CompareKey \/ Colon
        \/ CaptureValue \/ SkipValue
        \/ ScanValue \/ ScanString \/ ScanComposite \/ ScanScalar
        \/ ReturnValue \/ DeliverElement \/ ValueSkipped
        \/ ReadMore \/ ReadFails

Spec == Init /\ [][Next]_vars /\ WF_vars(Next)

---------------------------------------------------------------------------
\* A token that is being retained keeps its place in the stream: however the
\* window slides, reallocates and grows, rp.buf[start:rp.pos] still begins at
\* the byte it began at.  (A key or value that spans any number of reads would
\* otherwise be returned shifted.)
TokenStays ==
  [][pc = "scan" /\ scan.retain /\ pc' \in {"scan", "scanned"} =>
       win'.bufStart + scan'.start = win.bufStart + scan.start]_vars

\* And it is whole: at the moment it is used it is exactly the bytes of the
\* stream between its start and the cursor.
TokenIsStream ==
  pc = "scanned" /\ scan.retain =>
    Token = SubSeq(stream, win.bufStart + scan.start + 1,
                   win.bufStart + win.pos)
=============================================================================
