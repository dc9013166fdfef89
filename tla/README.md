# jsonparser, modelled

A verification project for the Go package `jsonparser`: TLA+ modules for its
core, TLC runs over small instances, and TLAPS proofs for every instance.

## 1. The system

The package finds, iterates and edits values in JSON text without building a
tree. Everything is a scan over bytes; there are no goroutines. What makes it
hard is that the scans are permissive (they accept text that is not JSON), keep
their position and nesting in a few integers, use -1 as a value of the same
type as an offset, and - in the streaming parser - run over a buffer that
slides, is reallocated and ends or fails at any byte.

| component | source | state | operations | interacts with |
|---|---|---|---|---|
| token scanners | `parser.go` | none | `nextToken`, `tokenEnd`, `stringEnd`, `blockEnd`, `getType` | used by everything |
| path search, `Get` | `parser.go` | `i`, `level`, `keyLevel`, `lastMatched` | `searchKeys`, `internalGet` | calls `arrayEach` with a callback, and itself on the element found |
| in-memory iteration | `parser.go`, `aliases.go` | offset, element count | `ArrayEach(Err)`, `ObjectEach` | caller's callback; `searchKeys`, `Get` |
| editing | `parser.go`, `append.go` | the document | `Set`, `Delete`, `Append` | `Get`, `findKeyStart`, `createInsertComponent` |
| multi-path lookup | `parser.go` | `level`, `pathFlags`, `pathsBuf` | `EachKey(Err)` | `ArrayEach`, `searchKeys`, callback |
| container lengths | `parser.go` | delimiter stack, state, count | `GetArrayLen`, `GetObjectLen` | `searchKeys` |
| wildcards | `wildcard.go` | match counter, paths | `EachKeyWildcard`, `SetWildcard`, `ArrayEachWildcard` | `Get`, `ArrayEachErr`, `Set` |
| escapes | `escape.go` | output buffer | `Unescape`, `Escape`, `decodeUnicodeEscape` | key comparison, `GetString` |
| numbers, literals | `parser.go`, `bytes*.go` | none | `parseInt`, `ParseBoolean`, typed getters | `Get` |
| path expressions | `path_compiler.go` | none | `ParsePath`, `CompilePath` | `Get`, `Set`, ... |
| configuration | `config.go` | two lenient flags, a buffer size | `Config` methods | all the above |
| sliding read window | `reader_parser.go` | `buf`, `bufStart`, `pos`, `readErr`, `emptyReads` | `peekByte`, `readMore`, `discardConsumed` | `io.Reader` |
| `ReaderParser` | `reader_parser.go` | the call stack, a retained token | `Get`, `GetString`, `ArrayEach` | the window; `Config.Get` on what it captures; callback |

What makes each correct: scanners never leave their text and find the delimiter
that really closes; `Get` returns the value the path addresses, or not-found
exactly when there is none, and never a wrong value for damaged input;
iteration delivers each element once and in order; an edit changes what it
addresses and leaves a document; `EachKey` agrees with one `Get` per path; the
window is a faithful, bounded view of the stream; `ReaderParser` gives the same
answer in every chunking and shows every failure.

The hazards - where the code could go wrong in a way a test would hardly
reach - are listed with their lines in `PROJECT.json`. In short: read boundaries
inside tokens, a retained token under a sliding buffer, data and error in one
`Read`, stalled readers, end of input at every program point, counters that
outlive their scope, unguarded indexing with sentinels, unterminated tokens
inside arrays, and scans that step back.

## 2. The modules

| module | what it is |
|---|---|
| `ByteStream` | abstract specification: a cursor over a lazily read stream, no buffer |
| `ReaderWindow` | the window of `ReaderParser` and its reader; `Cursor` maps it to `ByteStream` |
| `JsonText` | bytes, the token scanners, unescaping of keys, index components, `getType` and `internalGet` without a path, as operators |
| `SearchKeys` | `Get` with a path: `searchKeys`, one action per case of its switch, with the `arrayEach` loop and the recursive call |
| `ReaderParser` | `Get`, `GetString` and `ArrayEach` of the streaming parser over `ReaderWindow`; extends `JsonText` for the final classification |
| `ReaderHistory` | `ReaderParser` with what its documentation speaks of and it does not store: empty reads in a row, the longest token kept |
| `ReaderChunking` | `ReaderParser` refined by itself: the same call with the whole stream in its buffer |
| `Lookup` | `Get` as a recursive function of the text, for what is built on it |
| `SearchLookup` | `SearchKeys` beside `Lookup`, on a text and on what it was cut from |
| `Edit` | `Set`, `Delete`, `Append`: each call decides on one splice of the text, on top of `Lookup` |
| `Callback` | what the functions that report to a callback share: the data, the reports made, the callback's answers |
| `EachKey` | `EachKey` and `EachKeyErr`: one scan for several paths; extends `Callback` and so `Lookup` |
| `Iterate` | `ArrayEach(Err)`, `ArrayEachWildcard`, `ObjectEach` |
| `ContainerLen` | `GetArrayLen` and `GetObjectLen` |
| `IterateLength` | a container iterated and then measured: `Iterate` and `ContainerLen` on one text |
| `FanOut` | `EachKeyWildcard` and `SetWildcard`; uses `Edit` for `Set` |
| `PathCompiler` | `ParsePath` |
| `Numbers` | `parseInt` with integers of any width, `GetUint64` on top of it |
| `Escapes` | the decoder of escapes with its buffer, and `Escape` |
| `TypedGet` | composes `PathCompiler`, `Lookup`, `Numbers` and `Escapes`: the typed getters through a compiled path |
| `JsonTree` | the reference: JSON values as trees, their text and how it is parsed, the places a path addresses (TLC only) |
| `TreeStore` | abstract specification of editing: the document is a tree, each call changes it at its path (TLC only) |
| `EditDocuments`, `TokenTexts` | the documents and the arbitrary texts of the runs |
| `MC*` | instances for TLC; their properties compare a run with the reference |
| `*Proofs` | the theorems and their proofs |

Conventions. A byte is named by its character; `nl` stands for `\n`, `\r` and
`\t`; the literals `true`, `false`, `null` are the single bytes `t`, `f`, `n`.
Positions count from 1, windows are half open, `None` (0) is the code's -1.
Slices are windows of one text, so an offset in the model is an offset in the
caller's data. `stringEnd`'s word-at-a-time skip and the fast skips of the two
scan loops are modelled by what they find.

`SearchKeys`: `pc = "scan"` is the loop of `searchKeys`; `HopelessString`,
`ValueString`, `OtherKey` and `MatchingKey` are the quote case; `OpenBrace`,
`SkipObject`, `CloseBrace`, `SkipArray`, `EnterArray`, `StrayColon`, `SkipByte`
the others. `pc = "array"` is `arrayEach` run for an index component, one turn
per `NextElement`; `SearchElement` is the recursive call, which is a restart on
the window `[lo, hi)` of the element. `Locate` is the rest of `internalGet`.

`Lookup`: a record of `Scans` is the local variables of `searchKeys`, `StepScan` one turn
of its loop, and `found` the rest of it; a recursive call on an element is a new
record. These are recursive functions, not RECURSIVE operators, which a module
with proofs cannot use.

`Edit`: `document` is the caller's data, replaced by what the call returns. A call
is one action, because nothing can come between its steps; what the code does
is in the operators. What `Get` finds is passed on to the
operator that decides (`SetAt`, `AppendAt`, `DeleteFound`). `Delete` is
`DeleteElement` or `DeleteMember`, by the two
branches of `deleteFoundConfig`; the second starts at `FindKeyStart`, where
`StringsMet` is the scan of `findKeyStart`, and `Wanted` the component as it reads
at each of its strings: unescaped, it shares the bytes of `stackbuf` with the strings
unescaped after it. Both branches end in the same handling of commas,
`Trim`, whose second and third comma tests are one here (a comma right after
the value is the next token). `SetAt` is `SetAtRoot`, `SetBelow` or a replacement;
what they insert is written to a buffer of the size `calcAllocateSpace` says,
and a byte not written stays a zero byte (`Buffered`), so a wrong size shows in
the document.

`ReaderParser`: the Go call stack is `frames` (one record per container being
searched) and `pc`. Each `pc` is a point where a byte is peeked at; the eight in
`SkipsBlanks` lie behind a `skipWhitespace`. `scan` is the activation of
`scanValue` with the scanner it chose: the quote it is in, the delimiter stack
of `scanComposite`, and `consumed` of `scanScalar`. That the buffer is used up
at a peek is one pair of actions for all points, `ReadMore` and `ReadFails`;
`EOFError` says what each point makes of `io.EOF`.

`ReaderHistory` adds `drought` and `longest`. `ReaderChunking` has no variables:
`WholeWin` is the window as it would be had the reader delivered everything
before the first peek, and `Whole` the parser on it.

`ReaderWindow`: `Discarded`, `Received` and `AccountRead` are `discardConsumed`,
the growth and the bookkeeping of `readMore`; `Refill(retain)` is one turn of the
loop of `peekByte`. The reader returns any number of bytes up to the room given,
with or without an error, `io.EOF` only at the end.

`EachKey`: `pc = "scan"` is the loop over the bytes; `ReadKey` records the key in
`pathsBuf` and collects the paths it completes in `due`, `ReportKey` answers
them one by one, as the loop over `paths` does. `EnterArray`, `NextElement` and
`AfterElement` are `arrayEach`, `LookInside` and `ReportElement` its callback.
`EachKeyErr` is the same text with `return`s where the callback answers with an
error: with a callback that always answers "go on" the model is `EachKey`. The
callback's answer is `verdict`.

`Iterate`: `StartArrayEach` and `StartObjectEach` are the checks and the search in
front of the loop, `OpenArray` and `OpenObject` the bracket, `NextElement` and
`NextMember` a turn up to the callback, `AfterElement` and `AfterMember` the rest
of it. `ContainerLen`: `state` is the code's, without the prefixes
`scanArray` and `scanObject`; one action per state, `ScanNested` for the first test of
the loop. `FanOut`: the recursion of `eachKeyWildcard` and
`expandWildcardPaths` is `arrays`, one record per loop of `ArrayEachErr`; `here`
is the call being made. `Locate` and `ResolveValue` or `EnterArray` are the two
halves of its `Get`. `SetNext` is one `Set` of the loop in `SetWildcard`.

`Numbers`: the widths are constants (`Half` is `absMinInt64`, `FastDigits` the 19
of the code), `%` is the wraparound; `exact` is the value the code does not
have, of the digits read so far. `ReadUnsigned` is `strconv.ParseUint`, which is
external. `Escapes`: the decoded text is a sequence of code points and `room` counts
bytes; `ReadUnicode` and `WriteUnicode` are the two halves of the `u` case. Its
alphabet has no capital letters, so neither have its hex digits.
`PathCompiler`: `expression` loses its root first, `place` is `pos`; one action per
case of the switch and one per bracket.

## 3. The runs

| run | asks | bounds |
|---|---|---|
| `search` | does `Get` return the first place the path addresses; cut at any byte, is what is returned still what the whole text gives | trees up to depth 3 with one or two parts, an escaped key, leaves that look like keys and brackets, with and without blanks; all paths up to 3 components over two names and two indices, with an odd index form at the end up to 2; the flat trees and a family of three levels also cut at every byte |
| `search_malformed` | are all indices and slices in range on text that is not JSON; does the call return; does `Lookup` agree | lenient; 7 stems, up to 3 further tokens out of 10, 6 paths |
| `reader` | is the window the stream and a byte cursor, no longer than a token and a read; is a token kept only where it is needed; right value, real absence, ordered elements, visible failures, in every chunking; is a stalled reader given up exactly when it should; does every call return | 14 documents and 13 queries whole, 4 documents and 5 queries cut at every byte; reads up to 2 bytes, 2 empty reads; single quotes allowed |
| `reader_chunking` | is chopping invisible, on any bytes | 6 stems, up to 2 tokens out of 9, 5 calls; step by step against the call with everything in its buffer |
| `edit` | is the document, after any calls, the text of the tree the same calls make, with the same replies; are splices in range and is what was set read back, on any text; on a document cut at every byte, is the splice still the one of the whole document | 21 documents, with and without blanks, 14 paths, 2 values; 2 calls on whole documents, 1 on cut ones and on the texts of `search_malformed` |
| `each_key` | is each path answered once, by what one `Get` would find; does a stop take effect at once; does the scan end | 17 documents, all pairs of 14 paths and 7 lists of two or three; the lists also on every cut; 3 lists on the texts of `search_malformed`; the callback may stop at every report |
| `iteration` | parts in order, up to the stop or the damage; is the length the number of parts, on any text; is every wildcard match reported, or set | 14 documents with 5 paths and 10 with 9 wildcard paths, cut at every byte, with and without blanks; the texts of `search_malformed` and scalars that are almost numbers |
| `typed_get` | is no integer wrong, no escape misread, no path expression misparsed; is the answer of a getter the value of the tree or the error in the way | 8-bit integers, literals up to 4 of 8 bytes; up to 3 of 13 escapes and letters and a cut one behind them; every expression up to 5 of 10 bytes; 15 leaves in 5 documents, 6 expressions, 5 getters |
| `search_scope`, `edit_key_backslash`, `each_key_string`, `wildcard_missing` | documented, refuted | the smallest that show it |

Why the bounds are enough. The window's behaviour depends on the position of a
read boundary relative to a token, not on sizes: reads of 1 or 2 bytes put a
boundary at every byte of every token, and a token spans several reads. The
scan of `searchKeys` distinguishes a level from its parent and its sibling;
depth 3 with two parts gives each counter a value that is stale, current and
not yet reached. The empty-read bound behaves the same for 2 and 100. What
`EachKey` adds is shared state: three paths are one that is answered, one that
shares its prefix and one that is still due. `parseInt` compares with numbers of its width
only: with 8 bits every boundary (99 and 100 for the change of loop, 127, 128,
255, 256, 259 and 260 around 10 * 25, 999) is within four bytes; the proof lifts
this to all widths. Three escapes in a row are a high half, what follows it and what
follows that.

Two calls are enough because a call reads nothing but the text: every document
of the family is a first call's input, and the second call sees the spacing
and the emptied containers the first leaves, which no rendering of a tree has.

In `MCEdit` the two systems step together: each step is a step of `Edit` and a
step of `TreeStore` with the same call, and the invariants say that the states
correspond. `TreeStore` has exactly one step for each call, so this is the
refinement of `TreeStore` under `tree <- Parsed(document)`, in the form TLC can
evaluate.

Checking for deadlock is off because a call ends (`pc = "done"`), and a window
whose reader has failed stops.

Fairness is `WF(Next)`: the program is sequential, nobody else can keep it from
taking its next step, and `Read` and the callback are assumed to return. In `each_key` it is
stated for arbitrary text only, where it is in question whether the scan ends. No fairness of the
reader's answers is assumed: `Returns` holds because the count of empty reads
forces an end.

### What disagrees with the documents

* `search_scope`: an index after a name that leads to a scalar is answered by the
  next array of the same object (`parser.go:566`; SYS-REQ-016).
* `edit_key_backslash`: `Delete` unescapes the path component and `Get` does not
  (`parser.go:114`; SYS-REQ-033). With a component such as `\/` the start of the
  deletion belongs to one member and its end to another: of `{"/":…,"\\/":1}`
  nothing is left. The run has the two members in this order for a reason, the
  first entry of the list below.
* `each_key_string`: below an array element that is a string, `EachKey` searches the
  content of the string (`parser.go:816`; SYS-REQ-008).
* `wildcard_missing`: one element without the rest of the path ends
  `EachKeyWildcard` (`wildcard.go:63`; SYS-REQ-113).

Met, and without a run of their own:

* the unescaped component lies in `stackbuf`, and `findKeyStart` unescapes every
  escaped string it meets to the same place (`parser.go:115`, `parser.go:147`;
  SYS-REQ-033). Behind `"\\/"` the component `\/` reads `\`: `Delete` then finds no
  `"/"`, answers not found and leaves the text as it is; and an escaped key that
  unescapes to as many bytes as the component matches it, whatever it says;
* a number at the end of truncated input is returned (`parser.go:1614`;
  SYS-REQ-041), which `TruncationNeverMisleads` and the others allow for;
* `Set` takes the last byte of a truncated object for its closing brace
  (`parser.go:1503`; SYS-REQ-051), and `Delete` edits a truncated object when the
  value is followed by a comma (`parser.go:1289`; SYS-REQ-056);
* an empty path component does resolve a key that is the empty string
  (`parser.go:525`; SYS-REQ-111);
* a component is written into the document unescaped, so one with a quote in it
  makes text that is not JSON (`parser.go:1145`; KI-3);
* `GetArrayLen` and `GetObjectLen` return `KeyPathNotFoundError` for a value of
  another kind (`parser.go:2248`; SYS-REQ-112 names the malformed errors);
* `Escape` leaves bytes beyond ASCII as they are (`escape.go:239`; SYS-REQ-014);
* a control character is refused in a quoted path key and not in a plain one;
  `EachKey` never answers an empty path; `ArrayEach` reports an element that does not parse
  if there is a blank before it and only returns the error if there is none;
  `ObjectEach` takes a comma before the closing brace.

`EditOfCutIsEditOfWhole` says what does hold of a cut document: a call that finds
some of its path, and a token after the place, makes the splice it makes in the
whole one. Without the token after it only the choice of comma differs. It
presumes that no key stands twice, as in the documents of the run: of
`{"a":{},"a":{"b":1}}` the first eight bytes lack the path `a.b` and the whole has it.
`edit` leaves out the calls `search_scope` is about: an index below a
scalar in a document that has an array.

`AnswersThePath` and `TruncationNeverMisleads` exclude exactly the first of
these (`IndexesScalar`), and index components below duplicate keys, where the
code commits to the first duplicate. The properties of `each_key` exclude paths
that the first or the third can divert (`Diverted`), and no others.

## 4. The proofs

All are checked by TLAPS with no assumption but those named in the modules:
`ReadSize` and `MaxEmptyReads` are positive, the two flags are Boolean (and false
for `EachKey` and the container lengths, which have no lenient form), and the arithmetic of `Numbers` on its widths.

* `ReaderParserProofs`, the window. The properties speak of sequences (`buf` is a `SubSeq` of
  the stream), which the solvers handle badly across `\o` and nested `SubSeq`.
  `WindowInv` says the same element by element and adds that without an error
  the empty reads are below their bound; it is inductive, and implies the type
  invariant, `WindowIsStream` and `WindowBounded`. `WindowImplementsCursor` is
  the refinement: each step of the window is a step of `ByteStream` or hidden.
* `SearchKeysProofs`. `SlicesInRange` and `PathIndexInRange` are not inductive:
  `keys[level + 1]` is in range because `keyLevel < Len(keys)` while scanning
  and because unbalanced braces take `keyLevel` below zero only
  when it is below `level`
  (`CountersInv`), and the widened element is in range because the element loop
  stands after the bracket or comma it has just passed (`ElementInv`). The
  invariant `SearchInv` adds these to the type invariant and to `AnswerInv`. It
  rests on the lemmas of `JsonTextProofs`: what each scanner returns lies inside
  the window it was given.
  `LookupInv` adds what the scan has in common with the function: the answer of the
  call is the one `FoundFrom` gives of the local variables as they are. Each
  action keeps it, because it is one unfolding of the recursion, and at the end
  it says `value = Get(data, asked)` (`GetComputesLookup`).
* `LookupProofs`. A recursive function is a `CHOOSE`, so that it has a value at all
  has to be shown. `RecursionHasSolution` (`JsonTextProofs`) does, for any step that
  looks only at arguments of lower rank; for `Get` the rank is the number of path
  components, then the bytes left. The library's induction theorems take an operator
  as parameter, which the installed provers cannot instantiate;
  `NatSetInduction` and `RankInduction` state the same for sets, and a
  property is turned into the set of the arguments that have it. The second
  half compares a text with a longer one (`Extends`). A scanner finds the same
  in both, or found nothing in the shorter one (`NextTokenExtends` to `BlockEndExtends`);
  a value is the same in both, or is a number that reads on, or shows an error
  (`ReadsOn`); so a turn of the loop leads to the same record in both, or has
  given up in the shorter one, or stands in an element that was cut off
  (`StepReadsOn`). Such an element is a number
  that reads on, or what the code keeps of an unterminated string or a literal: bytes in which no
  scan finds anything (`UnterminatedIsPlain`, `PlainFindsNothing`). `GetOfCut` is the sum, and with `GetComputesLookup`
  it gives `TruncationNeverMisleadsAlways`, for every text and not only for JSON.
* `EditProofs`. `EditInv` says that `document` is a text and the last splice is in
  range of the one before. No call depends on the last, so it is inductive at
  once; the work is in the operators: what the backward scans
  and `findKeyStart` return, that what is inserted is text, and that `Get` on a window
  of the document answers in that window. One lemma for each way a call decides
  on its splice. The two ends of a deleted member are both in range but not
  always in order: on `{"x":{}"a":1 "z"a":2}`, which is not JSON, `findKeyStart` finds
  its key behind the value that `Get` finds, and the text between is
  doubled. The property therefore excludes the order of these two
  (`DeletesMember`), and `DocumentIsTree` checks them on documents.
  `SetIsReadAlways`: the search takes the same way through the edited text up to the
  value (`FoundStays`, by induction over the scan, from texts that are the same up
  to there: `SameUpTo`), and the value ends where it ended on its own, escapes,
  brackets and all (`ValuePlaced`). The search passes elements of the path only as
  its last component (`InNamedPlace`): what ends an element on text that is not JSON may lie
  behind what was replaced, as in `[1{"a":1`, where a new value with a comma
  in it ends the element earlier, and the property is false below it. A number is
  left out too, since it runs on into what follows.
  `CutIsEditedAsWhole` takes from `EditOfCutIsEditOfWhole` what holds of every text: where
  the whole path is found, and its value ends before the cut, `Set` and `Append` make the splice
  they make in the whole text. It follows from `GetOfCut`.
* `ReaderParserProofs`, the parser. Every step of the parser is a step of the window, so the
  window's theorems carry over (`ParserReadsTheStream`); `TokenInv` - a
  retained token starts at or before `pos` - gives `RetainedTokenStays`, and with
  `WindowInv` `TokenIsTheStream`. `MemoryIsAlwaysBounded` needs that
  a token being retained begins where the buffer does, because the window is slid
  before a token is begun, so that what is consumed of the buffer is the token (`MemoryInv`). `GivesUpExactlyWhenStarved` needs that
  `emptyReads` is the drought (`DroughtInv`). `ChunkingIsAlwaysInvisible` is a refinement of
  the parser by itself: under `WholeWin` a `Read` is a stutter or slides the
  window, and every other action is the same action, because all of them
  look at the buffer through `Here`, `Ready` and the retained token only; `CallInv`
  adds that keys and values are retained and that `io.EOF` is met at the end only.
* `ConversionProofs`. `n = exact` is not inductive: in the unchecked loop it needs that
  the sum has no more digits than have been read and that there are fewer than
  `FastDigits` of them (`SumInv`), and `TenTo` of that is at most `Half`
  (`FastDigitsAssumption`, true of 19 digits and 64 bits); in the checked loop, that a wrapped sum is
  less than the product it was added to. `ResultInv` carries this to the return.
  For the decoder: the buffer is long enough because each escape is longer than
  what it stands for. `BufferInv` compares what is left of both; between
  decoding and writing it needs the size of the code point (`PointInv`): three bytes
  for six, and four only for a pair of twelve.
* `EachKeyProofs`. What keeps a path from being answered twice are flags that are
  read when the path becomes due and not again. `AnswersInv` says that what is due is
  not marked (`DueInv`), what was reported is (`DeliveredInv`), and what was
  found inside an element was found for a path still due (`LoopInv`); `StopInv`, that a scan told
  to stop is over. `NoPathTwice` and `StopsWhenTold` follow, on any text and any paths.
* `IterationProofs`. `LengthIsTrue` compares two scans of one text that agree about nothing but
  the brackets of the container, so it is proved of a third thing: `Remaining`, what the loop of
  the iteration would still do from a part on, as a recursive function of the text, and
  `Total`, all of it. `IterateInv` says that the parts reported and what `Remaining`
  says is left add up to `Total`; `LengthInv`, that the parts counted do (`Scanning`, with one
  clause for each state of `scanContainerLen`). For that each part must end for the
  count where `getType` ends it, on text that need not be JSON. A block: the stack of
  closing brackets of the one and the two counters of the other (`Nested`). A string:
  `stringEnd` inside a block against the modes of `blockEnd`
  (`StringModes`). A scalar: what is read to the next comma and passes for JSON
  is what `tokenEnd` ends, and whitespace (`ScalarRead`). The converse is false: the
  iteration delivers `01` and `nul`, which have no length. A malformed escape in a key is the one thing
  that the iteration trips over and the count does not.

Only model-checked: everything that compares with the reference tree, whose
values are written with RECURSIVE operators, which the prover does not
accept (`AnswersThePath`, `DocumentIsTree`, `RepliesAgree`, `EachPathAnswered`, `FoundIsAddressed`
`PartsInOrder` and their like); `EditOfCutIsEditOfWhole` where only some of the path is
found, or a part is deleted, since on text that is not JSON it is false there; wildcards
and path expressions; and liveness (`Terminates`, `Returns`, `EachKeyReturns`), which is
out of the prover's reach.

## 5. Not modelled

* `ParseFloat` and `GetFloat`, which are `strconv.ParseFloat`. `strconv.ParseUint`,
  `strconv.Atoi` and `utf8.EncodeRune` are external and modelled by what they
  return.
* `\uXXXX` in the keys and strings of the other models (taken as malformed; no run
  contains one): `Escapes` is their model.
* The bytes of numbers beyond their first in lookups (`getType` looks no
  further), the offset argument of callbacks, allocation and aliasing of returned
  slices. Of the casts of `bytes_unsafe.go`, which make a string of a slice without
  a copy, `Edit` models the one a later write reaches, the component of
  `findKeyStart`; the keys `EachKey` keeps have a buffer each (`parser.go:697`), and the
  strings of the other casts are read at once. With the
  build tags of `bytes_safe.go` that component would be a copy.
* Several calls on one `ReaderParser`.
* The methods of `Config` and `CompiledPath` beyond the getters: they pass their
  arguments on. `fuzz.go` and the benchmarks.

## 6. Plan

1. Done: everything listed in section 2.
2. Left: `stringEnd`'s three implementations against each other; `Edit` and `EachKey`
   under the lenient configuration; what a first call leaves in the window for a
   second one.
3. Proofs left: that the loops of `Iterate` deliver windows that follow each other.
