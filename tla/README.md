# A verification of sqlfmt

sqlfmt formats one SQL statement. It is a driver of 70 lines, `src/sqlfmt.go`, over a copy of
CockroachDB's SQL scanner, parser, syntax tree and pretty printer, `src/cockroach/pkg`. This directory
models the path a text takes through the program, byte by byte where the scanner and the encoders work
on bytes, the layout engine, and those utility packages that have state or concurrency of their own.
TLC checks the models and TLAPS proves part of what it checks.

    tlc -workers 2 -config FormatSQL.cfg MCFormatSQL     # a run; PROJECT.json lists them
    tlapm FormatSQL_proofs.tla                           # the proofs

## 1. Inventory

`pkg` below is `src/cockroach/pkg`.

| Part | State it keeps | Operations | Status |
|---|---|---|---|
| `FormatSQL`, `src/sqlfmt.go` | the rest of the text, the output | trim comments, split, parse, print | modelled: `FormatSQL` |
| Splitting and parsing, `pkg/sql/parser/{scanner,parse}.go` | token and statement buffers, scanner position | `SplitFirstStatement`, `scanOneStmt`, `parse` | modelled in part: `FormatSQL` |
| Lexer and parser driver, `pkg/sql/parser/{lexer,help}.go`, end of `sql.go` | tokens, `lastPos`, `stmt`, `lastError` | `Lex`, `SetStmt`, `Error`, `setErr`, `Unimplemented*`, `SetHelp`, error recovery | modelled over any grammar: `FormatSQL` |
| Grammar, `pkg/sql/parser/sql.go` | none | 37,000 generated lines | operators of expressions: `Simplify` |
| Scanner, `pkg/sql/scanner/scan.go` | text, position, the buffer strings are built in | `Scan`, `HasMultipleStatements`, `LastLexicalToken` | modelled: `TokenBuffers`, `Scanner`, `ScannerCalls`; by lexemes in `FormatSQL` |
| Names and literals, `pkg/sql/lexbase`, `pkg/util/stringencoding` | none | normalise, quote, escape | modelled without flags: `Characters`, `Encoding` |
| Layout engine, `pkg/util/pretty` | documents; `beExec` with its memo | combinators, `be`, `better`, `fits`, `layout` | modelled: `PrettyDoc`, `Pretty`, `PrettyLayouts` |
| `PrettyCfg`, `pkg/sql/sem/tree/pretty.go` | alignment mode, width | `nestUnder`, `rlTable`, `joinNestedOuter`, ... | helpers in `Pretty`, parentheses in `Simplify`; nodes not one by one |
| Tree, datums, types, the rest of `pkg/sql/sem/tree` | values | `Format`, evaluation | not modelled |
| `IntMap`, `pkg/util/syncutil/int_map.go` | `mu`, `read`, `dirty`, `misses`, entries | `Load`, `Store`, `LoadOrStore`, `Delete`, `Range` | modelled: `IntMap`, `AtomicMap` |
| `singleflight.Group`, `pkg/util/syncutil/singleflight` | `mu`, `m`, calls | `Do`, `DoChan`, `Forget`, a panic in `Do` | modelled: `SingleFlight` |
| `FastIntSet`, `pkg/util/fast_int_set.go` | a bitmap and a large set | all methods, `Encode`, `Decode` | modelled: `FastIntSet`, `IntegerSets` |
| Time sources, `pkg/util/timeutil` | a pool of timers; the manual clock, its heap and tickers | `Reset`, `Stop`, receive; `Advance`, `AdvanceTo` | modelled but for the system's ticker: `TimerContract`, `SystemTimer`, `ManualTime`, `TimeSource` |
| Session data, uuid, ulid, key encodings, wire codes | see PROJECT.json | | not modelled |

**How they interact.** `FormatSQL` runs in one goroutine. It copies leading `--` comments, asks
`SplitFirstStatement` where the first statement ends, gives the text up to there to `Parse`, and
prints each tree it gets with a `PrettyCfg`. The two passes over the text use two scanners; nothing
but their agreement ensures that `Parse` sees exactly one statement. `Parse` calls the goyacc driver,
which calls back into the lexer for tokens and to report errors; the lexer's `lastError` and the
driver's return value are two channels for one fact. The printer builds a document bottom-up and the
engine then chooses among its layouts; names and literals in it are written by the encoders, whose
text the scanner has to read as it was. `IntMap`, `singleflight` and the time sources are shared by
goroutines.

**What is hard.** In the parser, the order of two scans and the error paths: an error token, a zero
byte, an error at the end of the text, recovery after a reduced statement. In the scanner, strings that
are handed out without a copy while the rest of their array is used again, loops that must notice the
end of the text, and literals that go on in the next line. In the engine, a choice
that depends on what comes after it, made with 16-bit positions in two units, tabs and spaces. In the
printer of expressions, tables of priorities kept by hand beside the grammar. In
`IntMap`, readers and writers without a lock racing with promotion, amendment and expunging. In
`singleflight`, the window between the end of a call and its removal, and `Forget` in any of it. In the
time sources, a timer that expires while it is reset or given back, and a clock that is moved while timers
are queued. In `FastIntSet`, two forms of one value that have to agree.
Nothing is persisted and nothing is sent over a network, so crashes and lost messages do not arise.
`PROJECT.json` lists each hazard at its line with the properties that would catch it.

**What makes each part correct.** The driver: one statement, all of it, or an error. The scanner: tokens
that tile the text, and strings that never change. The encoders: what they write is read back. The engine: the
words in order, within the width where it can be. The map: an atomic map. The group: one result for
all who share a flight, and an answer for each. A timer: one tick, not early, of the last `Reset`. An
integer set: a set of integers.

## 2. The modules

### FormatSQL: one call, from text to text

A text is a sequence of lexemes: blank, newline, the two kinds of comment, word, semicolon, `??`,
text the scanner refuses, an unclosed comment, a zero byte. `Scan` takes a text and a position and
gives a token and the next position, as `Scanner.Scan` does with the text of one. There is one action for
each step of the code that reads the text or changes state:

| Actions | Code |
|---|---|
| `TrimComment`, `TrimDone` | the comment loop of `FormatSQL` |
| `SplitScan` | one `Scan` of `SplitFirstStatement`, and the cut |
| `ParseInit`, `ScanFirst`, `ScanRest` | `parseWithDepth`, `scanOneStmt` |
| `Shift`, `SetStmt`, `Accept`, `SyntaxError`, `Recover` | the goyacc driver and `lexer.Error` |
| `ActionError`, `Unimplemented` | an action of the grammar that reports an error |
| `ParseReturn` | `parse`, the loop of `parseWithDepth` |
| `PrintOne`, `Return` | the printing loop of `FormatSQL` |

The grammar is left open. At each token the driver may shift it, reduce a statement, refuse it, or
run an action that fails, with the lookahead read or not. What holds of the model therefore holds
whichever statements the grammar accepts; the price is that the model cannot say which are accepted.
The printer is taken to print the words of its statement, which `Pretty` is about.

### Characters, TokenBuffers, Scanner, Encoding, ScannerCalls: the scanner, byte by byte

A text is a sequence of bytes. `Characters` has their classes, UTF-8, and the normalisation of names,
with Unicode's tables of lower case and of composed texts (NFC) as constants.
`TokenBuffers` is the scanner's memory: arrays, and slices of them with a length and a capacity;
`bytesPrealloc` is `free`, and `handed` records each string that was given out, where it lies and what it
said at that moment. `append` may allocate up to `Spare` bytes more than it needs, since the runtime
rounds up.

In `Scanner` an action is one turn of a loop of the code, or a loop whose body only moves the position:

| Actions | Code |
|---|---|
| `Scan`, `SkipWhitespace`, `Comment` | `Scan`, `skipWhitespace`, `ScanComment` |
| `End`, `Symbol`, `Ident`, `Placeholder`, `OpenNumber`, `OpenDollar`, `OpenLiteral` | the switch of `Scan`, `scanIdent`, `scanPlaceholder` |
| `AnotherDigit`, `HexMark`, `DecimalPoint`, `Exponent`, `NumberEnd` | `scanNumber` |
| `HexPair`, `Bit`, `QuoteInString`, `Escape`, `StringByte`, `FinishLiteral` | `scanHexString`, `scanBitString`, `scanString` |
| `DollarMark`, `DollarByte`, `NotDollarQuoted`, `DollarUnterminated`, `DollarBody` | `scanDollarQuotedString` |

`ScannerCalls` adds the callers in `scan.go`, `LastLexicalToken` and `HasMultipleStatements` with `scanOne`,
and the texts: given ones, and ones that `Encoding` wrote, which is `EncodeSQLString`, `EncodeSQLBytes` and the
two ways to write a name. Keywords are constants.

### PrettyDoc, Pretty, PrettyLayouts: the layout engine and a client

`PrettyDoc` is the package as functions: a document is a record with a tag; the combinators, `be`,
`better`, `fits` and `layout` are defined as in the code, with `Int16` where Go wraps around. The
documents `scolumn` and `snesting` are Go closures; only `Align` and `JoinNestedOuter` make them, so
these two are kept and unfolded where the code calls the closure. `Pretty` is a client that calls
the methods of `PrettyCfg` one by one on the documents it has made so far, and lays out the last. The
calls are what the `doc` methods of the tree do; so the states are documents the program's own
vocabulary can express, not arbitrary trees. One restriction is the program's: `nestUnder` never gets
an empty head. `PrettyLayouts` says, independently of `be`, what the printer should do: all the ways a line may end,
and the greedy choice among them.

`Flatten` and `be` recur on documents, and `be` also on what a closure returns, so they are recursive functions
and need a domain. It is the constant `Documents`: for TLC, which only applies them to what comes up, `Any`; for the
proofs, the set of all documents.

### Simplify: which parentheses matter

An expression is lexed token by token, as an SQL text may have it, and parsed by the driver: `Lex` is one
turn of its loop, the reductions before a token and its shift; `Accept` is the end of the text. `Pretty`
prints the tree as the `doc` methods do, with `peelAndOrOperand`, `peelBinaryOperand` and
`peelCompOperand`, and `Reparse` parses what was printed. A document is its tokens: where the
lines break is the subject of `Pretty`, the module. The grammar's source is not in the repository, only its tables.
`Levels` is what the tables do: they were run on tens of thousands of random expressions and agreed
with the shift-reduce parser of this module, refusals included.

`Meaning` is what the printer must keep: the tree without its parentheses, in which a chain of one
associative operator is a list and a sum is a list of signed terms. `a + (b - c)` and `a + b - c` mean the
same; `a - (b + c)` and `a - b + c` do not.

`PrettyLayouts` and `Simplify` use RECURSIVE operators and are for TLC only.

### MapCalls, AtomicMap, IntMap: a map without a lock on the fast path

`AtomicMap` is what the type promises: each operation takes effect in one step between its call and
its return. `IntMap` is the code: `read` (a snapshot with its `amended` flag), `dirty`, `misses`, the
mutex, and for each goroutine the method it is in, the snapshot and the entry it holds. Every atomic
load, store and compare-and-swap is a step; a critical section is split where another goroutine can
see a difference, at each access to an entry and each store of `read`. `MapCalls` holds the part
that both have: what is called and what is returned.

The code's linearization points are not all fixed. A `Load` that misses under the lock takes effect
there; a fast path may take effect at its load of the snapshot; `Range` visits each key at a
moment of its own. `IntMap` keeps the content of the map as an expression of the entries, and the
refinement `Linearizable` maps this expression to the state of `AtomicMap`.

### SingleFlight: one execution for many callers

The state is the mutex, the group's map, the calls with `WaitGroup`, `dups` and channels, and where
each caller is. `doCall` is five steps, as its effects can be told apart by others: the function
returns, the `WaitGroup` is done, the lock is taken and the key deleted, each channel is sent to, the
mutex is let go. A result is named after its flight, since no code looks at it, so that a mixed-up
result shows. A flight object is used again when no goroutine refers to it. `FnPanic` is a function that
panics in `Do`, recovered above it: the package does not provide for it, so the flight stays in the map.

### TimerContract, SystemTimer, ManualTime, TimeSource: two clocks with one interface

`TimerContract` is what a client of `TimerI` may rely on: after `Reset(d)` one tick, not before `d` has
passed, none of an earlier `Reset`, and `Stop` says whether it was in time. `SystemTimer` is `timer.go` over
Go's `time.Timer`, in which a timer first becomes inactive and then sends, so that `Stop` may find it
expired with an empty channel; its `time.Timer`s go back to a pool that all clients share.
`ManualTime` is `manual_time.go`: the heap with its index, in the very steps of `container/heap`, a `Reset`
in its three critical sections, and `AdvanceTo`, which holds the mutex over all its sends. `TimeSource`
composes them: a program has one of the two, and both implement the contract (`KeepsContract`, with the
refinement mapping `View`).

### IntegerSets, FastIntSet: a bitmap beside a large set

`IntegerSets` is the operations on sets of integers. `FastIntSet` is the code: a word is the set of its bits,
two words are the bitmap, and `large` is an `intsets.Sparse`, a library's, taken to be a set. Each method is a
function of the values (`Added`, `UnitedWith`, ...), and the module's actions call each of them on named variables.
`CopyFrom` of a small set that has elements into one with a Sparse is what the code gets wrong (section 4): it leaves
elements in the bitmap and an empty Sparse, at which all other methods look. `StaleCopy` names it, and
`CopySmallToLarge` says whether callers make such copies: none does. `BitmapMaintained`, `QueriesAgree` and `WalksAgree`
hold without them. `OperationsAgree` holds with them too: it says that `CopyFrom` copies except exactly when the copy is stale,
and it says so at every step of each pair of sets, whether or not a caller makes that copy.

## 3. The runs

| Run | Instance | What it shows |
|---|---|---|
| `FormatSQL` | all texts of up to 4 lexemes, and up to 5 of comments, newlines, words, semicolons | at most one statement, printed whole; refused text reported; the error object; the caret; a stable result; an end |
| `FormatSQLPanic` | texts of up to 2 lexemes | violation: `NoPanic` |
| `Scanner` | all short texts over eleven small alphabets, and written values with what follows them | tokens tile the text; strings never change; numbers, dollar quotes and joined literals are what they should be; what is written is read back; the callers' answers; an end |
| `ScannerNames` | names that begin with `testing_` | violation: `BareNamesReadBack` |
| `Pretty` | 5 calls, 3 documents at hand, widths 4 and 7, tab 2 | the greedy choice is right; words kept; unions sound; positions in range |
| `Simplify` | expressions of up to 9 tokens, 8 infix operators, NOT, unary minus, IS NULL | the parentheses left out were redundant; formatting again changes nothing |
| `SimplifyMod` | with `%` | violation: `MeaningKept` |
| `IntMap` | 2 goroutines, 2 keys, 1 value, 4 entries | what the comments say of `read` and `dirty`; no write is lost; refinement of `AtomicMap` |
| `SingleFlight` | 3 callers, 1 key | one result per flight; sends never block; no joining after `Forget` |
| `SingleFlightLive` | 2 callers, 2 keys, one of them forgettable | each call returns unless its function panicked; one execution at a time for the key that is kept |
| `TimeSource` | 2 clients of the system's clock; 3 timers, or two advancers, or a ticker, of the manual one | refinement of `TimerContract`; pool and heap; due timers fire; no tick lost; `Reset` returns |
| `FastIntSet` | 2 variables, words of 2 bits, elements -1 to 4, no calls that make stale copies | the bitmap is maintained; every query, walk and operation agrees with sets of integers, except exactly that a stale copy would not |

**Bounds.** Four lexemes are enough for an error or a zero byte before, at and after a semicolon, in a
statement with a word before and one after; five of the smaller alphabet for two comments with the
newlines between them and a statement.

The texts of `Scanner` are all texts up to a length over one small alphabet for each part of the
scanner: comments and minus signs (5 bytes), operators (3), quotes with what may stand before and between
them (4), hexadecimal and bit literals (4), escapes (3 after `e'\`), dollar quotes with a tag of no or one letter
(5) and with the tag `ab` (6 after it, so that half a tag can come before a whole one), numbers (4), names in ASCII
and Latin-1 (3), invalid UTF-8 (3), statements and a zero byte (5), placeholders up to the limit, here 10. Values are up to two
pieces from each class the encoders tell apart, runes of one to four bytes among them. Beyond Latin-1 and
the Turkish i, the normalisation of names calls Unicode's tables, which are the constants `LowerCase` and `Composed`: the run has
`Ā` in lower case and `a`, `e` and `E` composed with an acute accent, in bare and in quoted names, and these are all that Unicode
would change in its texts and values.
`Spare` of one lets `append` leave room or none.

In `Pretty`, five calls make three words and two combinators, or
two words and three; widths 4 and 7 let one, two or three pieces fit. The mode `only` is
left out of `Pretty` since it is `deindent`'s tables and heads with `no`'s operands. In `Simplify`, seven
tokens hold a parenthesised operand on either side of an operator, and nine add another operator outside or
a second pair of parentheses; each level of the grammar that the printer treats in its own way has an operator.
`BareTruth = FALSE` leaves out texts in which `NOT` or `IS NULL` is, without parentheses, an operand of
an operator like `+`; see section 4 for what happens to these. The operators of the violation and the
prefix root are left out of `Simplify` too.

In `IntMap` the hard interleavings are between one slow path
and one fast one on a key, with a second key to make the read map incomplete; four entries
allow a key to be deleted, expunged, unexpunged and made anew, and `RoomForNew`, a part of `MapsConsistent`, shows that no
step lacks one. Operations are not bounded in number:
misses are capped by the size of the dirty map, in the code too. `MaxDups` caps how many join a
flight, and the calls are without end: with three callers there is one that leads, one that joins,
and one that comes late. In `TimeSource`, three timers are the smallest heap in which `Swap` and `Down` have
a choice, `MaxTime` of 2 with durations 1 and 2 lets two be due at once and in either order, two runtime timers make the pool hold
one while the other is used, and `TickBuffer` of 1 fills at once. In `FastIntSet` a word of two bits puts
an element on each side of both boundaries, the word's and the bitmap's, and -1 below it; the proofs are for every width.

**Type invariants.** `MapsConsistent`, `TokensTile`, `TimersWellFormed` and `PositionsInRange` contain the `TypeOK`
of their modules. Those of `FormatSQL`, `FastIntSet` and `SingleFlight` are theorems.

**Deadlock** is checked where the system should not stop. `FormatSQL` stutters when it is done. The
runs of `Pretty`, `Simplify`, `Scanner` and `ScannerNames` say `CHECK_DEADLOCK FALSE`, because they stop when the document is
printed or the caller has returned; those of `SingleFlight` because all callers may wait for a flight that panicked.

**Fairness.** `FormatSQL` and the scanner are one goroutine that is never blocked: weak fairness of its next step. For
`SingleFlight`, goroutines run (weak fairness of each step), the function returns if it does not panic (its return is
fair), and a goroutine that waits for the mutex gets it (strong fairness of the steps that lock): Go's
`sync.Mutex` hands over to a waiter that has waited for a millisecond. In `TimeSource` the runtime expires
timers and sends (weak), a `Reset` or an `AdvanceTo` that has begun gets the mutex (strong, for the same reason), and
an `AdvanceTo` that has it goes on (weak); nobody has to call `Advance`, and no time has to pass. For `IntMap` no liveness
is claimed, as its compare-and-swap loops may retry for ever while others succeed.

**Properties worth reading.** `OneStatement` and `FirstStatementPrinted` compare two scans that stop
for different reasons. `ErrorObjectSet` relates the driver's return to the lexer's state over all
recoveries. `StringsKept` is about all strings handed out so far, whatever is scanned after them.
`TokensTile` has a definition of comments of its own, by brackets, to compare `ScanComment` with. `ReadBack` takes encoders, keyword tables
and scanner together. `WritesReachMap` says that a goroutine that holds an entry without the lock either
holds one that is in the map, or will find out by its compare-and-swap. `GreedyLayout` compares `be`, which looks at the best layout of
the rest and counts columns along, with a definition that looks at all layouts and reads the column
off the output. `MeaningKept` takes the parser, the printer and its tables of priorities together. `UnionSound` is the contract of `document.go:140` at every union that is met. `KeepsContract` holds for a pool and a mutex-free timer as for a heap under a mutex.

## 4. What the runs found

1. `NoPanic`: `Unimplemented`, `UnimplementedWithIssue` and its variant call `populateErrorDetails`
   before `lastError` is set; `lexer.go:262` then calls a method of a nil error.
2. `MeaningKept` in `SimplifyMod`: `a * (b % c)` is printed as `a * b % c`, which is `(a * b) % c`. The right
   operand of `*` loses its parentheses to any operator of the same priority; so it is for `//`, and for `||` with
   `->`.
3. `BareNamesReadBack`: the name `"testing_ranges"` is printed without quotes, since it is no keyword, and
   `scanIdent` then reads it as the keyword `ranges`. So it is with `experimental_` and every keyword in that table.

Met while modelling, and not the subject of a run; where TLC found it with another configuration, that is given:

- `Simplify` with `|/` among the prefix operators: `(|/ a) + b` is printed as `|/a + b`, which is `|/(a + b)`.
- `Simplify` with `BareTruth = TRUE`: `(a + NOT b) - c` is printed as `a + NOT b - c`, in which `NOT` takes `b - c`,
  and `a + (b IS NULL + c)` likewise. Such texts are accepted, but few of them have a type.
- `SingleFlight`, one execution at a time for a key that `Forget` was called for: `doCall` deletes the key without
  looking whether the call there is its own, so a forgotten flight removes its successor (`singleflight.go:132`).
- `Pretty` with a width of 32768: it wraps around in `int16`, and a group that fits is broken. `FormatSQL` asks for half the
  length of its text, so this happens from 65516 bytes on.
- All that follows the first semicolon is dropped (the store to `stmt` in `sqlfmt.go:53` is dead), and so is
  all that follows a zero byte; `??` inside a statement is an error and never the help text that was asked for.
- `scan.go:979`: what follows a `$` that might have opened a tag, but did not, is dropped with it: `$a b` gives the tokens `$` and `b`.
- `returnBuffer` keeps the rest of the buffer "for future allocBytes() or buffer() calls" (`scan.go:103`), but as a slice of
  length 0, which `allocBytes` never finds room in; only `buffer` uses it.
- An identifier with an invalid byte has U+FFFD in its place; in quotes it is an error.
- `time_source.go:38` says that not calling `MarkRead` makes the timer "less efficient"; with the system's timer the next
  `Reset` blocks for ever (`ReceiveBug` and `ResetReturns`).
- `FastIntSet` with `CopySmallToLarge = TRUE` and the property `CopyFromCopies`, against the comment at `fast_int_set.go:210`:
  `CopyFrom` of a small set with elements into one that has a Sparse clears the Sparse but keeps it (line 221), and the receiver
  then lists no element. Nothing in the repository calls `CopyFrom`. `OperationsAgree` has this as its exception.
- Of two concurrent calls of `ManualTime.Advance` one may be lost, since the time is read and set in two critical sections.
- A ticker of manual time whose buffer is full panics in the middle of `AdvanceTo`, with the mutex released by its `defer`: the time is set and
  some of the ticks are sent. `TicksComplete` holds all the same.
- The comments of `fast_int_set.go` that give the small elements as [0, 63] are older than the second word.
- The comment at `int_map.go:91`, "If p == nil, the entry has been deleted and m.dirty == nil", is not
  true: a deleted entry is nil whether or not there is a dirty map. `Linearizable` holds all the same, also for one key and two values.
- The comment at `singleflight.go:36` says that `dups` and `chans` are not written after the `WaitGroup` is
  done; between `wg.Done` and the lock of `doCall` they may be. `SameResults` holds all the same.
- `Align` takes the spaces of the position and the tabs of the nesting, so under a head that was itself broken
  after a tab stop, the nested lines begin at the nesting's tabs and not in the column where the nested
  document began.

## 5. The proofs

Thirty-seven theorems hold for every value of the constants under the named assumptions; each run
shows the same property on its instance.

| Module | Theorem | Property |
|---|---|---|
| `FormatSQL_proofs` | `TypeCorrect` | `TypeOK` |
| | `AtMostOneStatement` | `OneStatement` |
| | `ErrorObjectExact` | `ErrorObjectSet` |
| | `CaretAlwaysInText` | `CaretInText` |
| | `WholeFirstStatement` | `FirstStatementPrinted` |
| | `RefusedIsReported` | `LexicalErrorReported` |
| | `FormattingStable` | `FormatStable` |
| `Scanner_proofs` | `BuffersKeepStrings` | `StringsKept` |
| | `TokensStayInOrder` | `TokensInOrder` |
| | `TokensAlwaysTile` | `TokensTile` |
| | `NumbersAlwaysWellFormed` | `NumbersWellFormed` |
| | `DollarsAlwaysEndAtFirstTag` | `DollarEndsAtFirstTag` |
| | `LiteralsAlwaysJoinAcrossLines` | `JoinedAcrossLines` |
| | `ScannedStringsKept` | `StringsKept` |
| | `CallersAnswerRight` | `AnswersRight` |
| `ReadBack_proofs` | `WrittenIsReadBack` | `ReadBack` |
| `Pretty_proofs` | `WordsAlwaysKept` | `WordsKept` |
| | `DocumentsExist` | |
| `FastIntSet_proofs` | `TypeCorrect` | `TypeOK` |
| | `BitmapAlwaysMaintained` | `BitmapMaintained` |
| | `OperationsAlwaysAgree` | `OperationsAgree` |
| | `QueriesAlwaysAgree` | `QueriesAgree` |
| | `WalksAlwaysAgree` | `WalksAgree` |
| `SingleFlight_proofs` | `TypeCorrect` | `TypeOK` |
| | `SameResultsAlways` | `SameResults` |
| | `SendsNeverBlock` | `SendNeverBlocks` |
| | `ForgottenNeverJoined` | `ForgottenNotJoined` |
| | `OneInFlightAlways` | `OneInFlightIfKept` |
| `IntMap_proofs` | `TypeCorrect` | `TypeOK` |
| | `MapsStayConsistent` | `MapsConsistent` |
| | `NoWriteLost` | `WritesReachMap` |
| | `MapLinearizes` | `Linearizable` |
| `TimeSource_proofs` | `TimersStayWellFormed` | `TimersWellFormed` |
| | `DueHaveFired` | `FiredByReturn` |
| | `NoTickLost` | `TicksComplete` |
| | `TimeGoesForward` | `TimeMoves` |
| | `BothKeepContract` | `KeepsContract` |

**FormatSQL.** For every set of texts, of any length. The only assumption is `InputsAssumption`: a text is a
sequence of lexemes in which a line comment ends at a newline and an unclosed comment at the end.
None of the properties is inductive. Their common strengthening is `Inv`, a conjunction of named parts:

- `SplitInv`: up to its position the first scan met no token that ends a statement; what stands there
  is blank, comment, word or help.
- `CutInv`: in the text that was cut, a semicolon that a scan can reach is the last lexeme. This is
  what makes the second scan stop where the first did.
- `ScanInv`: where `scanOneStmt` is, relative to that semicolon: no statement was parsed while one is
  being scanned, and once one was, only the end is left.
- `OneInv`: from that, that at most one tree is kept, and when.
- `PrintInv`: the printing loop's counter.
- `DriverInv`: the driver's return, the lexer's error, and the tokens' positions inside the text's length,
  which needs that positions grow along the scan.

The lemma `Invariance` is `Spec => []Inv`: one step per action, with one lemma for each action that reads the
text; beneath are lemmas about `FirstNot` (the position it chooses exists and what it passes over is in
the set) and `SubSeq`.

**What FormatSQL keeps of the text** (over `Inv`). Two more strengthenings, as each takes
several actions to come about:

- `FirstInv`, for `FirstStatementPrinted` and `LexicalErrorReported`, counts words. `RestInv`: what the comment loop
  leaves is the text without a head of blanks and comments and without its last blanks. `CutFirst`: the cut has as many words in its first
  statement as the text, and a refused lexeme there exactly if the text has one. `ScanTokens`: the second scan
  has a token for each word it passed. `TokensTaken`: when the driver runs, the tokens are those of the whole
  first statement, or an error is among them. `DriverTokens`: what was shifted is words, so an error is not accepted,
  and an accepted tree has all tokens. `OutputWords`, `ResultInv`: so many words are in the output.
- `FormInv`, for `FormatStable`: while comments are taken off (`TrimForm`), then cut (`CutForm`), then printed
  (`PrintForm`), the output is a head of comments as `Kept` writes them, and if the text is `Formatted`, that head followed by what is left *is* the text.

**TokenBuffers.** For any contents, any growth of arrays by `append` (`SpareAssumption`) and any order of the
operations on the buffers, not only the orders in which the scanner calls them (`BuffersSpec`): a string that was
made of a slice without a copy is never written again. The invariant, `BuffersInv`: every slice lies in its array;
what was handed out is apart from the free part of the arena and from the growing buffer; and these two are apart
from each other. A write goes into one of the two, so it is apart from all strings.

**Scanner.** For every text, every set of keywords and any growth of the buffers; `TokensStayInOrder` and `ScannedStringsKept` are
theorems of `ScannerSpec(text)`, calls of `Scan` by anybody. The invariant is `ScanInv`: the types, with those of the scanner's
locals; `Buffers`, which adds to `BuffersInv` that the arrays hold bytes, since what is read from them becomes a token;
and `Placed`, without which tokens would not advance: outside a token all tokens end by `pos`, a comment
that is open lies between its start and `pos` and nests no deeper than that, an open token lies after
the tokens and before `pos`, and of a string in dollars the tag, and what of it was met again, are inside what was read (`TagFits`).
One lemma for each action says that it keeps `ScanInv`. Below it are lemmas about what the actions call: spans, parts of a text, UTF-8
(`RuneLengthSpec`, `EncodeRuneText`), the normalised name (`LowerNameText`, whose recursion is shown to have a solution by induction on the
position, and `NormalizeText`), `UnescapeIn`, `StripZerosIs`. `TokensAlwaysTile` adds `TileInv`: what was read since the last token is `Ignorable`, and inside
a comment every open bracket has an inside of its own up to the next one (`Bracketed`, a stack of their positions; `CommentTile` pops and pushes it).
`Inside` and `Ignorable` recur on the position where they end, so `StepsExist` gives both of them a solution, `InsideIs` and `IgnorableIs` unfold
it, and each byte, line or bracket that the loop passes is one more step of the recursion. What is in a token needs two more parts. `NumberInv` says by the
bytes what was read of a number: the digits, the point and the exponent, with the digit ahead for which the one or the other was read.
`DollarInv` says, with `m` bytes after a dollar compared, that they are those of the tag, that this dollar is the only place where the tag can
begin, since there is none inside it, and that it was met nowhere before. `JoinInv` counts the quotes of a literal: inside it they are odd in number, so
a quote that was read there and is preceded by a quote and blanks closes nothing that those blanks end. All three are about the tokens that are out too: `TokenSteps` says what
an action may append. `CallersAnswerRight` is a theorem of `Spec` and needs nothing of that, since the callers see only tokens: `CallsInv`
counts, with the statements that start among the tokens the caller has dealt with, what `HasMultipleStatements` has counted.

**What is written is read back.** `WrittenIsReadBack` is about `ScannerCalls`: encoders, scanner and either caller, for any keywords,
reserved keywords and prefixed names. It has two hypotheses, which say what `ReadBack` would be false without:

- `Readable`: a string or a name is valid UTF-8 (bytes may be any bytes), and a name is in NFC (`NormalizeString` leaves it alone) and none
  that `Shortened` cuts. A name that the scanner made is in NFC; one that is not, as `e` with U+0301, would be read back composed.
  The run `ScannerNames` has names that are cut, and finds `BareNamesReadBack` violated.
- `SetOff`: what follows a value does not go on with it. It starts with no byte of names and no quote (`'a''b'` is one literal), and has no quote as its
  first byte on a later line, which SQL would join. The separators of the layout helpers are blanks, commas and brackets.

All values and followers of the run `Scanner` satisfy both. Unicode's tables are constants, so the theorem is for all of them; `UnicodeAssumption`
only says that a rune's lower case is a rune and a composed text a text. The heart is a relation between both sides that mentions neither: `IsUnit(q, escapes, u, d)` says
that between quotes `q` the bytes `u` are read in one turn of the scanner's loop as `d`: a plain byte, a doubled quote, or an escape.
`Spelled` is its closure under concatenation, as the least set, so that an induction is a choice of a set.

- The encoders write `Spelled` texts: `IdentSpelled` and `SQLBytesSpelled` byte by byte (`FlattenSpelled`), `StringSpelled` rune by rune. The latter needs that `Runes`
  and `ValidUTF8`, which recur forwards, have solutions (`AheadExists`), that a rune is encoded by the bytes it was decoded from (`RuneDecoded`), and
  what four or eight hexadecimal digits give (`RuneSpelled`). `EncodedIs` sums up: a value is written in quotes and spelled, or bare.
- The scanner reads them: `Reading` says that no token is out and the literal is not begun (`Unread`), or the scanner is in it (`InBody`: what was kept so far
  and what the rest is spelled for make the value; `Sofar`), or it is behind it with the value in its buffer (`BodyRead`); or the first token is the
  value (`TokenRight`). Each action has a lemma; one turn of the loop takes one unit off what is left. That the literal ends at its closing quote, and does not go on behind it, is what `SetOff` is for.

**Pretty.** `WordsAlwaysKept` is for every tab width, set of leaves and labels, line width, and number of calls and documents; the
widths may be so large that positions wrap around. Beside `ClientAssumption`, that a leaf or a label is a word or a break, it
supposes `AllDocuments(Documents)`: `Documents` is the least set that is closed under the constructors. `DocumentsExist` shows
that there is one, the documents made in any number of steps. The invariant `IInv` is that each document at hand
*means* the words it is to print: every relation of documents and words that the constructors respect (`Sound`, with
`SoundOuter` for the closure of `JoinNestedOuter`) holds of the two. This quantifies over all relations, so TLC cannot
evaluate it; it checks `WordsKept`. The argument, in the order of the module:

- `Recursion`: a recursive function has a value wherever there is no way to descend for ever. The provers have no induction
  over trees; what stands for it is that a set with the right closure is everything. `Flatten` is defined by this on all documents.
- For each combinator of `util.go` a lemma that a sound relation holds of what it makes: `TableTells`, `OuterDocTells`, ... So every call
  of the client keeps `IInv`.
- `be` is given a *cell*: a position and the documents still to be laid out. A set of cells that has a cell as soon as it has the next
  ones has all of them (`CellsInduction`); so `be` comes to an end. What a closure returns is no
  part of the document, so that it comes to an end too is a case of its own (`SoundOuter`).
- The documents whose words come out before those of whatever follows them, wherever they begin and whichever sides of
  unions are taken, are a sound relation (`Fine`). So the selected layout of a document has the words it means (`BestTells`).
- `LayoutWrites`: the lines that `layout` writes have the words of what was selected.

What the engine is free to choose plays no part in this, and which layout it chooses is not proved.

**FastIntSet.** For every set of names, every finite set of elements and every width of a word. `TypeCorrect` and
`OperationsAlwaysAgree` suppose nothing of the calls: the second says of every step from a state with
`BitmapMaintained`, stale copies among them, that it is the step of sets of integers, except `CopyFrom` exactly when its copy is stale
(`StaleCopied`: such a copy has none of the elements). The other three suppose `~CopySmallToLarge`,
since after a stale copy they are false. Their
invariant says that the value of each name is `Valid`, which is `TypeOK` and `BitmapMaintained`
(`IInvExact`). Each operation has two lemmas: its result has its type; and on valid operands it is valid and has the elements that the
operation on sets of integers gives. The fast paths rest on `OnesInjective` and `ValidParts`: a bitmap is
determined by its elements, and what each form says of them. `WalksAlwaysAgree` rests on `OnlyOrder`: an increasing sequence is
that of its elements (the k-th is the one that k - 1 others are less than, `InOrder`), and the bits of the low word followed by those of the high
one are increasing (`WordsInOrder`). The ranges of `String` are a fold over that sequence; `RangesFold` gives the fold, `RangesOf` is what
its accumulator is after k elements. The theorems are about any order of operations.

**SingleFlight.** For any number of callers, keys, flight objects and calls that join (`FlightAssumption`
only says that the model values for nothing are none of the others). `IInv` adds to the types:

- `CallerInv`, `CountInv`: a caller has a flight as long as it is in a call, a flight has one leader, and
  `dups` counts those that joined, which is why the three places that compute `shared` can agree.
- `ValueInv`: the value is set from the function's return on, and as long as somebody may read it.
- `MapInv`: a flight in the map was not forgotten and has not taken the mutex to delete itself. So no call
  joins after the sends.
- `KeptInv`: a flight whose key is never forgotten stays in the map until it deletes itself.
- `SendInv`: those still to be sent to wait in `DoChan` for this flight, each once, with an empty channel.
- `ResultInv`: a result that is out is faithful, and stays so, since either no call can join any more or it is
  shared already.

**IntMap.** For any number of goroutines, values and entries and any finite set of keys (`KeysAssumption`, for the
bound on `misses`; `PointerAssumption` keeps the model values apart). `MapLinearizes` is the refinement itself:
every step of the code is a step of `AtomicMap` or a stutter. `MapsStayConsistent` supposes `[]RoomForNew`, an
address for every new entry, which is a bound of the instances and not of Go. The invariant `IInv` says of the maps:

- `OneKey`: whoever refers to an entry, a map or a goroutine that looked it up, does so under one key. So a write
  through an entry changes one key.
- `EntryInv`: the two maps have the same entry for a key, no entry of `dirty` is expunged, and none is expunged
  without a dirty map.
- `CopyInv`: an entry of `read` that `dirty` lacks is expunged or still to be copied by the one in `dirtyLocked`.
  So a promotion loses nothing.

and of each goroutine: where it holds `mu` (`MuP`), which operation is where (`CallP`), what holds while it copies
(`DirtyP`); `HeldP`, the heart of it: an entry that was looked up without `mu` is still in `read` under its key,
or is expunged, in which case the compare-and-swap fails; `SeenP`: what its keys and its entries hold now was held
at some moment of the call; and `RangeP`: a key that `Range` will not visit any more was visited or absent once. A
step of one goroutine keeps the invariant of the others if it keeps four things (`OthersKept`): their locals,
their entries in `read` or expunged, the maps unless it holds `mu`, and what they have seen. Most steps are quiet
(`QuietStep`); those that write to an entry share `WriteEntry`, those that promote `PromoteInv`. Each action has
one lemma, which proves both that it keeps `IInv` and the step of `AtomicMap` that it is.

**TimeSource.** For any clients, advancers, tickers, durations, timers and bound of the clock. `TimeInvariance` is `Spec =>
[]TimeInv`, and `TimeInv` has a part for each source.

- System time, `SystemInv`: a timer is active only while an idle client owns it; it is never sending with a full
  channel; what is in the pool is clean (`TimerOK`). The timer of a client in no call is clean
  exactly when the client has read its tick; one that is being drained is not clean, one about to be set is (`ObjOK`). No
  timer has two owners (`OneOwner`).
- Manual time, `ManualInv`: who holds the mutex (`LockInv`); the queue is a heap by due time whose timers know
  their index (`Queue`: `Indexed` and `Ordered`); none in it is due when the mutex is free or the loop over the timers is done
  (`DueInv`); a queued timer is that of a client in no call and has an empty channel (`ClientInv`); and the ticks of each ticker are a chain without gaps (`TickInv`).

`up` and `down` are recursive functions on the places of the array, and what they do to a heap with one wrong
place is proved by strong induction on the place (`UpSpec`, `DownSpec`); `PushQueue`, `PopQueue` and `RemoveQueue` are what the
actions use, `TopLeast` is why the loop of `advanceToLocked` may stop at the first timer that is not due. `BothKeepContract`
is the refinement: each action of either source is a step of `TimerContract`, seen through `Shows`, or a stutter.

**Only checked by TLC.**
`Terminates`, `EveryCallReturns`, `Answered`, `TickArrives`, `ResetReturns`: liveness under fairness is beyond the prover.
`GreedyLayout` and `UnionSound` of `Pretty`, `MeaningKept` and `Stable` of `Simplify`: they are stated
with RECURSIVE operators, which the prover does not take. `PositionsInRange`: not proved; it needs a bound on the texts and widths, below which
nothing wraps.

## 6. What is not modelled, and why

- The grammar, and so which texts are statements: generated tables. `Simplify` has the part of `a_expr`
  that is names, operators and parentheses; constants, casts, calls, `BETWEEN` and `OPERATOR()` are left out.
- The `doc` methods of the tree, one by one: compositions of the helpers that are modelled. They, and the formatters of the
  tree, are most of the repository's own lines, together with the evaluation and type checking that came along with
  the tree and that formatting does not run; so the modules stand for a small share of all lines.
- What `go/constant` makes of a number, with the error of `scan.go:682`; which texts Unicode composes and what its lower case is
  (`Composed` and `LowerCase` are constants).
- The memo of `be`: its key is the position and the identity of the list, all that the result depends on.
- A second call of one `Parser` (`parse.go:138`): its arrays are slices of the ones before, but no code makes one.
- Bits: a word is the set of its bits, so shifts and masks of `fast_int_set.go` are taken at their meaning; and the
  largest `int`, which an `intsets.Sparse` answers when it has no more elements (`fast_int_set.go:159`): it is taken to be in no set.
- In `SingleFlight`, the boolean by which `DoChan` says that it began the flight, and `NumCalls`: neither changes the group.
- The system's ticker, which is `time.Ticker`, and `FastIntMap`, which nothing calls.
- What formatting does not run: evaluation, encodings, wire protocol, session data, generated messages.

## 7. The order in which this was built, and what could follow

`FormatSQL` and its proofs; `IntMap` with `AtomicMap`; `SingleFlight`; the layout engine; `Simplify`; the scanner with its buffers and the encoders;
the time sources; the integer sets. What could follow: `BETWEEN`, casts and constants in
`Simplify`, whose signs the grammar folds; a proof that the layout chosen is the greedy one.
