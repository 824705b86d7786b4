# KeplerKV in TLA+

A verification project for KeplerKV, an in-memory key-value store with a
command language, aliases, batch commands, transactions and save files, in
C++11. Paths are relative to the root of the repository; `commands` stands for
`src/command_ast_nodes.cpp`.

## Inventory

| Component | State | Operations | Hard about it | What makes it correct |
|---|---|---|---|---|
| Lexer (`src/lexer.cpp`) | `tokens`, a position in the line | `tokenize`, one `lex*` per kind | unclosed strings, signs; each function moves the position itself | every character of a line is in one token, and no token joins two statements |
| Parser (`src/parser.cpp`) | `nodes`, a position in the tokens | `parse`, `parseCommand_`, `parseValue_`, `parseList_` | brackets of nested lists; an error in the middle of a line; `nodes` outlive the line | a line becomes its own commands, with all their values, or is refused |
| Commands (`commands`, `include/syntax_tree.h`) | arguments, options, `ignoresTransac_` | `validate`, `execute` | batches that fail or ask half way; what `execute` takes for granted | a validated command can be executed; a command changes only its keys |
| Handler (`src/handler.cpp`) | none of its own | `handleQuery` | the order of validate, log, execute; exceptions leave at any point | each command is rejected, logged or executed |
| Environment (`include/environment.h`) | `transac_`, `wal_`, silent mode | `addCommand`, `executeAllWAL`, `clearWAL` | a replay that throws | the log is replayed once, in order, or discarded |
| Store (`src/store.cpp`) | `map_`: keys to shared pointers | `set`, `update`, `del`, `rename`, `resolve`, `search`, save and load | values changed in place through shared pointers; cycles of aliases | each key has its own value; resolution ends |
| Values (`include/store_value.h`) | a number, a string, a name, a list | `incr`, `decr`, `append`, `prepend` | the ends of int and float | a value stays a value of its type |
| Save file (`src/store_value.cpp`, `saveToFile`, `loadFromFile`) | a stream of bytes | `toFile`, `fromFile`, one pair of functions per type | files cut short: the reader never looks at the state of its stream | what was written whole is read back exactly, whatever follows it |
| Input loops (`src/main.cpp`) | the line buffer, the query of a script | `interactive`, `fromFile` | the end of the input, questions that read the same input, several statements on a line, exceptions between statements | every statement is handled once, and nothing of one gets into another |

The parts interact by direct calls in one thread: an input loop calls
`handleQuery`, which runs lexer and parser, then per command `validate()` and
either `addCommand` or `execute(env, store)`. COMMIT calls back into the
environment, which executes the logged commands. Exceptions pass from any depth
to the `catch` in `main.cpp`. RENAME reads the terminal in the middle of its
loop. The file system sees each write of SAVE separately. There are no threads;
what can interleave with the program is the user (answers), the file system
(refused opens, lost writes) and the operating system (kill and restart).

## Modules

| Module | Models |
|---|---|
| `KeplerValues` | values, commands, `validate`, `resolveRecur_`, `incr`/`decr`, list growth; no state |
| `KeplerStore` | `map_` and the heap behind its shared pointers (`map`, `heap`); one operator per `Store` method that changes something |
| `Kepler` | the running program from the parsed commands on: handler, environment, every `execute`, SAVE and LOAD, exceptions, kill and restart |
| `TxnSpec` | what the program promises of commands and transactions, without loops, cells, prompts or files |
| `KeplerHistory` | `Kepler` with history variables, for properties that compare a state with an earlier one |
| `KeplerResolve` | any store `set` and `del` can build, to compare `Store::resolve` with the graph of names |
| `KeplerSave` | the bytes of a save file: what SAVE writes, where it may be cut, what LOAD makes of it |
| `SaveSpec` | what a save file promises, without bytes |
| `KeplerBuffer` | how a buffer grows part by part: the bytes of a list, the text of a query; no state |
| `KeplerLexer` | `Lexer`: one action per turn of the loop of `tokenize` |
| `KeplerParser` | `Parser`: one action per token, or end of a list |
| `KeplerMain` | `interactive`, `fromFile` and the first half of `handleQuery` around lexer and parser |
| `KeplerGrammar` | what lines and scripts mean to whoever writes them, compared with what `KeplerMain` makes of them |
| `MCKepler`, `MCHistory`, `MCResolve`, `MCSave`, `MCMain` | the instances for TLC |
| `KeplerProofs`, `KeplerRefines` | theorems about `Kepler` and `KeplerHistory` |
| `KeplerResolveProofs`, `KeplerSaveProofs` | theorems about `KeplerResolve`, `KeplerSave` |
| `KeplerMainProofs`, `KeplerGrammarProofs` | theorems about `KeplerMain`, `KeplerGrammar` |
| `KeplerInduction`, `KeplerRecursion` | the lemmas these share: induction over numbers, buffers; what `ResolveRecur` computes |

`Kepler` EXTENDS `KeplerStore`, which EXTENDS `KeplerValues`. `TxnSpec` is
instantiated in `Kepler` with the mapping `kv <- Contents, open <- transac,
log <- wal, active <- cmd`. `KeplerMain` EXTENDS `KeplerParser`, which EXTENDS
`KeplerLexer`. `SaveSpec` is instantiated in `KeplerSave`. `KeplerSave` and
`KeplerGrammar` EXTEND `KeplerBuffer`. No module declares a RECURSIVE operator:
what recurs in the code is a function over a set that contains its arguments
(the sets of seen keys, the depths of lists, the lengths of buffers), so that
theorems can be stated about it.

The two halves meet at the parsed commands: `KeplerMain` ends with them
(`nodes`), `Kepler` begins with them (`query`). What `KeplerMain` needs to know
of the execution is little, and is chosen freely there: whether a RENAME asks,
whether a command quits, throws or brings the process down.

### How Kepler corresponds to the code

- A step is one turn of a loop, or what happens between two points at which
  something else can intervene (an exception, a prompt, the file system, a
  kill). `pc` names the point: `dispatch` the loop of `handleQuery`, `commit`
  the loop of `executeAllWAL`, `exec` the loop of an `execute`, `ask` the
  `getline` of RENAME, `save` and `load` the loops over the file. `i` is the
  argument a loop has reached, `pending` the entries SAVE and LOAD have left.
- `committing` says that `executeAllWAL` is on the call stack, so that `Return`
  goes back to it and not to `handleQuery`.
- `Throw` is an exception: the rest of the line is lost, `wal` and `transac`
  stay as they are, because `COMMIT` clears the flag only after the replay.
- The positions a loop casts to an identifier are `KeyPositions`; `NullDeref`
  fires when a cast gives null there, which in C++ is undefined and in practice
  a crash. `validate` is the source's, so that `CrashesHaveCause` compares the
  two.
- The heap has a cell per live value. `Set` takes a fresh one (`evaluate()`
  allocates), `Mutate` writes through the pointer, and `Rebind` destroys what
  no entry points to any more, as the last `shared_ptr` does.
- `disk` holds the whole entries of the default save file, `cut` the key under
  which a LOAD reads the entry the file ends in. `SaveOpen` empties the file,
  `SaveItem` adds one entry. `CutFile` is what a write that fails and that nobody
  checks (`SaveLost`), a null entry (`SaveNull`) or a kill leaves of it.
- A LOAD reads the whole entries one by one (`LoadItem`) and then meets the cut
  one: it stores a value nobody wrote (`LoadCut`), throws (`LoadThrows`) or
  recurses until the stack is full (`LoadOverflows`). `KeplerSave` has the bytes
  behind these three.
- `map` binds a key to `Null` when `LoadThrows` leaves an entry without a value.
  C++11 leaves the order of `map_[key] = StoreValue::fromFile(fp)` to the
  compiler, and `CMakeLists.txt` names none: both orders are outcomes. A build
  with g++ 12 evaluates the right side first and leaves no such entry. LIST and
  SAVE dereference it (`ListNull`, `SaveNull`), GET, STATS and RENAME look first.

### How KeplerMain corresponds to the code

- `pc` names the place: `open` and `read` are the loops of `fromFile` and
  `interactive`, `lex` the loop of `tokenize`, `parse` the loops of the parser,
  `run` the loop over `nodes`.
- `line`, `it`, `tokens`, `tt` and `nodes` are the members of `Lexer` and
  `Parser` of these names, which live as long as the program. A token is kept
  as the stretch of the line it stands for.
- `command` and `lists` are the frames of `parseCommand_` and of the recursive
  `parseList_`. `CloseList` is a return of `parseList_`: it leaves the bracket
  where it is, so that the list around it returns as well.
- `Caught` is the way of any exception of the parser: the lexer and the parser
  stay as they are, half filled.
- `ReadInput`, `ReadEnd` and `ReadAgain` are the three outcomes of
  `std::getline`: a line; nothing, with the buffer emptied; nothing, with the
  buffer left alone, because the stream already knew of its end.
- `Prompt` is the `getline` of RENAME, which reads the same input. `asks` counts
  how often the RENAMEs handed over may ask, so that a COMMIT may ask too.
- `given` and `answers` are history: what was handed over, which lines were
  answers.

### How KeplerSave corresponds to the code

- `file` is a sequence of units, one for each `push_back` or `insert` of the
  `serialize` functions and each `write` of `saveToFile`; `torn` says that bytes
  of the last one are missing. `CutFile` cuts at any byte, which is what a kill,
  a null entry or a full disk leaves of a buffered file.
- `good` is the state of the reading stream. Nothing in `loadFromFile` or in
  `fromFile` looks at it: the actions ending in `Cut` and `ReadNothing` are the
  reads past the end, whose targets hold what the constructor or the memory
  gives: a number partly read, a text of null characters, a size or a type
  nobody wrote.
- `LoadThrows` may leave a new key bound to `Null`, as in `Kepler`. Such an
  entry brings LIST and SAVE down, SAVE after it has emptied the file.
- `stack` holds the lists `ListValue::deserialize` is in the middle of. `deep`
  holds those among them whose length nobody wrote, because it was not there to
  be read: each wants as many more items as the memory happened to say, up to
  the largest `size_t`. As types are missing too by then, such an item may be
  such a list again; `StackOverflow` ends the process when its stack is full. An
  outermost one becomes `Lost`, a value of which nothing is known.
- `written` is history: the entries the last SAVE has written and where each
  ends in the file. The refinement mapping compares it with what is left of the
  file: `WholeEntries` are the entries there in full, `CutKey` the key of the one
  that is not, `ToLoad` what a load has still to restore.

### How KeplerGrammar reads a statement

- `Part` is what a token says: a value says itself, a bracket what the way of
  writing `b` gives it, `Silent` nothing, `Brackets` itself. `Source` is what the
  tokens of a statement say from its command to its end, `Args` what the
  arguments of the command are when they are written out again. `NoValueLost`
  compares the two without brackets, `ListsReadBack` with them.
- `Spelled` writes out an argument, whose lists may be nested as deep as the
  query has tokens.
- `QueryOf` is the query that ends in a line of a script: the lines after the
  one in which the last query ended, joined as `fromFile` joins them, and of its
  own line what is in front of the first semicolon. What follows that semicolon
  on its line is in no query, as in `fromFile`.

### Abstractions and bounds

- Keys and strings are model values. Lists hold scalars and lists of scalars,
  nested no deeper. `IntMax` and `FloatMax` set the ends of the numbers: an int
  wraps (what g++ emits for the overflow the standard leaves undefined), a float
  at `FloatMax` absorbs the 1. Fractions are left out.
- `MaxWal` bounds the log and `MaxLen` the lists: `Bounded` keeps the user from
  entering a line that logs or extends once the bound is reached. They bind only
  what may be typed.
- A regular expression that SEARCH rejects cannot be written: only identifiers
  pass `validate`, and they are letters, digits and underscores.
- `KeplerSave` does not save again a store that a broken file has put a key or a
  value into that nobody stored. `Torn` stands for every key and text with null
  characters in it, `Lost` for every list whose type or length nobody wrote.
  `SizeMax` is the largest `size_t` and `StackMax` the depth of the stack: they
  are the program's own limits, given small values, and the theorems hold for
  any. Memory that runs out while a long list is read is `LoadThrows`.
- In `Kepler` `Unwritten` holds the values a cut entry may come to, any subset of
  the values; the entries a file keeps are any of those written, a superset of
  the beginnings `KeplerSave` cuts it to. `Torn` is not at once the key of a whole
  entry and of the cut one.
- The alphabet of `front` has one or a few characters for each class that the
  lexer tells apart, and the command words and options it needs. A null
  character in a line, which ends it early, is left out.
- `given` is not prolonged for ever when the end of the input is executed again
  and again.

## Runs

| Run | Instance | Shows |
|---|---|---|
| `store` | 3 keys, 4 cells, numbers, lists and aliases | `TypeOK`, `CellsOwned`, `MutationReachesAliases`, `RenameLosesNothing` |
| `txn` | 2 keys, log of 2, commands that throw, ask or crash on replay, SAVE and LOAD, files that end within an entry | `WalOnlyInTxn`, `LoggedValidated`, `Aligned`, `KeepsTxnSpec`, and under fairness `QueryCompletes` |
| `files` | 2 keys and a torn one, SAVE, LOAD and LIST, files that end within an entry, kill and restart | `NoMixedSave`, `Aligned`, `LoadMerges`, `CrashesHaveCause`, `TxnIsolation` |
| `resolve` | every store over 3 keys, lists of 1 and 2 aliases and lists in lists | `CircularIffCycle`, `EndsAtValue`, `ListsResolveElementwise` |
| `save` | 2 keys, a number and a list with a list and a text, every cut; lists nobody wrote of 0 to 2 items, 4 calls deep | `SaveTypeOK`, `KeepsSaveSpec`, `LoadEnds` |
| `front` | every line of 3 characters, every tail of `\s` of 6 brackets or 4 other characters, dialogues of 3 lines, scripts of 3 lines or 2 files | `MainTypeOK`, `TokensTile`, `SemicolonsEndStatements`, `EveryCommandOnce`, `HandledOnce`, `NoValueLost`, `ListsReadBack`, `GivenMatchesFile`, `InputConsumed` |

Why the bounds are enough: every cycle of aliases has a self-loop, a 2-cycle or
a 3-cycle, and a key outside it, over three keys; each cell of the heap beyond
the number of keys is only needed between an allocation and the release of the
old value, so one more than the keys suffices; a log of two has a command
before and one after the one that fails; a batch of two has an element before
and after. A file of two entries has one in front of the cut and one that is
cut, or that an earlier save left; the value with a list in a list has every
kind of unit but those of the number, which is the other value. Lists nobody
wrote of up to two items, on a stack of four, are empty, end with one item, go
on after a list among their items, and fill the stack below two lists that were
written. `LoadEnds` is checked with these limits and not with those of a machine:
with those a load of such a list may take as long as 2^64 items take, and ends
in want of memory first. A token is
decided by the character it begins with, the next one and the one that ends it;
six brackets write every shape of a list of two lists; three lines of a dialogue
hold a question, its answer and what follows, with and without a newline at the
end. The theorems below have none of these bounds.

Six runs expect a violation. Each states what the repository says and what
the code does not do:

| Run | Said | Done |
|---|---|---|
| `null_rename` | `include/syntax_tree.h:203`, what is executed has been validated | `\rename a 1` passes `validate` and dereferences null |
| `acid` | `README.md:10`, ACID | a circular reference ends the replay: part of the transaction is applied, the rest still logged, the transaction open |
| `decline` | `commands:256`, no changes made to the store | earlier pairs of the batch are already renamed |
| `nested` | `docs/planning.md:62`, RESOLVE recursively finds identifiers within lists | those in a list within a list are left as they are |
| `matrix` | `docs/manual.md:254`, multidimensional lists are supported | the manual's own `\set matrix [[1, 2, 3], [4, 5, 6], [7, 8, 9]]` is refused: its second row is taken for another argument |
| `script` | `docs/manual.md:83`, semicolons separate commands | of two statements on a line of a script the second is dropped |

What the models say besides, where no run is kept for it: a SAVE whose writes
fail prints SAVED all the same (`SaveLost` returns as `SaveDone` does), though
`docs/manual.md:181` says that it saves the state of the store; `getFilename_` refuses
every file name, though `docs/manual.md:185` shows one; `validate` of SEARCH
refuses quoted patterns, which `docs/manual.md:383` recommends; a minus sign in
front of a number is an unknown token (`LexUnknown`); a quotation mark at the end of a line is
taken for a string (`LexString`); a statement that does not begin with a command
is refused at the start of a line and ignored later in it (`SkipToken`); a
script whose name does not end in `kep` is announced as skipped and executed
(`OpenFile`); after the end of a piped input the last query may be executed for
ever (`HandledOnce`).

### Fairness

`FairSpec` of `Kepler` adds `WF_vars(Internal)`: the program is one thread and
goes on while it has something to do. Nothing is assumed of the user, the file
system or the operating system (`External`). `QueryCompletes` therefore says
that work ends at a prompt, at the next line or at the end of the process; a
prompt may wait for ever. `txn` has cycles of aliases in the log so that replays
throw, and files that end within an entry; the entries of a file are finitely
many here, and that reading one of them ends is what `LoadEnds` says, at the
level of bytes.

`KeplerSave` assumes `WF_vars(LoadStep)`: a load goes on reading, whatever the
file holds. `LoadEnds` follows because each item of a list nobody wrote uses up
one of its length and each such list one call of the stack; it says that a load
ends, not that it ends well. `KeplerMain` assumes `WF_vars(Next)`: its input is a file or a pipe,
which is there and does not wait, so every step is the program's own; that it
reads an endless end of input for ever is not excluded, and `InputConsumed`
claims no more than that the input gets read up.

## Proofs

Every safety property the passing runs check is also a theorem, for all keys,
commands, lines, files, cells and bounds. The assumptions are the named ones of
the modules: `NumberAssumption`, `NilAssumption` and `NoCommand` (`Nil` is none
of the values, keys, contents or commands), `RefAssumption` (`Nil` and
`Null` are no addresses and differ), `FileAssumption` (a cut entry is read as a
value under a key), `QueryAssumption` (lines consist of commands), `BoundAssumption`; for
`KeplerMain` `CharAssumption` (the classes of characters are apart) and
`ProgramAssumption` (a program that is not given scripts has one input); for
`KeplerResolve` `BindingsAssumption` (keys are bound to values); for `KeplerSave`
`ValuesAssumption` (users store values), `SizeAssumption` (the limits are numbers)
and `TornAssumption` (what stands for a broken key or text is one, and an entry
without a value and a lost list are told apart from values). TLC
evaluates each of them on the instances of the runs.

`KeplerProofs` proves `Invariance`: `IInv` is inductive. `IInv` joins the types,
`CellsOwned`, `WalOnlyInTxn`, `LoggedValidated` and `Aligned`, and none of them
can be proved alone. The type of the heap after an INCR needs that the cell an
entry points to is live; that a SET stores a value needs the loop to stand on
the first element of a pair (`Aligned`) of arguments that `validate` accepted
(`LoggedValidated`), in a command that may come from the log; that a prompted
RENAME still names two keys needs `Aligned` at `ask`. From `Invariance` follow
`TypeCorrect`, `StoreOwnsCells`, `LogNeedsTransaction`, `OnlyValidatedRuns` and
`LoopsAligned`, and about steps `Isolation`. That a file being written ends in no
cut entry (`SaveUncut`) is part of `IInv` for the sake of `Aligned`.

`KeplerRefines` proves `RenameIsSafe` and `Refinement`, `Spec => KeepsTxnSpec`.
The refinement goes action by action. Each store operation leaves the keys it is
not given alone (`SetOnly` ... `MutateOnly`; here ownership of cells turns a
change in place into a change of one key); `NamedSubject` shows that the
positions a loop reads are subjects of the command in the sense of `TxnSpec`;
then a turn of a loop is `Work`, an exception is `Work` that ends the command,
a replay is `RunNext`, a kill is `End`, and SAVE, prompts and reports change
nothing `TxnSpec` sees. `SameValues`, `SameChecks` and `SameResolve` identify the
instance's copies of `KeplerValues` with the originals.

`KeplerRefines` also proves `AliasesSeeChanges`, `Spec => MutationReachesAliases`:
a change in place changes one cell (`IInv`), and `ChangeIsSeen` of
`KeplerRecursion` says that a chain of aliases that ended at that key still does,
because what changed was not an alias and is none now.

From `History`, `KeplerProofs` proves `LoadsMerge`, `SavesNeverMix` and
`CrashesAreExplained`. `HistInv` adds to `IInv` what none of these properties
says by itself: that a LOAD in its loop has so far stored exactly the entries it
has read (`LoadSoFar`), that one about to open the file finds the store as the
command found it, that a SAVE still has before it what it opened the file with,
and that every entry without a value is at a key where a LOAD of this process
threw (`NullsFailed`). `SetContents` shows that a loaded entry changes one key,
which needs that no live cell is handed out again, and `NextLeavesNulls` that no
step but a LOAD that throws makes an entry without a value, a RENAME to such a
key included. With that, `CrashesAreExplained` takes each step that ends in
`crashed`: an argument that is no identifier is the new name of a RENAME, because
`validate` looked at all the others (`OnlyRenameMisnames`); a LIST or SAVE has met
an entry without a value; a LOAD was at the cut entry.

### Induction over data

`NumberInduction` of `KeplerInduction` is induction over the numbers in a set: a
set that holds 0, and with each number the next, holds all of them. It follows
from the library's theorem that finite subsets are well-founded, which takes no
operator as parameter. With it `BufferSteps`, `SpelledSteps`, `NestedSteps` and
`ResolveSolved` show that the recursive functions of the models satisfy the
equations they are defined by; each builds the function step by step and shows
that it is the only one. After that the functions are used only through lemmas
about one step.

`KeplerResolveProofs` proves `CircularExactly`, `AliasesEndAtValue` and
`ListsElementwise` of every store that `set` and `del` can build, over any set of
keys. A walk of `resolveRecur_` has seen some keys and the store holds finitely
many (`StoreStaysFinite`), so every call has fewer keys left to see than its
caller: `WalkInduction` is the induction over that number. For `CircularExactly`
it is not enough to speak of the walk that begins with nothing seen: the
statement proved by induction is that a walk with any set of seen keys fails
exactly when it can reach a seen key or a cycle.

`KeplerSaveProofs` proves `SaveTypesAreKept` and `SaveKeepsPromise`. `IInv` of
that module says of the file that it begins as the entries in `written` begin
(`FileInv`), and of a load that is under way where it is: with a good stream at
the start of an entry, or in it, such that what is on the stack and what is left
of the entry in the file together are its value (`Reading`, `Doomed` when the end
comes first); with a failed stream at the end, with the key of the cut entry,
and only then in lists nobody wrote, each but the innermost waiting for an item
(`ReaderInv`, `DeepOK`). Neither property can be proved without it: that a whole entry
comes back exactly needs that the unit the stream meets is the one that was
written next, through lists in lists (`EntryStands`, `GotWhole`), and that
nothing but the cut key is spoiled needs that the stream can only fail inside the
cut entry (`GotSpoiled`, `LoadBreaksOff`). `StepLemma` then maps each step to a
step of `SaveSpec` or to none.

### The input

`KeplerMainProofs` proves of every input, of any length and over any alphabet
that meets `CharAssumption`: `IteratorsInBounds`, `LinesTiled`, `StatementsApart`
and `CommandsOfTheQuery`. The first three share the invariant `MainInv`.
`LexPushes` is its core: every turn of the loop of `tokenize` skips a space or
makes a token of the characters from `it` up to a place beyond it, among which a
semicolon is alone or quoted; the tiling follows for any such step
(`LexTokenKeeps`). `OnceInv` adds that the command being built keeps the token it
began at, whatever arguments and options it is given; then the commands parsed
sit at the COMMAND tokens that have been passed, and nothing but the start of
`parse`, which empties `nodes`, moves both (`ParsingOnce`, `NoneYet`).

`LinesHandledOnce` is `Spec => []HandledOnce`. Its invariant `InputInv` tells two
situations apart: before the end of the input (`Fed`) what was handed over is
what was read and did not answer a question, and the buffer holds the last of
it; at the end (`Ended`) the buffer is empty or holds that line, and only then
ran the line, or an answer, into the end. That a line that is read becomes the
last of the queries rests on `KthWithLast`: a number above all others is counted
after them and moves none of them.

`KeplerGrammarProofs` proves `ScriptsGiven`, `Spec => []GivenMatchesFile`. While a
script is read, what is in the buffer is the text since the line in which the
last query ended, and while a query is handled that line is the last one read
(`Scripted`); the way back to the loop, after an exception too, empties the
buffer (`ScriptedKept`).

It also proves `ValuesKept` and `ListsAreReadBack`. Both need to know what the
parser has made of a statement half-way: `Made` writes out the arguments so far
and after them the lists that are open, each after the bracket that opened it,
and `Past` is what the tokens read so far say. One lemma for each kind of step
says what it adds to `Made` (`LeafEffect`, `OpenEffect`, `CloseEffect`,
`IgnoreEffect`) for any way `b` of writing brackets, and `PastSteps` what it adds
to `Past`. `Deep` bounds the nesting by the tokens read, so that `Spelled` is
defined for every argument. `ValuesKept` follows from `Made(Silent) =
Past(Silent)`. With brackets the two differ: at a closing bracket the parser ends
all open lists at once, so `Made` is ahead of `Past` by the brackets that must
follow (`Matches`), and where inner lists come last exactly these do follow
(`MatchesPasses`); at the end of a balanced statement there are none left.

### What is checked by TLC only

Liveness under fairness, which these provers do not reach: `QueryCompletes`,
`InputConsumed` and `LoadEnds`. The six violations are counterexamples of TLC.

## Not modelled

- Text printed, colours, help, silent mode, sizes reported by STATS, matches of
  SEARCH: nothing of it is read again by the program. A script that is given
  only options hands over nothing and ends.
- Other lengths of a file name than shorter than an extension or not, and the
  content of an extension, which only changes a warning.
- Memory that runs out, except where a size nobody wrote is asked for
  (`KeySizeTooLarge`, `LoadThrows`), and a stack that is full, except where lists
  nobody wrote nest (`StackOverflow`, `LoadOverflows`).
- What an `int` does at its ends: the wrap is assumed in `Incr` and `Decr`.
- A process that ends because the path of a script is too short to have an
  extension is in `KeplerMain` (`AbortOpen`), but no property speaks of it.
- Concurrent use of a save file by two processes: nothing in the code provides
  for it.
- Constant texts and macros (`include/error_msgs.h`,
  `include/terminal_colors.h`), build and test scripts.

## Plan

1. Done: the program from the parsed commands on (`KeplerValues`, `KeplerStore`,
   `Kepler`, `TxnSpec`, `KeplerHistory`, `KeplerResolve`) with its theorems.
2. Done: the save file (`KeplerSave`, `SaveSpec`) and the way of the input
   (`KeplerLexer`, `KeplerParser`, `KeplerMain`, `KeplerGrammar`), with the
   theorems about lexer and parser; the theorems about SAVE and LOAD.
3. Done: the theorems about what recursive definitions compute: aliases and
   lists (`KeplerResolveProofs`, `AliasesSeeChanges`), the bytes of a save file
   (`KeplerSaveProofs`), scripts and arguments (`KeplerGrammarProofs`).
4. Still worth stating and proving: that both models agree on where they meet,
   a command `KeplerParser` builds being one `KeplerValues` can validate; for each
   of the three liveness properties, the measure that every step of the program
   makes smaller, as an action property.
