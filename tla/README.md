# Omnisc'IO in TLA+

Omnisc'IO learns the I/O behaviour of an HPC application while it runs and
predicts its next operations. This directory holds a model of its logic in
TLA+, the configurations that check the model with TLC on small instances, and
proofs, checked by TLAPS, that some of its properties hold for instances of any
size.

Paths below are relative to the root of the repository.

## The system

| part | source | state | operations |
|---|---|---|---|
| oracle | `src/sequitur/` | a grammar (rules, nodes, digram table) and its predictors | `input`, `predict_next`, `predict_all`, iterators |
| dictionary | `src/dictionary.hpp`, `src/tree.hpp` | a tree of letters, an identifier per sequence, a file | `insert`, `open`, `close` |
| tracer | `src/omniscio.cpp` | the operation in progress, the previous symbol, four tables | `omniscio_{open,close,read,write}_{start,end}`, `_next`, `_init`, `_finalize` |
| wrappers | `src/posix.cpp`, `src/mpi.cpp` | the tracing flag, the allowed descriptors and streams | sixteen I/O functions, the MPI functions |
| file handles | `src/files.cpp` | maps between names, handles and descriptors | open, close, name, three times |
| trackers | `src/sizes.hpp`, `src/offsets.hpp` | sizes and offsets seen by one symbol or transition, shared by copies | constructors, assignment, destructor, `input`, `predict` |
| containers | `src/matrix.hpp`, `src/vector.hpp`, `src/log.hpp`, `src/stats/`, `src/model.hpp` | tables, logs, statistics | look-ups, sums, output |
| analyzer | `src/sequitur/analyzer.cpp` | tables and trackers of its own, the previous line | read a log line by line, compare it with what was predicted |
| reader | `test/reader.cpp` | none | print what the oracle predicts |

How they interact. The application calls `read`, `MPI_Send` and so on, and gets
the wrappers. A wrapper that traces brackets the library's function by the
start and the end of an operation. A start takes the stack trace, turns it into
a symbol by the dictionary, feeds the symbol to the oracle (through
`model.hpp`), and updates the tables of the symbol and of the transition from
the previous one. `omniscio_next` asks the oracle which symbols may come next
and looks each of them up in the tables. An entry of the tables of sizes and
offsets is a tracker, which has an oracle inside once it has seen two values.
The analyzer does offline, from the log, what the tracer does online. The libraries call the wrappers in
their turn, which is what the flag is for. Nothing is threaded: MPI is
initialised by `MPI_Init`, no variable is protected, and all interleaving is
that of calls inside calls.

What is hard about it:

- *Calls inside calls.* `input` runs a cascade: `check`, `match`, `substitute`
  and `expand` call each other while their callers hold nodes and rules that a
  nested call may replace or free. The wrappers nest in the same way around one
  shared flag.
- *Redundant state.* Counters and sets of users, owners, the digram table, the
  predictor flags, links and global set must agree with the grammar after
  thousands of inputs. A disagreement shows, if at all, much later.
- *Memory.* Freed nodes may come back as others. What the code reads then
  depends on the allocator. Some fields are read without ever having been set.
- *Sharing.* Copies of a tracker share what it knows, by a count kept by hand,
  until one of them needs another representation.
- *Arithmetic.* The analyzer mixes signed offsets with unsigned sizes.
- *Failure.* Starts that are refused or half done (no stack trace), opens that
  fail, descriptors that are closed where no wrapper sees it, streams opened twice.
- *Termination* of the cascade, and of the walk down the dictionary.

`PROJECT.json` lists these hazards one by one, each at the line where it bites
and with the properties that watch it.

## The modules

    OracleContract <---------- implemented by --------- OracleProperties
          ^                                              |         |
          | INSTANCE                                   Oracle   Iterators
          |                                                \     /
        Tracer <-- Interception                          Predictors
                                                             |
    DictionaryContract <-- DictionaryProperties           Symbols
                                |
    Files                   Dictionary

    Trackers ---+--> Sizes ---+
                |             +--> OracleContract
    Analyzer ---+--> Offsets -+          ^
        +--------------------------------+

`MC*.tla` give the sets of small instances, and `*Proofs.tla` hold the proofs:
`HeapProofs` those about the heap of `Symbols`, `OracleProofs` those about the
calls that work on it, and `Counting` the lemmas on how often symbols and pairs
occur in a sequence, and on sums, that three of the others share.

### The oracle: `Symbols`, `Predictors`, `Oracle`, `Iterators`

`Symbols` is the heap that `symbols.cpp` and `rules.cpp` work on, a record of
partial functions from addresses to nodes and rules, with an operator for every
member function that runs to its end without calling back (`Join`,
`InsertAfter`, `Replace`, `Expand`, `RuleOfDigram`, ...). Deleting a node takes
it out of the domain, so a read of freed memory is an error that TLC reports,
in the model of every property. There is one exception, `input`, which really
does read the node it inserted after it may have been freed; `g.stale` keeps
the value that its memory holds. `Recycle` says whether the allocator hands a
freed chunk out again (most recent first, as small bins of the usual allocators
do) or never.

`Oracle` is the state machine. Its `stack` is the C++ call stack of the
functions that do call back, one frame per call whose work is not done:

| frame | code | steps |
|---|---|---|
| `check` | `symbols::check`, and `match` up to its first call | `CheckNoDigram`, `CheckNewDigram`, `CheckOverlap`, `CheckReuseRule`, `CheckNewRule` |
| `substitute` | `symbols::substitute` up to its last `check` | `Substitute` |
| `tidy` | the end of `symbols::match` | `Tidy` |
| `update` | `symbols::update_predictors` | `UpdateChild`, `UpdateSelf` |
| `learn` | the end of `oracle::input` | `Learn` |

`Predictors` holds the passes over predictors as functions of the heap:
the value `compute_next_predictors` returns (0 to 3) and the predictors it
computes for each node, the marking of nodes downwards and upwards, and one
round of `update_predictors`. The walk that calls itself is in `Oracle`, child
by child in the order of addresses, because its order matters. `Iterators` has
`predict_next`, the iterators and `predict_all`.

The model was compared with the program: compiled next to a driver that dumps
nodes, rules, counters, flags and links, on every input of up to 12 values over
two letters and up to 8 over three, with an allocator that recycles and with
one that does not, the heaps were equal after every call.

`OracleContract` is what users of the oracle rely on: it remembers what it was
given, in order, and predicts between inputs only values that have followed the
last one. `OracleProperties` shows that the grammar implements it
(`ContractHolds`), by mapping the expansion of the start rule to the memory.

Two properties say less than one would like, or something else, because the code does.
`RuleUtility` asks for one use of a rule where Sequitur wants two: `match` looks
for an underused rule only at the first symbol of the rule it is tidying up
(`symbols.cpp:222`), and after the 14 letters `abbbaaabaabbaa` a rule is used
once, in second place. What that look achieves is `FirstUsedTwice`. And
`PredictAllReads` says of an iterator of `predict_all` that it reads the input on from a
predicted value, but part of it twice, see *What does not hold*.

### The dictionary: `Dictionary`, `DictionaryContract`

The tree is a sequence of nodes with the pointers of `tree.hpp`. A call of
`insert` is a walk, with one step for each sibling that `std::find` compares
and for each call of `insert_recursive`. `Garbage` says whether the memory of a
new node may hold something other than zero, since its constructors leave four pointers
unset. `DictionaryContract` is a map that grows by one fresh identifier at a
time; every walk takes effect when it returns.

### The tracer and the wrappers: `Tracer`, `Interception`

`Tracer` is `omniscio.cpp`, on a model that is only known to keep
`OracleContract`: after a start, `predicted` is any set of values that have
followed the last. What is shown of the tracer and of the analyzer holds of an oracle that does
so, which the real one does not once it has read recycled memory (`recycled_node`). The tables keep how many observations an entry has had;
the sizes, offsets and dates are left out.

`Interception` is `posix.cpp` and `mpi.cpp`. A wrapper that clears the flag is
a frame on a stack, with the value of the flag it found, and goes through
start, call of the library, end. The application calls with an empty stack, a
library from inside the wrapper on top. The functions of one interface differ
in names only. The application may also bracket operations by hand, in
pairs, and ask for predictions. Log files are opened and closed by `init` and `finalize`
through the very same wrappers.

### File handles: `Files`

The three copies of each function in `files.cpp`, with the interface as a
parameter. Nothing in the repository calls these functions yet: the environment
opens and closes files as their documentation describes.

### The trackers: `Sizes`, `Offsets`, `Trackers`

`Sizes` and `Offsets` say what a tracker remembers, and how that changes when
it is fed: one value; then an oracle over values, with a symbol for each; then,
past a limit, a mean or the word "following". A representation is a record with
the fields of its class; the limits are constants, sixteen and twenty-four in
the code. Means are kept as exact sums, and `Truncated` says what converting a
mean of doubles to `size_t` may give: the rounding of the doubles is assumed to move a mean of
`n` values by at most one `n`-th, down or up, which is so as long as `n` times the sum stays well
below 2^53. (Beyond it the mean of sizes that are nearly all the same may come out below, or above, all
of them.) The default constructor of `offset_op`
leaves a field unset which the comparisons read: `Memory` is what it may hold.

`Trackers` is about the objects: trackers point to representations and count
who shares them. Copies share; the one that is fed past what the shared
representation can hold takes another, and the others stay behind (with the new
value, if it was a grammar, which is fed before the limit is looked at). The
two headers do this by the same code, so the module is written once and a
behaviour picks its class in `Init`. The program around them is any, within two
conditions that the repository keeps: it assigns no tracker that has observed
nothing, and none to itself. Both would be undefined (`sizes.hpp:243`,
`sizes.hpp:238`).

### The analyzer: `Analyzer`

A step is one iteration of the loop of `analyzer.cpp`: it looks up what was
predicted, in tables where looking up adds entries, then enters the line in the
tables, then asks the oracle. The oracle is any that keeps `OracleContract`,
the entries are representations of `Sizes` and `Offsets`. The hit ratio is
computed as the code does, `size_t` modulo `Width`, in whole percents.

## The runs

| run | instance | states | shows |
|---|---|---|---|
| `oracle_grammar` | 3 letters, 9 inputs, recycling | 63 000 | the grammar and everything that is redundant with it, after every step |
| `oracle_prediction` | 2 letters, 12 inputs, no recycling | 66 000 | contract, predictors, what iterators of `predict_all` read, termination |
| `dictionary` | 4 sequences | 142 000 | the map, the identifiers, the file, termination |
| `interception` | 2 symbols, 3 operations, 1 descriptor, 2 initialisations, depth 3 | 599 000 | the tracer under its wrappers |
| `file_handles` | 3 names, 2 interfaces with 2 descriptors | 118 000 | the maps lead where they should |
| `trackers` | 2 trackers, 3 representations, 3 values, limits 2, fed up to 4 times | 138 000 | counts, and what a representation knows and predicts |
| `analyzer` | logs of 4 lines, 2 symbols, 3 sizes, 2 offsets, limits 2 | 118 000 | the tables, what is read from them and predicted, the hit ratio |
| five further runs | | | a counterexample each, see *What does not hold* |

Why the bounds are enough. The first rule is made at the fourth input (`abab`),
first reused and first expanded at the sixth (`ababab`, `abcabc`), and a match
runs inside another from the eighth (`aaaaaaaa`); freed nodes are handed out
again inside one cascade from the fourth. Nine inputs over three letters
contain all of these, with what may follow them, and every step fires. Predictions need
repetitions of repetitions, which two letters reach sooner. Some of what goes
wrong with predictions needs more than twelve inputs: `recycled_node` takes
thirteen, and `dangling_predictor` sixteen, which is why that run reads one given
sequence instead of all. Twelve are few, then, for the properties of predictions, and they are
stated so that they held on longer inputs too (random inputs of up to 24 letters, followed
with TLC's simulation as far as no link dangled); the properties of the grammar are proved for any
length. Permuting letters is a
symmetry, as they are only compared. Four sequences branch at the first and at
the second letter, share prefixes, and one is a prefix of another. In the run of the
wrappers one descriptor is opened traced and untraced, reused, closed in both
ways and leaked; depth three is a library's I/O, inside an MPI call inside an
MPI call. Two initialisations are a restart after `finalize`, or
`omniscio_init` after `MPI_Init`. The run has POSIX only: the C library's
wrappers do the same but do not ask whether a file is regular, and the proofs
cover both. With limits of two, three values take a tracker through all its
representations, in four inputs with a value repeated on the way. Two trackers
share, part and meet again, and three representations are the most they need: while
one moves on, its old one and that of the other are still there. Four lines of
a log make three transitions, so that one is seen three times, or two
of them are learnt and the third compared. The unset field takes three values, so that
accesses which all follow each other take a tracker through all its representations. Modulo 1024 every sum of the
instance wraps around when it is negative, and only then, as it would modulo 2^64.

The types of the dictionary are not checked by its run but proved
(`DictionaryProofs`, `Typing`).

`CHECK_DEADLOCK` is never turned off. The oracle stops only when the bound on
its inputs is reached (`Finished`), so the absence of deadlock says that a
cascade never gets stuck.

### Fairness and termination

`Dictionary` assumes that a call in progress goes on (`WF` on the steps of the
walk): it is a sequential program, and nothing else runs meanwhile.
`InsertReturns` then says that the walk ends. For the oracle, `CascadeDescends`
states termination as a property of steps: every step of the cascade decreases a rank of
four naturals. With the absence of deadlock this is termination, and it speaks
of steps alone, so that no fairness is needed to check it. Nothing is
assumed of the application, which may stop at any time, nor of the order in
which libraries call.

## What does not hold

Five runs show a behaviour of the code that one of its comments, tests or
interfaces rules out. Four of them are wrong in the code:

- `forgotten_digram`: after `abbbaab` the digram `bb` is in the grammar and not
  in the table, so it will not be matched. `symbols::join` takes care of triples
  only when the node on the left is no guard.
- `recycled_node`: `input` passes on the node it inserted after `check` may
  have freed it. On a recycling allocator the predictors then advance past
  another value and `predict_next` answers with one that never followed.
- `dangling_predictor`: after the 16 letters of `MCDangling`, between two inputs,
  a node holds a predictor link to a node that was deleted, which the next
  advance of the predictors would read. `substitute` erases a node from the
  predictors of its parents only if the node's own flag says that it is one
  (`symbols.cpp:136`). But a link may exist where the flag is down: while
  `update_predictors` walks, a node that one parent has made a predictor is
  visited again below another and reset.
- `hit_ratio`: a predicted access that would end before the start of the file
  gets a hit ratio above 100 %, because its negative end becomes a large
  unsigned number. `HitRatioExact` shows that the ratio is right otherwise,
  for lines of more than no bytes.

In `init_twice` the documentation asks for a call of `omniscio_init` that the wrapper of
`MPI_Init` has made already; a second one breaks the log of operations.

The other runs avoid these cases by their constants (`Recycle`, `Garbage`,
sequences of two letters or more) or by the premise of the property
(`HitRatioExact`), never by a guard. `recycled_node` is about prediction only:
the grammar is right on any allocator, and `oracle_grammar` runs on the one
that recycles.

Some smaller observations have no run:

- Iterators of `predict_all` read the rest of a rule twice. `build_predictor_stack_from`
  pushes the terminal, and so does the call above it: when the iterator comes to the end of the
  rule, it steps over the same terminal once more. After `aba` the
  prediction is `b` and the input went on with `ba`; the iterator gives `baa`, which is
  what `test/reader.cpp` prints as its long-term prediction. `PredictAllReads` says
  exactly what is read.
- A path that `predict_all` follows may begin where the last value has not gone before,
  since rules are shared by their users: after `aaaaba`, for instance. Its first
  value has followed the last one elsewhere.
- `predict_all` and `predict_next` need not agree. After `aaaabaaaabaabaa` a
  node is a predictor that no predictor above it has in its rule: it is in the global set,
  which `predict_next` reads, and not found by `predict_all`, which goes down from the
  root through the bodies of rules, to the nodes that are flagged. `PredictAllReads` includes that the
  first value of an iterator is always among those of `predict_next`.
- If the first sequence of all has one letter, the same sequence gets a second
  identifier later (`dictionary.hpp:177`), against "a unique identifier" of
  `dictionary.hpp:42`. Real stack traces are longer, and the run has
  no sequence of one letter.
- Nodes of the dictionary are left with child and sibling pointers unset. In
  the program they come from fresh memory, which happens to be zero at first.
- Names of file handles are looked up in a map that is never written.
- The analyzer feeds a line that follows the one before it twice to its offset
  tracker (`FollowingCountsTwice`), the tracer once.
- Two operations "following" may be told apart by what their unset fields hold,
  and take a symbol each. The prediction is the same (`SteadyPredicted`), and
  no tracker outgrows its limit for that (`TablesBounded`, which is proved).

## The proofs

Everything here holds for any values of the constants. Run `tlapm` on the module.

### The oracle: `HeapProofs` and `OracleProofs`

The grammar is sound in every state of every cascade, for any alphabet, any
number of inputs, and an allocator that recycles or does not: `TypeCorrect`, `UsersKnown`,
`OwnersKnown`, `TableTrue`, `CallsAlive`, `MatchesExact`, `Utility`, `Tight`,
`Meaning`, `Replaying` and `Descent` prove all properties of `oracle_grammar`
and, under a hypothesis, the termination of its inputs, and `Lossless` that
the grammar stands for exactly what was read. They
follow from one inductive invariant, `Inductive` (`HeapInvariant`), and some
from a second one on top of it. None of the properties is inductive alone. For instance
`match` frees nodes, so `UsersExact` depends on which node each frame is about to replace, and that frame
is good only if the cascade below it has left its digram alone
(`SubstituteMatches`), which it does because what runs there works at the end of the start
rule only, and that needs to know which rules exist and who uses them.

*Of the heap* (`Sound`):

- `Linking`: a rule is a ring of nodes, linked both ways, that name the rule as their owner.
- `Forward`, `Backward`: following `n`, or `p`, from the guard reaches all of them. This
  says that the ring is one ring. Instead of a path it speaks of sets: one that
  holds the guard and is closed under `n` has all nodes of the rule. The
  provers cannot do induction over a list, but they can choose a set, and that
  serves instead: `Body`, a recursive function, is shown to exist and
  to return just the nodes of the rule (`Solves`) by giving such a set.
- `Valued`, `Ranking`: a node holds a terminal or a live rule, and no rule is used within
  itself, by ranks that grow from a rule to its users.
- `Entries`, `Counted`, `Allocated`: the table, the users, the free addresses.
- `Long`, `Rooted`: rules have two symbols at least; the root is the only node in no list.

*Of the calls in progress* (`Held`): what each frame may rely on. `Over` says it
of a frame and the one it returns to: a check is at the end of the start rule or at
the new node of a rule; the first of two substitutions has its digram
(`FirstTarget`), elsewhere than the second (`Target`); a rule to be tidied up has two symbols, and
nobody else is going to tidy it up, or to expand it meanwhile.

*Of both* (`InUse`): every rule has a use, but the new one whose two
uses are on their way (`Coming`).

`HeapProofs` defines `Sound`, and has a lemma for every change of the heap (`Join`, `InsertAfter`,
`Destroy`, `Replace`, `Expand`, a new rule, a new node, the marks of the
predictors): what it does to the lists and the table, and that it keeps each
part of the invariant. `OracleProofs` has, for every action, one lemma that it
keeps `Inductive` (`...Keeps`), one for `Firsts` (`...Firsts`) and one for the rank (`...Lowers`).
`Firsts` says why the look of `match` at one symbol is enough for what it
promises: a rule that begins with the only use of another waits to be
tidied up, or for the second use to come.

*Of the calls alone* (`IsStack`): learning is at the bottom, `update_predictors`
calls only itself, each substitution is followed by the other substitution or the
tidying up of the same rule, and each check belongs to a substitution or to
`input`. This is how the model lays out the calls of C++, and is stated for the sake of
the rest of the invariant. `Fits` says when a frame may be put on
top of others, popping leaves frames that fit (`Pop`), and every step pops one
and pushes frames that fit (`Push`).

*What the rules spell*: `Meaning`, `Lossless`. `Expansion` is a recursion over the rules
around one over the nodes of each, and no step can be followed through it. So `Spells`
says of a function `W` from nodes to strings that each node gives what its value
spells followed by what the next node gives. Every change of the heap carries such a `W` along: a
lemma each gives the one that holds after appending a value, coining a
rule, replacing a digram and splicing a body in, and shows that what it gives
at the first node of a rule is the same (`AppendedKeeps`, `CoinedKeeps`, `SwapsKeeps`,
`SplicedKeeps`). Two such functions never meet; only at the end is
`Expansion` shown to agree with any `W` at the first nodes: a rule of least
rank on which they differ would use one of smaller rank on which they differ
(`ExpansionSpells`).

*What an iterator reads*: `Replaying`. The iterators are recursive functions
over nodes and stacks; `SomeRecursion` shows that a recursion on a measure has a solution,
so that each equals its own definition: going down by the rank of rules (`WayDown`, and no rule
is empty), going up and reading by the length of the stack and of what is left.
What is left after a node is `W` of its successors and then what is left after the stack
below (`After`); `operator++` drops what the top node spells and
nothing else (`IncrementReads`).

*That an input returns*: `Grounding`, `Descent`. The rank of `CascadeDescends` counts the
calls in progress, the length of the start rule, and the nodes that the walk of
`update_predictors` has yet to come to. So each step has a lemma of what it does to these
(`...Lowers`): calls are counted one frame at a time (`PushCounts`); a rule is as
long as it has nodes (`BodyLength`), whatever leaves it alone leaves its length
(`AlikeLength`), and the second replacement of a match makes the start rule shorter by one
(`SwapsLength`, `SubstituteLowers`). The parts of the rank are naturals (`Grounding`: a substitution that is
pending has a digram to remove). `Descent` has the hypothesis `[]UpdateLive`: the walk is
never at a node that holds a link to a node that was deleted. The invariant does not know of the
links, and `dangling_predictor` shows that there may be such a link between inputs;
following it is undefined, and in the model a node that is gone has no mark to take off, so
that the rank would not fall. In the passing runs TLC would stop at such an access, so the
hypothesis holds there.

What these theorems do not say: they are about the grammar, and hold whatever the predictors
do. In particular the fields of predictors are not in the invariant, so a
dangling link (`dangling_predictor`) may exist in it. What the program does when
it follows one is undefined. In a proof, marking a node that is not
there changes nothing; TLC would stop with an error. The theorems are
therefore about executions up to the first such access, and beyond it only if it
does no harm to other memory.

### The other parts

**`FilesProofs`: `Typing`, `Uniqueness`, `Leading`, `DescriptorsFollow`.**
`HandlesUnique` follows from the handles being below `last_file_id`.
`DescriptorsLead` and `HandlesLead` are inductive only together: a closed
descriptor would leave a handle that the next owner of the number inherits,
unless every handle leads back to the descriptor it knows.

**`DictionaryProofs`: `Typing`, `Uniqueness`, `Written`, `FileFollowsMap`,
`ImplementsMap`.** The invariant
`DictInv` has a part for the tree (pointers lead to nodes or were never set, no
two nodes have the same identifier and all are below `last_index`), one for the
file (`last_written < last_index`) and one for the call in progress, whose
cursor is on a node. It holds for any `Garbage`: a walk that meets an unset
pointer stops, so none of these theorems rests on anything about memory.

The last two are `FileExact` and `IsDictionary`, the refinement of
`DictionaryContract`. They are about the sequence on the path of a node, which `Spelling`
defines by recursion over the tree. In `MapInv`, `Mapped` says that parents
are older than their children, that the children of a node are a chain in
order of age, and that some function gives each node the path of its parent with its own
letter, and no two nodes the same. There is only one such function (`SpellingIs`:
the least node on which two of them differ would have a parent
on which they differ), so it is `Spelling`, and what a step does to it is
given by a function instead of computed by recursion. `Recorded` says that the file is a part of the map, with identifiers
up to `last_written`; `Walked` that a call stands at the node that spells what
has been read, and that no child which it has passed spells the next letter, so
that a node is added only for a sequence that has none. Both theorems
assume `LongSequences`, that no sequence has one letter: `backtrace` never gives
`main` alone, and without it `IsDictionary` is false (see *What does not hold*).

**`InterceptionProofs`: `Answers`, `Typing`, `Exactness`, `PredictionIsReadOnly`.**
These are about the tracer alone, whatever calls it. The
invariant `TracerInv` relates the tables to the log: the previous symbol is the last of
the log, every transition of the log has entries, an entry that exists was
observed, and what is predicted has followed the last symbol. From it,
`NoBlindAnswer`: `omniscio_next` reads only entries that were observed,
for any oracle that keeps its contract. Hence asking changes nothing, although
`operator()` of the tables adds what it does not find. With the lemmas of
`Counting` (a symbol more adds one place of itself and one of the pair it
makes) the tables are exactly the counts of the log (`TablesExact`).

**`InterceptionProofs`, of the wrappers.** `WrapperInv` joins the properties to the shape of the
stack: every frame but the outermost found the flag clear, only the outermost
can be an operation, and a started operation belongs to it or
to a bracket of the application. From it `Flag`, `Held` and `NeverRefused`.
`UsesTracer` shows that the wrappers implement the specification of the tracer, each step
being a step of it or a stutter, and `AnswersBelow` and `ExactnessBelow` carry
`NoBlindAnswer` and `TablesExact` over. `WrapperTyping` adds the descriptors.
`AllowedIsKnown` needs `KnownInv`, since between the library's call and the
wrapper's answer to it what is allowed is behind: a descriptor may be allowed
because its wrapper is about to forget it, and what an `open` is about to allow
is open.

**`TrackersProofs`: `CountsKept`, `NoDanglingTracker`, `Remembering`.** `PtrInv` says that the count of
a representation is the number of pointers to it, and that trackers which are
not alive point nowhere. Hence each operation is, for the count, one pointer
that moves, and two lemmas about a pointer that leaves or arrives are all that
is needed. They rest on the theorems about finite sets. `Remembering` is
`HistoryKept`. Its invariant, `Memories`, says of every representation with a
count that it stands for its history (`SizeStands`, `OffsetStands`): a grammar
knows each value as often as it came and by one symbol, a "following" has seen
more values than the limit. That a grammar which is fed has learned what it was
fed is `Learning`, once for both headers. `PtrInv` is needed too: what the
assignment deletes is what nobody shares any more.

**`TrackersProofs`: `Summing`, `Predicting`.** `SumsKept` and `PredictsSeen`. The
library's sum over a set takes its members in an order that nobody knows. The
second part of `Counting` shows that such sums exist and do not depend on the order, by
induction over the subsets of a finite set (`Induct`: the provers cannot take the predicate
of an induction theorem, but they can take the set of subsets that satisfy it).
What the constructor of a mean needs is `CountedSum`: values weighted by how often they
came add up to the sum of the sequence. `Memories` has a part for it, `SizeSums`: a
representation that is no longer simple has the sum of its history, and two of
its sizes differ. The second half is why a mean that is rounded down once
too much, or up (`Truncated`), is still not below the smallest size nor above the largest: it
lies strictly between them.

**`AnalyzerProofs`: `Informed`, `Exactness`, `Doubling`, `Boundedness`, `Steadiness`,
`Rating`.** `AnalyzerInv` says that the
previous symbol is that of the last line, that the tables of times and sizes
count the log, that no entry is without an observation, and that what is predicted has followed.
Because of the last, the look-ups of the comparison add nothing
(`TouchedSame`): an iteration enters its line and changes no other entry. The
count of a tracker grows by one in every case of `input`, across both changes
of representation (`SizeFed`). `Boundedness` (`TablesBounded`) comes with the
type of a representation: a grammar past its limit is not kept, and a new one
has two values. For `Doubling` (`FollowingCountsTwice`) the invariant also keeps
where the previous line ended; a line then weighs two in the count of its
transition if it starts there, and one if not (`TwiceFed`), unless the tracker
has stopped counting. For `Steadiness` (`SteadyPredicted`) it keeps what a
tracker has settled on as long as its symbol or transition has always been the
same (`Settled`): one size or operation, or any operations that follow, and
then in whatever representation (`Holds`, `HoldsFed`). `Rating` (`HitRatioExact`) is about arithmetic: with
what lies within `Ranges` no sum of offsets and sizes reaches 2^64, nor a difference
-2^64, and there the printed ratio is that of the bytes in common (`RatioRight`). That `Ranges` holds is the other
half: a tracker predicts no size above the largest it was fed (`InRange`) and no
movement but one between two lines of the log (`Among`). The theorem assumes
`ShortFiles`, that offsets and sizes are below a quarter of the address space, 2^62 bytes.

Assumptions are the ones the modules name: terminals are not addresses, symbols
are positive (`null_index` is 0), no file has the empty name, bounds are naturals,
`Api` is among the interfaces of `posix.cpp`, the null pointer is no object,
trackers are finitely many. Three hypotheses are not an `ASSUME` of a module but
stated by the theorems that need them: `LongSequences` (two of `DictionaryProofs`),
`ShortFiles` (`Rating`), which no file of today's systems breaks, and `UpdateLive` (`Descent`).

### Only model-checked

- `ContractHolds`: `Lossless` and `Meaning` are the half of it about the log. The other half
  says that predictions have followed the last value, and on an allocator that recycles they do not (`recycled_node`).
- `PredictionsExact`, `PredictorsLinked`, `PredictAllReads`: links may dangle, so
  an invariant that implies these in general would have to say what
  undefined accesses do. They are checked up to an input length where none occurs.
- `InsertReturns`: liveness under fairness. (`CascadeDescends`, the termination of an input, is
  proved as long as `UpdateLive` holds; that it does is only known of the runs.)

## What is not modelled

- The values in the tables of `Tracer`, which counts observations: the trackers
  that hold sizes and offsets are modelled apart. Dates; means, variances and
  adapted values of transition times are floating-point arithmetic.
- The look-up of library functions (`MAP_OR_FAIL`), and the calls `fopen64`
  for `fopen` and the like, which do the same.
- Printing, demangling, log formats, the file that the grammar is written to. The
  analyzer reads columns of numbers, into which something else has to turn the words
  of the log that `omniscio.cpp` writes; on a column that is no number its loop does not end, as it looks
  for the end of the file only (`analyzer.cpp:107`).
- Of the analyzer, its percentages of symbols predicted right, dates and
  printing. `test/reader.cpp` keeps nothing.
- `unused/`, `pareto_stats.hpp`, `uniform_stats.hpp`, `posix.h`, which nothing includes.

## Plan

Done, in this order, the most important behaviour first: the oracle's grammar,
its predictors, iterators; file handles; the dictionary; the tracer; the
wrappers; the trackers; the analyzer; the proofs of these; the proofs of the
oracle's grammar, of what it stands for, of its iterators, and that its inputs return.

Next:

1. The tables of `Tracer` with trackers in them instead of counts, as in `Analyzer`.
2. The file of `model.hpp`, with a second `finalize`.
