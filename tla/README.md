# gr-iio, specified

gr-iio is an out-of-tree module of GNU Radio: blocks that stream samples from and to
Linux IIO devices, and read and write their attributes, through libiio.  The
modules in this directory specify the parts of it where order, sharing and failure
matter; TLC checks them on small instances and TLAPS proves the main results for
every instance.

    tlc -config MCDeviceSource_steady.cfg MCDeviceSource      # a run
    tlapm DeviceSourceProofs.tla                              # a proof

PROJECT.json lists the runs, a plausible bug ("mutant") for each property that the run
must notice, the lines of code behind each definition, and the hazards the
properties are aimed at.


## 1. Inventory

### device_source (lib/device_source_impl.cc)

*State*: the libiio buffer `buf` and its `buffer_size`; the handshake
`items_in_buffer`, `byte_offset`, `please_refill_buffer`, `thread_stopped`; a mutex
`iio_mutex`; two condition variables, `iio_cond` (to the refill thread) and `iio_cond2` (to
work()); the refill thread itself.

*Operations*: start() creates the buffer and the thread; work() asks for a refill when nothing
is left, waits with a timeout, converts and tags samples; refill_thread() fills the buffer
without holding the mutex and publishes what it got; stop() cancels the buffer, wakes and
joins the thread, destroys the buffer; set_buffer_size() replaces the buffer;
set_timeout_ms() sets the timeout.

*Interaction*: the scheduler's block thread, the refill thread and the application share all of
the state; libiio is called with and without the mutex.  A work() that times out posts "done"
to the block's own system port so that the scheduler calls it again soon.

*Hard*: two condition variables and a request flag that is cleared when the refill
begins, not when it ends; a timeout that races the refill; stop() that must reach a
thread asleep in any of three places; a buffer replaced while another thread uses it; the
refill thread ending with an error at any moment.

*Correct when*: captures are delivered in order, each sample once, and never overwritten
while undelivered; no wakeup is lost; no destroyed buffer is touched; the end of the stream is
final; work() and stop() return.

### Context registry (device_source_impl::get_context, remove_ctx_history)

*State*: the static vector `contexts` of (URI, context, count), and libiio's set of open
contexts.  *Operations*: get_context() shares or connects, and locks nothing, neither for the search nor for the
count nor for the new entry;
remove_ctx_history() counts down, under `ctx_mutex`, closes the context of the last block and
erases the entry.  Each kind of block uses them its own way: sources and sinks
pair them in constructor and destructor; attribute blocks only call get_context();
blocks made with make_from() bring a context of their own.

*Hard*: a constructor can throw at four different points, each with a different cleanup; the
destructor of the base class runs when the constructor of a derived class throws, but not when its own
does; threads may interleave between the search, the count and the new entry.

*Correct when*, on one thread: a live block's context is open and belongs to its URI; counts are exact; a
context closes with its last block; a URI is connected once.

### device_sink (lib/device_sink_impl.cc), fmcomms2_sink, fmcomms5_sink

*State*: a libiio buffer whose memory survives from one push to the next.  *Operation*:
work() clears the memory (only with interpolation), writes each offered sample that fits at every
(interpolation + 1)th step, pushes, and consumes buffer_size / (interpolation + 1) samples whatever was
offered.  The FMComms sinks add that the block is done once it has pushed a cyclic buffer.

*Correct when*: what the device is given is exactly what is consumed, in order; nothing of an
earlier portion is sent again; the memory of a cyclic buffer on the air stays as it is until the flowgraph is restarted.

### attr_updater (python/iio/attr_updater.py) and attr_sink (lib/attr_sink_impl.cc)

*State*: the updater's value, its `run` flag and thread; the message queue of attr_sink; the
device's attributes.  *Operations*: the thread publishes {attribute: value} again and again;
update_value() changes the value with no lock; `__del__` clears `run` and joins the thread;
write_attribute() writes the entries of each dictionary in turn, and throws when one
is refused.

*Hard*: publishing before the ports are connected; `__del__` at any point of the loop;
a message that fails half-way; an exception that ends the sink's thread for good.

*Correct when*: the last value reaches the device and stays; an older one never follows a
newer one; `__del__` returns and silences the updater; every number in a message reaches the device unless the handler throws.

### attr_source (lib/attr_source_impl.cc)

*State*: nothing between calls but what the output memory holds.  *Operation*: work() sleeps, reads an attribute
or a register and stores the number as one of five types, `samples_per_update` times.

*Hard*: the size of an item is computed in one place (type_sizeof), the pointer type it is stored through in another, the room for a
call in a third (set_output_multiple); numbers are read as wider types than the item has; a failed read is printed and the
item counts all the same; an exception ends the block's thread.

*Correct when*: each item is the number read for it, rounded for a float and reduced to 0 or 1 for a bool, or an exception; items fill exactly the output they are counted for; after the last
update the output shows it.

### Making blocks: fmcomms2, fmcomms5, pluto, and the complex float blocks (make, get_channels_vector, the constructors)

*State*: which channels of a device are enabled, which belongs to the libiio context, is shared by its blocks and outlives them;
which channels a buffer was created with.  *Operations*: a make function turns flags per channel (or per
receiver, for the complex float blocks) into a list of channels; the constructor disables every channel of the device and
enables these; a sink then creates its buffer, a source when it is started or resized; a complex float block wires pairs of
ports of its inner block to the halves of its streams.

*Hard*: constructors that throw between two channels; what other blocks and other programs left enabled; lists that are compacted past the
flags that are not set, and ports that are numbered in the compacted list.

*Correct when*: a buffer has exactly the channels of its block; a complex stream is one receiver.

### Device configuration (set_params, load_fir_filter, FMComms2/5 blocks)

*State*: the attributes of one or two transceivers, and the sample rate for which the FMComms5 pair was
last synchronised.  set_params() writes a list of key=value strings and logs what fails;
load_fir_filter() checks and uploads a filter file; a new sample rate on FMComms5 synchronises
both chips.  *Hard*: failures that are logged and failures that throw, half-way through; a source and a sink that
share the clock and each remember a rate of their own; three ways to choose the filter.

*Correct when*: a call that has ended left the configuration it was asked for on every transceiver of the board; one that
returned has loaded its filter; the two chips of an FMComms5 are synchronised at the rate both blocks ask for.

### Math blocks (lib/iio_math*.{cc,l,y})

A lexer and a bison grammar turn an expression into a graph of GNU Radio blocks, in the constructor.  *State*: the start condition of the
lexer and the union that carries values from it to the parser; the parser's stack; the list of structures, one per block
made; `connected_ports`.  *Hard*: operator priorities, the lexer's expansion of `w`, input ports out of range, inputs nobody uses,
structures owned by both the parser and the list.

*Correct when*: the graph computes what the expression means; nothing meaningful is refused; each structure is deleted once; each input is
connected.

### The rest

The Pluto blocks first scan USB for a URI; modulo, power and converter_ss are stateless loops over floating
point samples; SWIG files, GRC descriptions, examples, CMake and CI scripts have no behaviour of their own.  None
of these is modelled (section 7).


## 2. Modules

| module | what it is |
|---|---|
| DeviceSource | three threads around a capture buffer |
| SampleStream | what device_source promises, without threads; DeviceSource implements it |
| ContextRegistry | the shared contexts and the life of the blocks that use them |
| SharedContexts | what the registry promises, without entries and counts; ContextRegistry implements it |
| DeviceSink | the transmit buffer |
| StreamBlocks | the make functions and constructors of all streaming blocks, and the channels of the devices |
| Transmitter | DeviceSink and StreamBlocks composed: a sink from make to destruction among other blocks |
| AttrLink | attr_updater, the message queue and attr_sink |
| AttrSource | work() of attr_source |
| AttrLoop | AttrLink and AttrSource composed: written by one, read back by the other |
| PhyConfig | set_params() of the FMComms blocks, the filter and the synchronisation |
| MathSymbols, MathExpr | the lexer and parser of the math blocks, and the graph they make |
| MathReading, MathMeaning | what an expression means; the parser compared with it |
| MC* | instances for TLC |
| DeviceSourceProofs, ContextRegistryProofs, AttrLoopProofs, TransmitterProofs, PhyConfigProofs, MathExprProofs | theorems |

### DeviceSource

The variables that have a name in the code keep it.  `block_pc` and `refill_pc` say where the two
threads are: "wait" is asleep on a condition variable, "woken" is notified and about to take the
mutex, "timedout" the same after the timeout; "parked" is a work() that returned 0 and waits for
the scheduler; "cancelled", "join" and "destroyed" are the three points inside stop() where other
threads can run.  `live`, `cancelled` and `filled` are libiio's side: the buffers that exist, those
cancelled, and the samples of the last refill.

A critical section is one action, since nobody can see its inside: Work (up to the wait or the
return), WorkResumes (from the wait on), RefillPublishes (publish, notify, and the head of the
next round, which the thread reaches without releasing the mutex), RefillThreadEnds,
SetBufferSize.  What the code does without the mutex is separate: RefillCompletes and
RefillFails (the call into libiio), StopCancels, StopRequests (one critical section), StopJoins,
StopReturns.  notify_all() moves a sleeping thread to "woken" and is lost on any other.  The
process ends when libiio is handed a NULL buffer, so the actions that do so are disabled then; only runs
with set_buffer_size() at any time reach such a state, and they stop there.

byte_offset counts steps of the buffer, and all channels move together, so one number per buffer stands
for its samples.  The constructor leaves byte_offset uninitialised; Init lets it be anything a
run can tell apart.  CONSTANTS describe the environment: can a refill outlast the timeout
(`Timeouts`), can a condition variable wake up by itself (`SpuriousWakeups`), when is set_buffer_size()
called (`Resizes`), can a refill return without a whole sample (`EmptyRefills`), the `Decimation`, and the width of the channel's
samples (`SampleBytes`; work() assumes a short).

SampleStream has four variables: whether the stream is open, whether a capture is under way, which samples of the last one are
left, and which ones the last work() call gave the flowgraph.  Its steps open and close the stream, begin a capture when nothing
is left, end it with some samples, and deliver exactly the first few that are left.  The refinement
mapping reads `left` off byte_offset and the size of the last refill, and `given` off what work() returned: its place in the capture and its return
value.  An implementation that skips, repeats or overwrites samples, or returns another number of them than it advances by,
has no matching step.

### ContextRegistry

A block goes "absent", "sharing" (the search has found an entry, `it`, and the count is not up yet) or "connecting" (inside
iio_create_context, which takes time), "building" (the rest of the constructor), "alive", "removing" (its destructor),
"erasing" (between closing the context and erasing its entry), "absent".  The search, the count and the new entry are three steps, since
get_context() locks nothing.  Constructor failures are actions of their own: ConnectFails, which registers a NULL;
NoContext; LookupFails (which destroys the context, shared or not); SetupFails; DerivedFails (the base class is complete, so its
destructor runs).  `leaked`, a history variable, counts the blocks that gave a context up without counting it down, as attribute blocks and
failing constructors do.  `Kind`, `Failures` and `Concurrent` choose what an instance has.

What two threads do to the memory of the vector, when one of them appends or counts while another reads, is not modelled.  So an instance with several threads shows
faults (registry_race) and never their absence: everything that is checked to hold or proved is about one thread.

SharedContexts knows only which contexts are open and which one each block holds, and has three steps: a block joins the context
open to its URI, or opens one if none is; a block leaves, and closes the context if it was the last; a block is forgotten, which keeps its context
open for good.  The refinement mapping
(`Holder`) says that a block holds its `ctx` from the moment get_context() has counted it up or registered it until remove_ctx_history() has
counted it down: a block that is erasing its entry holds nothing any more.  Entries, counts and
the points in between have no counterpart, so a registry that misses an entry, miscounts or closes at the
wrong moment has no matching step.  Blocks with a context of their own hold nothing in this sense.

### DeviceSink

Samples are numbered, Silence is what clearing leaves, Junk what a new buffer holds.  `sent` is the sequence of the
memories the device was given, `air` the last of them while it is on the air.  `Work(n)` is one work() whose push succeeds: clear, write, push, consume; `WorkFails(n)` one
whose push fails after the memory is written.  The scheduler offers any multiple of the output multiple, so
more samples than a buffer takes may be offered and must not be consumed.  `Restart` is the application stopping the flowgraph and starting it again after the block has told
the scheduler that it is done: GNU Radio forgets that, and the block, which has no start() or stop(), is called once more.  `air` is a copy made at the push, which is
why CyclicPushedOnce looks at the memory and not at `air`.

### StreamBlocks, Transmitter

Channel "voltageN" is N; receiver (or transmitter) r of a transceiver has the channels 2r - 2 (I) and 2r - 1 (Q).  A make function is an operator
that returns a *request*, the arguments of the device block and the receivers the complex float block around it was asked for:
Fmcomms5SourceF32c(<<FALSE, TRUE, FALSE, TRUE>>) is what that block's make() asks of fmcomms5_source, and fmcomms5_source of device_source.  The
actions are those of a block's life: Make, MakeThrowsHalfway (a channel that does not exist, or cannot be enabled, at any place of the list),
MakeThrowsLate (parameters, buffer or second transceiver), Start, Resize, Stop, Destroy.  `enabled` is libiio's, so Init lets it be
what an earlier program left; `scan` is the set of channels in a block's buffer.  `owner` is a history variable: the block whose constructor set up a
device last, since a second block on one device takes the channels of the first away (section 5).

Transmitter adds the transmit buffer of one block, Sink, to this: TransmitterMade is its constructor, Transmit its work(), Restarted a flowgraph started again, Destroyed its
destructor; the other blocks are sources and take their own steps meanwhile.

### AttrLink

The sender's loop is four actions, one per point where another thread may run: test `run`,
build the dictionary (which reads value), publish, sleep.  attr_sink takes a message and then
handles one entry at a time, because each entry is a write the device sees.  GNU
Radio's queue is modelled from its use: posting appends and never blocks, an exception in the handler ends the
block's thread, and nothing is delivered before the ports are connected.  Values are numbered in the order update_value() got
them.  Messages of other blocks are dictionaries of two entries, good, refused or unreadable ones in either order, or no dictionaries at all.

### AttrSource, AttrLoop

A call of work() is WorkBegins, one Read per sample, WorkReturns.  A read stores the number (ReadItem) as its data type lets it, leaves what the memory
held (ReadFails), or throws (CastThrows).  `Limit` says what a float and an int can hold and `Floats` which numbers a float can: lexical_cast throws beyond
the limit and silently rounds to the nearest below it (`Rounded`).  ItemSize and
StoreType are the code's two answers to what an item is, and FillsWhatItReturns compares them.  The code writes output 0 only.

AttrLoop runs AttrSource on the attribute that AttrLink writes: what attr_source reads is `written[Attribute] + 1`, 0 before the first write.

### PhyConfig

A call is a list of operations, `todo`, built by the code's own rules (Params, SetParams, Construct), of which the device
performs one per step; the calls of a source and of a sink may overlap.  "tuning" stands for frequency, bandwidth,
tracking and port, which the code writes and never looks at again; the two directions share the clock,
so there is one rate per transceiver.  The arguments of the two transceivers and of their channels are the same here, so that giving one
transceiver those of the other would not be noticed.  An FMComms5 block whose second transceiver does not exist throws before it
configures anything (PhyMissing).  The
driver, external, takes a receive gain in the manual mode only.  A refused write, whatever the reason (misspelt, unknown,
rejected), is logged and the list goes on; a filter file that is missing or incompatible, and a failing
ad9361_set_bb_rate(), throw.  A block whose constructor threw may be made again.

### MathExpr

Symbols arrive one by one (LexSymbol, with the four further readings of a `w` in LexAgain), and the parser takes one decision per step, from
the top of its stack and the next token: Shift, one action per kind of reduction, ConnectToOutput for the rule of the start symbol, SyntaxError when nothing
else applies.  The precedences of iio_math_parser.y appear where they decide (ReducesFactors, ReducesTerms); like
bison, the parser reduces by default before it notices an error.  `yylval` is kept as the port it would be read as: Wild is a number no block has a port
for, Unset an uninitialised one.  `nodes` is the graph and the list of structures at once; `deleted` counts, when the constructor ends, how often each
structure was deleted.

MathReading defines the meaning independently: split the text at its loosest operator outside all parentheses, and recurse.  It is
recursive, so it and MathMeaning, which states the two properties that need it, are for TLC only.


## 3. Runs

| run | environment | distinct states |
|---|---|---|
| source_steady | refills within the timeout, resizes while stopped, the device produces | 84 000 |
| source_timeouts | refills may outlast the timeout | 287 000 |
| source_hostile | timeouts, spurious wakeups, empty refills, decimation, resizes at any time | 3.4 million |
| source_overwrite | as source_timeouts: a violation | |
| source_stale_resize | no timeouts, resizes at any time: a violation | |
| registry | one thread, five blocks of every kind on two URIs; connecting, the set-up and derived classes may fail, for the borrowed block the lookup too | 25 000 |
| registry_failed_lookup | one thread, a device may be missing: a violation | |
| registry_race | two threads, nothing fails: a violation | |
| transmitter | a sink of any class and two sources, made, failing half-way, started, resized, stopped and destroyed in any order, the flowgraph restarted; cyclic or not, derived or not | 247 000 |
| attr_loop | two values, one message of another block with two good, refused or unreadable entries, attr_source with each way to treat a number, one failed read | 630 000 |
| phy_config | a source and a sink on an FMComms2/3, FMComms4 or FMComms5 (with or without its second transceiver); at most one refusal or failure | 3.5 million |
| math_expr | every text of up to six of 14 symbols; iio_math with one and two inputs, iio_math_gen | 3.3 million |

**source_steady** checks that the three threads implement SampleStream (ImplementsSampleStream), that every sample
work() reports was stored (AllItemsWritten), that the "buffer_start" tag sits on the
first piece of each refill with its size (TagAnnouncesRefill), and that a waiting work() gets data
(DataReachesOutput).

**source_timeouts** checks that work() always returns (WorkReturns) and has posted itself a
wakeup whenever it returned nothing (PromptRecall), that byte_offset and items_in_buffer locate the unread
rest of the last refill (OffsetTracksFill), that
nothing is delivered after the refill thread has ended (NoDataAfterEof), and that stop() returns
whatever it meets (StopTerminates).

**source_hostile** checks that even then nobody sleeps on a condition that holds or that nobody will
make true (NoLostWakeup), and that the current buffer exists under work() and under a refill of it, set_buffer_size() at any moment included
(UsesLiveBuffer).  The refill of a buffer that was just replaced is the exception, and a fault (section 5, *Resizes of a running block*).

**registry** checks that the context of a live block is open and is that of its URI
(SharesOpenContext), that the registry offers open contexts to the URI asked for, or the NULL of a connection that failed (RegistryIsOpen), that
counts are the number of holders and of the counts left behind (CountsUsers), that a context without such a count closes with its last block
(ClosedWithLastBlock), and that the whole implements SharedContexts (ImplementsSharedContexts), so that a URI is connected to only when no context is open
to it.

**transmitter** checks that the device is given exactly what is consumed (SentIsConsumed), that nothing of
an earlier push or of the initial memory is on the air (AirIsLastPortion), that work() of a derived block leaves the memory of a
cyclic buffer on the air alone until the flowgraph is restarted (CyclicPushedOnce), that each stream of a complex float block is one receiver whichever were left out (StreamIsOneReceiver), and that
the buffer of the block made last on a device has exactly its channels, whatever failed or went before (HasItsChannels).

**attr_loop** checks that the last value arrives and stays (LastValueArrives), that an older value never
replaces a newer one (NeverGoesBack), that `__del__` returns (DelEnds) and nothing is
published afterwards (QuietAfterDel), that a number in a message of another block reaches the device, whatever stands before it, unless the handler throws (EntriesArrive), that an item of attr_source is a number
within the range of its type and no newer than the attribute's, for a float the nearest one, or the junk of a failed read (ItemsWereGiven), that items lie within the output they are counted for (FillsWhatItReturns), and that attr_source ends up
delivering the last value given to update_value(), for a float rounded (LastValueShows).

**phy_config** checks that every transceiver has the tuning, modes, gains and rate that a call asked for once it has ended, even
by an exception (ReachesConfig), that a call which returns has loaded the filter it names (FilterOrThrow), and
that the two chips of an FMComms5 are synchronised when both blocks ask for the same rate, whatever the order and the overlap of the
calls that led there (ChipsInSync).  That condition leaves out the source setting a rate, the sink another, and the source the first again:
the source then skips the synchronisation (section 5, *Alternating rates*).

**math_expr** checks that the graph of a block that was made computes what its text means (MeansWhatItSays), that a syntax error is reported
only for texts that begin no expression (RefusesNonsense), that each structure is deleted at most once and, on success, exactly
once (DeletedOnce), and that every input of an iio_math feeds the graph or a null sink (InputsConnected).

### Bounds

- *DeviceSource*: two buffer handles, so that a new buffer may be a new handle or a reused one; sizes 2 and 3, so that a
  refill may be full or short and a resize may grow or shrink; at most 2 items per
  work(), so that a refill takes one, two or three calls.  No counter is otherwise bounded: the state space is finite.
- *ContextRegistry*: three registered blocks on one URI (shared, released, shared again) of different kinds, one on another, one with a context
  of its own; one context more than URIs.  `MaxCount` = 5 and `MaxEntries` = 3 cut off counts that leaks let grow for ever: each block can leave
  a count behind and be made again.
- *Transmitter*: six samples are one to six pushes.  The shapes are a single sample, no interpolation, a
  portion of two samples, and a portion of one sample in a longer buffer.  Two sources besides the sink are enough for one to fail after
  another has set up the device; the 11 requests use every make function but two, which those of the complex float
  blocks call; some have channels that are not adjacent, two name none, and one names a channel that cannot be enabled between two that can.  Blocks are named apart, not symmetric, as the sink is one of them.
- *AttrLoop*: two values make an older and a newer one.  The number of the first lies halfway between two floats, that of the second fits no int, so that casts
  throw after having succeeded.  Two waiting messages, one of them of another block, let two of the updater queue up, and messages of each sort precede and
  follow each other.  Two samples per update are a call with a first and a second read.  The kinds of attr_source are double, float, bool and a
  register; the int of a register and of an attribute are cast alike, and a long long is stored like a double.
- *PhyConfig*: three sets of arguments have two rates, both gain modes, a good file, a bad one and none, and the automatic filter with
  and without a file.  `MaxRefused` = 1 lets one operation fail at every possible place, and everything be called again after it.
- *MathExpr*: the shortest texts that tell strengths and directions apart (x**x**x, x-x*x, -x**x) have four or five symbols, those with a function
  or parentheses and an operator four to six.  Two inputs tell the operands of an operator apart.

CHECK_DEADLOCK is off where the system may really stop: a destroyed sink, an updater whose `__del__`
has returned, a constructor that has ended.

### Fairness

Weak fairness, on the steps a thread takes by itself once it can: a thread that holds or can get the mutex goes on, a
timer that runs fires, libiio returns -EBADF from the refill of a cancelled buffer and returns from the read of an attribute, the threads of the
attribute path run, and in attr_loop the flowgraph takes the items, so that the scheduler calls work() of attr_source again.  Nothing forces the device to produce samples (only LiveSpec, used by source_steady, adds
that), the scheduler to call work() of any other block, the application to do anything, or publishing to fail.  Weak fairness is enough
because none of these steps can be disabled again for ever by others; the mutexes are held for finite code only.
LastValueArrives and LastValueShows assume what the code needs, that the threads live on: the sender ends when publishing
fails, the sink's thread when a write is refused, and that of attr_source when a number does not fit.


## 4. Proofs

All theorems hold for every value of the constants the ASSUMEs of the modules allow.  tlapm needs a few minutes.

### DeviceSourceProofs

| theorem | for which environments |
|---|---|
| TypeCorrect, NoWakeupIsLost, EofIsFinal, BufferOutlivesUse (UsesLiveBuffer) | all |
| OffsetIsRight | resizes only while the block is stopped |
| RecalledPromptly | `NoSurprise`: moreover no spurious wakeups and no empty refills |
| TagsAreRight, Refinement (Spec implements SampleStream) | `TurnTaking`: resizes while stopped, no spurious wakeups, no timeouts |
| NoSampleIsMadeUp | moreover no decimation and samples of two bytes |

The argument has three layers of inductive invariants, each using the one before.  IInv is TypeOK with the
handshake: what is known of the request flag and of the refill thread at each point of work() and stop(), and that the current buffer, if there is one, is live.
NoLostWakeup alone is not inductive: that a sleeping work() has a refill on its way depends on the refill
thread existing exactly while `thread_stopped` is false and the block has been started.  BInv adds which buffer each
thread holds: between start() and the join there is one live buffer, and it is the one in libiio's hands.  It is needed for
OffsetTracksFill, because a refill of another buffer would change `filled` behind the counters.  RecalledPromptly adds to it that work() is woken by
data or by the end of the thread: otherwise it could deliver 0 samples and return without having posted anything.
SInv adds what the absence of timeouts gives: a refill runs only while work() waits and nothing is left, which is what the
refinement's "begin a capture" needs.  Each layer has a lemma for the initial states, and one with a
step per action for the others.

### ContextRegistryProofs

| theorem | for which environments |
|---|---|
| RegistryTypeCorrect | one thread: any kinds, whatever fails |
| ContextOutlivesBlocks (SharesOpenContext), UrisAreShared (OneContextPerUri), OffersOpenContexts (RegistryIsOpen), CountsAreExact (CountsUsers), NoContextLeaks (ClosedWithLastBlock), Refinement (Spec implements SharedContexts) | `Sequential`: one thread, no registered block fails to look up its device, finitely many blocks |

Each condition is needed: section 5 names the behaviour that violates the properties without it.  OneContextPerUri is stated for the proofs
only; no run checks it, as ImplementsSharedContexts says more.

RegistryTypeCorrect needs one thing besides TypeOK, that the lock has one owner (Guarded): a block erases only while an entry is marked as being erased.

The other theorems share one inductive invariant, RInv.  CountsUsers is not inductive: counting down is right only if a block's
context is in exactly one entry, and closing is right only if the entry's count covers all
holders.  RInv therefore says together: one block at a time is between two steps of its life (OneAtATime); which
block holds a context at which stage (Holds); entries differ in URI, and in context unless connecting failed, and all but the one being
erased are open (EntriesDistinct); everything open or held is registered (AllRegistered); the entry a sharing block has found is still that of its URI, a connecting
block's URI is new, and an erasing block holds the entry, whose count is 1 (InProgress); a count is the number of
holders and of the counts left behind (CountsCover); a context that is closed has none left behind (ClosedIsClean), so that a handle which libiio hands out again starts clean.
HolderJoins, HolderLeaves and OnlyHolder are the counting lemmas: what one change of a
`ctx` member does to the cardinality of the holders of a context; CountsAfterLeak is about a block that gives up its context uncounted.

Refinement: counting up and registering a connection are Join (JoinRefined, OpenRefined; the second
from InProgress and AllRegistered: nothing open is unregistered, so no entry means no open context), counting down is Leave (LeaveRefined: the count is 1 exactly if
nobody else holds the context and nobody was forgotten), a block that goes without counting down is Forget (ForgetRefined), and every other step stutters (StutterRefined).

### AttrLoopProofs

No assumption beyond those on the constants: any number of values, messages and failures, any data types and limits.  ItemsAreGiven and LoopTypes are
invariants, SlotsAreFilled follows from one, and ValuesNeverGoBack and DelSilences are facts about steps that need one.
LoopInv is the inductive invariant.  That an older value never follows a newer one is not visible in the device alone: the values of the attribute that are
under way, from the device through the handler's entries and the queue to the sender's message and the updater, must be in order, and only the updater
sends that attribute (Order = InOrder /\ UpdaterLast).  Joined says that the sender has ended when `__del__` has returned.  Room4Items says that a call is
offered at least samples_per_update items, which with ItemSize = SizeOf[StoreType] for every kind of block gives FillsWhatItReturns.

### TransmitterProofs

- TransmitterTypeOK, for every setup: the device is given samples and silence, never the junk of a new buffer.  That memory holds no junk once it is filled depends
  on what is not written having been cleared, or, without interpolation, on the offer being at least the whole buffer.
- DeviceIsGivenWhatIsConsumed (SentIsConsumed), under DividesEvenly; without it the property is false (section 5, *Uneven interpolation*).  Each push gives the samples
  consumed + 1 to consumed + Portion, at growing slots; those given before are at most `consumed`, so that a place of an earlier push never holds a later sample.
- NoConsumedSampleIsLost, for every setup: what remains true of SentIsConsumed when interpolation + 1 does not divide the buffer (PushWindows).  Every push is
  consumed as one portion; no consumed sample is lost; the push carries its portion in order and, in the rest of the buffer, at most the one sample after it, which the next
  push carries again.  No other sample can be sent twice.
- StreamsAreReceivers (StreamIsOneReceiver).  A block that exists has the list its request names (or all channels when it names none), and a request for a complex float block comes from
  one of the make functions.  The list that the flags are compacted to and the ports it is wired to are compared for every choice of receivers: two or four of them.
- BlocksHaveTheirChannels, for any number of blocks and devices and any make functions.  HasItsChannels is inductive only with: the owner of a device exists and was
  made on it (OwnerIsThere), so that a new block takes the device from the old; and a block that does not exist has no buffer.
- CyclicBuffersArePushedOnce, from DoneAfterCyclic: a derived block with its cyclic buffer on the air has told the scheduler that it is done, or the flowgraph has been restarted since.
- LastPortionIsOnAir, under DividesEvenly (interpolation + 1 divides every buffer size).  Every offer is then at least one portion (WholePortions), and the slots of the
  buffer need no more samples than a portion has (StepOfSlot), so each slot is written or was cleared.

### PhyConfigProofs

Three theorems, for any arguments, files and number of failures and with both blocks in a call at once.  Each says what is there already *or is
left to do*, since the properties speak of calls that have ended; the lemmas before the invariants say what the lists contain, and in which
order, that SetParams and Construct put together.

- FilterIsLoaded.  FilterInv: while a block is alone, the filter its call asked for is in each transceiver already or an operation that loads it is left
  to do (FilterInProgress), what is left to do loads no other (LoadsWhatWasAsked), and the other block has nothing left to do (CallsInProgress).
- ConfigIsReached.  AttrInv: each attribute that a call needs has its value or is left to write (NamesInProgress).  A write counts only if the driver takes it,
  so a gain that is left to do has its mode written before it or already manual (GainsInProgress, from GainAfterMode of the lists); an exception loses no write, as what may throw
  comes last (WritesFirst); the other block cannot undo it, as the two share no name but the rate (OwnNames), and the rate is claimed while
  the block is alone (RateInProgress).
- ChipsAreSynchronised.  SyncInv: whenever the blocks were last asked for the same rate, the transceivers have it and are synchronised, or a block has a
  synchronisation left to do that it will not skip, after the rates that are still to be written (SyncedOrToDo).  A block that comes to agree remembers another rate (Remembers),
  so its synchronisation is not skipped; from then on every rate that is written is the agreed one and changes nothing.

### MathExprProofs

For texts of any length over any of the symbols, where the run math_expr stops at six.  DeletedOnce, InputsConnected and GraphIsATree follow from one inductive invariant, MathInv:

- Grammar: what may lie on what on the parser's stack.  An operator lies on a Factor or a Term, a ")" on a Term on a "(", and a Factor or Term after + or - has a Term before the
  sign.  It is what makes the values an action pops the structures of operands: without it func_block could pop its own name.
- HeldOnce: every structure that was made is held at exactly one place, an entry of the stack, an operand of another structure, or the output.  This is the heart: DeletedOnce
  is about the stack alone, but a structure that an operator takes from the stack must not be there a second time.
- Earlier: an operand is made before its operator, so there are no loops.  LineIsOutput: a structure is connected to the output exactly when the stack is a single Line.  Marked: connected_ports
  holds the ports of the input structures.

HoldsShifted, HoldsMoved, HoldsLeaf and HoldsOperator are the four things an action does to the holders, and GrammarPushed the one thing it does to the stack; LeafMade, ValueMoved and OperatorMade
combine them, and each action of the parser is an instance of one.  From HeldOnce a discarded stack has each structure at one place (DiscardedOnce); with a single Line it has
none, so that each structure but that of the output is an operand (OnlyTheLine), and a port feeds the graph exactly when it is marked (FedIsMarked).

### Only model-checked

Liveness (WorkReturns, StopTerminates, DataReachesOutput, EntriesArrive, LastValueArrives, LastValueShows, DelEnds) is out of the prover's reach.  MeansWhatItSays and RefusesNonsense compare the parser with
Readings, a recursive operator: what it computes for every text would need an induction over texts.  All other properties of the passing runs are proved, some of them under the conditions
named above.


## 5. Where the code and its promises differ

Four runs are expected to fail; each shows a behaviour of the code that contradicts a comment in it.

- **source_overwrite**.  work() times out while a refill is running (the request flag is already cleared), is called again, sees no
  items and requests a second refill.  The first one is published and the refill thread at once starts the second, which
  overwrites the samples work() is delivering.
- **source_stale_resize**.  set_buffer_size() on a running block keeps items_in_buffer of the destroyed buffer: work() delivers that many samples of the
  new, empty one.
- **registry_failed_lookup**.  A constructor that does not find its device destroys the context although other blocks use it, and leaves
  the entry in the registry.
- **registry_race**.  get_context() does not lock: a block finds the entry of a URI, another thread closes its context and erases it, and the first block is left
  with a context that is closed.

Further behaviours that the models show when an instance allows them, unless said otherwise, and that the passing runs leave out:

- *Resizes of a running block*.  refill_thread() calls iio_buffer_refill() without the mutex (device_source_impl.cc:294), and nothing keeps set_buffer_size() (113-116) from
  destroying that very buffer meanwhile, unlike stop(), which cancels and joins first: the refill goes on in freed memory.  And a resize between iio_buffer_destroy() and
  the assignment after it in stop() (419, 420) destroys that buffer once more.  Without its condition refill_buf = buf,
  UsesLiveBuffer fails in source_hostile.  Everything else that is claimed of the buffer's contents (OffsetTracksFill, PromptRecall, AllItemsWritten,
  the tags and the refinement) is checked and proved with resizes of a stopped block only.
- *Empty refills*.  A refill of less than one whole sample wakes work(), which finds nothing to deliver and returns 0 without the message that gets it called
  again soon: PromptRecall and DataReachesOutput fail with EmptyRefills = TRUE.  source_hostile runs with it, and Refinement is proved with it.
- *Sample width*.  work() computes the length of what it reads as items * sizeof(short) (line 270), whatever the format of the channel: with samples of one byte it converts
  up to twice the samples it counts, with four half of them (AllItemsWritten).
- *Decimation*.  channel_read() steps by decimation + 1 but work() counts the samples of the buffer: with decimation 1, AllItemsWritten fails in seven
  states.  source_hostile, which checks the handshake only, runs with it.
- *Failed connection*.  get_context() registers the NULL it got: every later block on that URI is refused without a new attempt.  RegistryIsOpen therefore allows a
  NULL.  Contexts that are open are not affected (ContextOutlivesBlocks).
- *Attribute blocks*, and the constructors of sinks that throw in their set-up, never give their count back.  Such a context stays open for good;
  ClosedWithLastBlock and SharedContexts (Forget) say so.  Counts only become too large, so no context is closed too early.
- *Concurrent construction*.  Besides registry_race, two threads may connect to the same URI.  That count++ may lose an increment and
  push_back() move the entries another thread is reading is not modelled at all.
- *Restarted cyclic sinks*.  A derived sink is done after its cyclic push, but GNU Radio clears that when the flowgraph is started again, and device_sink has no stop():
  work() then writes into the memory that is on the air (device_sink_impl.cc:183-185) before libiio refuses the push (187).  A plain device_sink with a cyclic buffer is
  not done at all, and does so at the next call.
- *Rounded items*.  lexical_cast to float throws for what is too large and rounds silently what lies between two floats: an attr_source of floats delivers numbers the attribute
  never had.  ItemsWereGiven and LastValueShows say "the nearest float".
- *Two blocks on one device*.  The constructor of the second disables the channels of the first.  If the first is a source that is started or resized
  later, it gets a buffer with the channels of the second and looks for samples of its own in it: HasItsChannels without its condition on `owner` fails.
- *No flag set*.  A make function with no channel flag set asks for an empty list, which the constructor takes to mean all channels of the device.
- *Ports left open*.  A sink with fewer connected ports than channels sends what the buffer's memory holds on the others: only connected
  ports are written.
- *"Bool" of attr_source*.  A uint8 item is the character '0' or '1', i.e. 48 or 49, not 0 or 1: ItemsWereGiven says so.  And an attr_source with several outputs
  fills the first only.
- *Uneven interpolation*.  When interpolation + 1 does not divide buffer_size, channel_write stores one sample more than is consumed: with
  a buffer of 3 and interpolation 1, SentIsConsumed fails at the first push of two samples, and the sample goes out again with the next.
  Nothing worse happens: NoConsumedSampleIsLost.
- *Refused parameters*.  A write the device refuses is only logged: set_params() returns as if it had succeeded.  ReachesConfig is about calls
  without one.
- *Alternating rates*.  Each FMComms5 block remembers the rate it last synchronised for.  When the source sets one rate, the sink another and the source the first again,
  the source changes the rate of both chips and skips the synchronisation.  ChipsInSync speaks only of blocks that were last asked for the same rate.
- *Failed synchronisation*.  The result of ad9361_fmcomms5_multichip_sync() is ignored and the rate remembered, so it is not tried
  again for that rate: without its `failures = 0`, ChipsInSync fails.
- *Filter files without coefficients*.  load_fir_filter() looks for a line that starts with a digit or a minus and never looks for the end of the
  file: without one it loops for ever.  PhyConfig only has files that are accepted and files that are refused.
- *w in expressions*.  The lexer expands `w` to (x * 2pi) but returns the token of x without its port, so the parser uses what the last token
  left in the union.  After a function name or another w that is no port at all: sin(w) and w+w are never made, they throw when the port is connected or, in
  iio_math, may crash in set_port_used(); w alone depends on uninitialised memory.
- *Inputs out of range*.  set_port_used() writes connected_ports outside its bounds before the connection is refused.  iio_math_gen accepts x1 alone
  and refuses x1+x, since only the connection to the output ignores the port.
- *Signs bind tighter than powers*: -x**2 is (-x)**2, in the grammar and in MathReading alike.
- *Leaks*.  After a syntax error the structures that were already operands are never deleted, and the name of a function never is.
- attr_updater.`__del__` never runs by itself, because the thread refers to the object; and `interval/1000` is an integer division in Python 2, so
  intervals below a second make the thread spin.


## 6. Plan

Done: the capture path, its abstract specification and proofs; the registry and its proofs; the blocks and their channels, the transmit path and their proofs; the attribute
path there and back and its proofs; the configuration of the transceivers and its proofs; the expressions, and the proofs about their graphs.

1. DeviceSource with several channels, composed with StreamBlocks the way Transmitter composes DeviceSink.

Order of the modules: DeviceSource first, as everything else uses or resembles it; then the registry, which all blocks share; then the data paths
out (DeviceSink) and sideways (AttrLink); then configuration and expressions; then the compositions (Transmitter, AttrLoop).


## 7. Not modelled

- The sample functions iio_modulo, iio_power and converter_ss: one formula per sample, no state.
- The USB scan of the Pluto blocks (get_uri): it ends in a URI or an exception before any block exists.
- set_timeout_ms: a timeout is a possibility in DeviceSource, not a number; the lengths of sleeps and intervals likewise.
- Python's garbage collection: `__del__` is an action that may happen at any time.
- Bindings, GRC descriptions, examples, CMake and CI scripts: no behaviour of their own.
