# Formal models of the Sirikata core excerpts

This directory holds TLA+ models of the code under `src/`, the TLC configurations
that check them, and TLAPS proofs about the send/close protocol and the life
cycle of `TCPStream` and about `AutoSingleton`.
`PROJECT.json` lists the components, runs, mutants, source map, findings,
hazards and theorems; this file explains them.

## The system and its parts

The code under `src/` is five files of a larger runtime:

| Source | What it is | Module(s) |
|---|---|---|
| `src/libcore/src/network/TCPStream.cpp` | a logical stream of the TCP multiplexed transport (TCPSST): `send`, `closeSendStatus`, `close`, `connect`, `cloneFrom` | `SendStatus`, `StreamClose`, `SendStatusProofs`; `TCPStreamLife`, `StreamTable`, `TCPStreamLifeProofs` (life cycle, with the socket side from `spec.md`) |
| `src/unnamed/part_000` (Subscription.hpp) | `Task::SubscriptionId`, the key of event and timer subscriptions | `SubscriptionId`, `MCSubscriptionId`, `SubscriptionIdProofs` |
| `src/unnamed/part_001` (IOServiceFactory.cpp) | the process-wide and per-use `IOService` (the reactor) | `IOServiceFactory` |
| `src/libcore/src/util/Singleton.hpp` | `AutoSingleton<T>`, lazily created singletons | `AutoSingleton`, `AutoSingletonProofs` |
| `src/libcore/src/task/Time.hpp` | `DeltaTime` / `AbsTime` value types over `double` | `FloatModel` (doubles), `TimeConv`, `MCTimeConv` (millisecond conversions), `TimeAbs`, `MCTimeAbs` (microsecond timestamps, differences, comparisons) |

`spec.md` describes the whole transport. That includes `MultiplexedSocket`, the
socket wrapper, the framing codec and the listener, none of which is under `src/`.
`TCPStream` is the only transport code present. It talks to the socket through
three calls: `sendBytes`, `addCallbacks` and `closeStream`. It shares its
send-status word with the socket's receive and write-completion paths, through the
`Callbacks` object that it registers.

### TCPStream send and close (`SendStatus.tla`)

The hard part of the code is the send-status word `mSendStatus`, an atomic `int`:

- its low bits count the `send()` calls in flight;
- multiples of `SendStatusClosing` (K = 2^29) count the closers that took the
  closing slot.

A `send()` runs these steps:

- it increments the word (line 92);
- it sends only if the closing field `v & 3K` of the new value is zero
  (lines 93-96);
- it always decrements (line 98).

`closeSendStatus()` runs these steps:

- it reads the word (line 107);
- it adds K if no closer is present (lines 109-113), an atomic step separate
  from the read;
- it then spins until the word is exactly K, 2K or 3K (lines 115-119).

`close()` then removes the stream's callbacks and sends `CLOSE_STREAM`.

In the model:

- Every `send()` call is an element of `Senders`, and every `close()` call an
  element of `Closers`.
- Each call has a program counter (`spc`, `cpc`).
- Each atomic access to the word is one action:

  | Action | Code |
  |---|---|
  | `SendInc` | the increment and the test (the frame construction before it changes no shared state) |
  | `SendBytes` | the call of `sendBytes` |
  | `SendDec` | the decrement, and on the dropped path freeing the frame |
  | `CloseRead` | the read |
  | `CloseAdd` | the add |
  | `CloseSpin` | the spin exits (a spinning closer that re-reads a word it cannot accept is a stutter) |
  | `Unregister` | `addCallbacks(id, NULL)` |
  | `CloseStream` | `closeStream` |

- `out` records what the stream hands to the socket, in order. A frame's bytes
  are abstracted to the token `"data"`.
- The word is kept modulo `2^WordBits`, so the mask test is the two-bit field
  `(v \div K) % 4`. Overflow of the closing field therefore behaves as it does at
  32 bits with K = 2^29.

`StreamClose.tla` is what the stream promises. It is an abstract stream with
three parts:

- an instant `closed` before which frames may be delivered;
- after that instant, the callbacks are removed and `CLOSE_STREAM` is emitted.

`SendStatus` implements it under the refinement mapping
`closed <- ClosedForSend`: the stream is closed once some `close()` has left its
spin.

### TCPStream life cycle (`TCPStreamLife.tla`)

`TCPStreamLife` models how stream objects come to share a `MultiplexedSocket`,
and how they leave it. Its stream operations are translated from
`TCPStream.cpp`:

| Action | Code |
|---|---|
| `NewStream` | `TCPStream(IOService&)` (129-130): `mIO` set, no socket |
| `Factory` | `factory()` (143-145): a new stream on the same `mIO` |
| `Connect` | `connect()` (131-142): a fresh socket, `*mSendStatus=0`, `mID=StreamID(1)`, callbacks on this stream's word |
| `CloneFrom` | `cloneFrom()` (146-162): the source's socket, `getNewID()`, callbacks installed unless the socket is disconnected, `true` only when it is connected |
| `Close` | `close()` (121-128): closing field set, the entry under its id removed |
| `PeerOpen` | a peer's `NEW_STREAM`: the socket builds `TCPStream(socket, id)` (46-48) with the peer's next even id |

The socket's side is modelled from `spec.md`, because `MultiplexedSocket` is
not in the repository:

- `NewId` is `new_id()`: the counter `nextId`, then plus 2, up to `MaxId`. The
  spec does not say where the counter starts, so it is the constant `FirstId`.
- `SocketUp` is the handshake completing.
- `PeerClose` is a `CLOSE_STREAM` from the peer: the word of the entry is
  closed and the entry removed.
- `SocketFail` is a sub-connection failure and draining: every registered word
  is closed, the table cleared, the socket disconnected for good.

Three calls of the code are left out because they crash or read an
indeterminate pointer:
- `close()` without a socket (line 125);
- `factory()` of a stream the socket built (it has no `mIO`, line 144);
- `connect()` of such a stream.

The guards of `Close`, `Factory` and `Connect` exclude them.

The send-status word is abstracted to `closing[s]`, whether its closing field
is set; how sends and closers share it is `SendStatus`'s subject. A callback
table entry `<<id, w>>` records the id and the stream whose word the
`Callbacks` hold. `Reuse` says whether callers may `connect()` a stream that
was already used: nothing in the code forbids it.

`StreamTable.tla` is the abstract specification of what the sockets' callback
tables promise the streams that share them. Its state is:

- `reg[k]`: the entries of socket k;
- `cut[s]`: stream s's sends are cut off.

Its actions are:

- `Install(k, s)`: a stream that is in no table and not cut off enters table k
  under an id that no entry there holds;
- `Cut(s)`: a stream is cut off, and every entry of it leaves every table;
- `Drop(k)`: a failing socket cuts off exactly the streams of its table and
  empties it.

Nothing uncuts a stream. `TCPStreamLife` implements it under the mapping
`reg <- entries, cut <- closing` (`ImplementsStreamTable`):

- `Connect`, `PeerOpen` and an installing `CloneFrom` are `Install`;
- `Close` and `PeerClose` are `Cut`;
- `SocketFail` is `Drop`;
- every other step is a stutter.

### SubscriptionId (`SubscriptionId.tla`)

`Equal` and `Less` translate `operator==` and `operator<` line by line.

- `mThisPtr` is an integer address.
- `mClassId` is NULL or a literal with an address and a text. Two literals may
  share a text at different addresses: `operator==` uses `strcmp`, not the
  pointer.
- `mUniqueId` is an integer standing for the string's order.

The state is three ids `x`, `y`, `z`, so that every triple of ids is a reachable
state and the invariants quantify over all of them.

### IOServiceFactory (`IOServiceFactory.tla`)

The model has one action per operation:

- `singletonIOService`: the `call_once` and `io_service_initializer`;
- `makeIOService`;
- `destroyIOService`;
- the service calls (`pollService` to `dispatchServiceMessage`), which
  dereference the pointer they are given.

Pointers are `NULL`, the function-local static (`Static`) or heap addresses
(`Heap`). `io_service_initializer` receives the static `IOService*` by value, so
its assignment `io_ret=&io` never reaches `singletonIOService`'s pointer. The
model keeps that: `SingletonRef` is the unchanged static pointer.

### AutoSingleton (`AutoSingleton.tla`)

`getSingleton` reads and writes the static `sInstance`, which is a plain
static without a lock, so it is modelled as four steps that other threads may
interleave:

- `GetTest`, the test `sInstance==NULL` (line 41);
- `GetNew`, `new T`: a fresh address whose constructor (45-48) registers it
  (`Register`) if `sInstance` is NULL at that moment; the thread keeps the
  value in `mine`;
- `GetStore`, the store `sInstance = new T` (line 42), whatever is registered
  by then;
- `GetReturn`, `return *sInstance` (line 43), a second read of the static;
  `got` records what it returned.

The program may also construct and delete its own `T`s (`Construct`,
`Delete`, the destructor's `Unregister`) and call `destroy()` (`Destroy`).

Nothing in the class stops the program from deleting a `T` or calling
`destroy()` while another thread is inside `getSingleton`. If it does, TLC
finds `sInstance` left dangling when a delete falls between the registration
and the store, and a `*NULL` return when a delete falls between the test and
the return. Whether that is allowed is the constant `DestroyDuringGet`. When
it is FALSE, `Delete` and `Destroy` are guarded by `NoGetInProgress`: the usage
contract under which the class can be correct. Both runs set it FALSE, and the
race in `singleton_race` needs no deletion at all.

### DeltaTime conversions (`FloatModel.tla`, `TimeConv.tla`)

`DeltaTime::milliseconds(ms)` stores `ms/1000.`, and `toMilli()` returns
`(int64)(mDeltaTime*1000)`. The model keeps the double as what it is: a
significand `m` and exponent `e` with value `m * 2^e`. The operators on such
numbers are in `FloatModel`:

- `Round` and `RoundScaled` give the nearest value with `Precision` significand
  bits, ties to even (IEEE 754's default rounding).
- `DivBy` and `MulBy` are the rounded division and multiplication by a decimal
  literal. The literal's power of two goes to the exponent, so 10^6 stays
  within TLC's integers.
- `Sub` is the rounded difference.
- `ToInt64` truncates toward zero.

The code's doubles have 53 bits. TLC's integers are 32-bit, so the runs use a
12-bit significand with counts below 2^12. Rounding a product to just below an
integer and truncating it happens at every width. At 53 bits the affected counts
are 1001, 1003, 1005, …; at 12 bits they are 63, 126, 252, 503, 1006, …. TLC's
list of failing counts matches an independent calculation in exact rational
arithmetic.

### AbsTime timestamps (`TimeAbs.tla`)

`TimeAbs` models timestamps in integer microseconds made into `AbsTime`s by
`AbsTime::microseconds` (195-197). Their difference is `operator-` (174-176),
read back by `toMicro()` (108-111).

The runs use timestamps up to a quarter of 2^12 with 12 bits. Real epoch
microseconds are about 2^50.6 against 53 bits. So a double holds a stored
timestamp to a fraction of a microsecond in both, as it does in the program
(about 0.24 µs today).

## Runs

| Run | Module / cfg | Expect | What it shows |
|---|---|---|---|
| `send_close` | `SendStatus` / `SendStatus.cfg` | pass | `SendExclusion`, `NoDataAfterClose`, `WordBalanced`, the refinement `ImplementsStreamClose`, and `AllCallsReturn` (under weak fairness every call returns), for 3 sends and 3 closers |
| `slot_taken` | `SendStatus` / `SendStatusSlot.cfg` | violation | spec §8.3's "no send after the first closer takes the slot" fails |
| `subscription_order` | `MCSubscriptionId` / `SubscriptionId.cfg` | pass | `operator<` is a strict weak ordering; `EqualNotOrdered`: ids equal by `operator==` are never ordered by `operator<` |
| `subscription_eq` | `MCSubscriptionId` / `SubscriptionIdEq.cfg` | violation | `operator<` and `operator==` disagree on NULL class ids |
| `io_singleton` | `IOServiceFactory` / `IOServiceFactory.cfg` | violation | the singleton `IOService` is `*NULL` |
| `singleton_registry` | `AutoSingleton` / `AutoSingleton.cfg` | pass | with no deletion during a `getSingleton` call: `RegisteredLive`: `sInstance` never dangles; `ReturnsLive`: every return dereferences a live instance |
| `singleton_race` | `AutoSingleton` / `AutoSingletonRace.cfg` | violation | two threads get two different singletons, with no deletion involved |
| `time_conv` | `MCTimeAbs` / `TimeAbs.cfg` | pass | `MilliLossAtMostOne`: `milliseconds(n).toMilli()` loses at most 1 ms and never gains; `ElapsedLossAtMostOne`: `(AbsTime::microseconds(n) - AbsTime::microseconds(b)).toMicro()` is `n-b` or `n-b-1` |
| `time_roundtrip` | `MCTimeConv` / `TimeConvRoundTrip.cfg` | violation | `milliseconds(n).toMilli()` is not always `n` |
| `stream_life` | `TCPStreamLife` / `TCPStreamLife.cfg` | pass | `IdsUnique`: no two streams on a socket share an id; `LiveNotClosing`: installed callbacks never hold a closed word; `ImplementsStreamTable`: the tables refine `StreamTable` |
| `stream_first_id` | `TCPStreamLife` / `TCPStreamLifeFirstId.cfg` | violation | with the socket's counter at 1, a clone gets connect()'s id 1 |
| `stream_reconnect` | `TCPStreamLife` / `TCPStreamLifeReuse.cfg` | violation | connecting a stream twice and closing it leaves its first socket's callbacks on a closed word |

### Bounds and why they are enough

**send_close.** It uses 3 senders and 3 closers on a 5-bit word with K = 4.

- Three closers is the most the code allows (the comment at line 93).
- With three, every split of a closer's read from its add can happen: two or
  three closers may add.
- Three senders let a send be in flight across each closer step.
- The word keeps the code's layout: 2 bits of closing field above the sender
  bits, and the word wraps at 4K, as 2^31 does.
- There is no symmetry reduction, because it is unsound for the liveness
  property. The run checks 46770 states in seconds.

**Other runs.**

- The SubscriptionId runs enumerate every triple of ids built from:
  - 2 pointers;
  - 2 unique ids;
  - NULL and 3 literals, two of which share a text at different addresses.

  That gives 16 ids.
- AutoSingleton uses 2 threads and 4 addresses. That is enough for each thread,
  the program's own instances and a destroy to each use a fresh address.
- TimeConv covers every count from -1100 to 1100. That range goes past one
  second, where the seconds value gains its first bit above the binary point,
  and every count is below 2^12.
- TimeAbs measures each of those counts, as a microsecond timestamp, against
  the timestamps 0..40 and 980..1100, which is 356562 pairs. Those
  near 0 include the null time. Those around 2^10 are as large, relative to the
  significand, as epoch microseconds are to 53 bits. They cross the exponent
  change at 1024.
- TCPStreamLife uses 4 stream objects, 2 sockets, `FirstId = 3` and `MaxId = 5`.
  That gives two clone ids and two peer ids per socket. It is enough for:
  - a connect, two clones and a peer stream on one socket;
  - a second socket for the reconnect case;
  - a clone made after a failure;
  - every order of close, peer close and failure among them.

  The pass run reaches 174896 states. It stops when every object and id is
  used up, which is not a deadlock of the program, so deadlock is not checked.
  There is no symmetry, so the runs stay simple to read; they take seconds.

### Fairness

`FairSpec` assumes weak fairness of each call's steps. A send's steps are
ordinary code and always enabled at their turn. A closer's spin is a busy loop
that re-reads the word forever: it does not block, so it is scheduled whenever
it can proceed. Nothing stronger is assumed. In particular, a closer waiting for
senders is not helped by fairness: the senders finish on their own weak
fairness.

### Mutants

Each property of a passing run is broken by a plausible bug in the code it
talks about:

| Mutant | Property it breaks |
|---|---|
| the closing check dropped from `send` (`SendIncNoCheck`) | `SendExclusion` |
| the spin dropped (`CloseSpinNoWait`) | `NoDataAfterClose` |
| the dropped path returning without its decrement (`SendIncNoDec`) | `WordBalanced` |
| a second closer returning without waiting (`CloseReadNoSpin`, what the spec's §5 suggests) | `ImplementsStreamClose` |
| a spin that accepts only K (`PureClosingOne`) | `AllCallsReturn` |
| `<=` for the unique ids (`LessLeq`) | `StrictWeakOrder` |
| a destructor that does not unregister (`UnregisterNever`) | `RegisteredLive` |
| class ids compared by address instead of `strcmp` (`LessByAddress`) | `EqualNotOrdered` |
| `getSingleton` without its lazy creation, a plain accessor (`GetTestNoNew`) | `ReturnsLive` |
| `ms/1000` in integer arithmetic (`MillisecondsIntDiv`) | `MilliLossAtMostOne` |
| `toMicro()` as `toMilli()*1000` (`ToMicroViaMilli`) | `ElapsedLossAtMostOne` |
| `getNewID` without its `+= 2` (`NewIdNoStep`) | `IdsUnique` |
| `cloneFrom` registering the source's word (`CloneWordSource`) | `LiveNotClosing` |
| `close()` without its `addCallbacks(getID(), NULL)` (`CloseKeepCallbacks`) | `ImplementsStreamTable` |

## Findings

1. **Spec §8.3 vs `TCPStream::send` (run `slot_taken`).** The spec says no send
   occurs after the first closer takes the slot. In the code, a send that
   incremented before the closer's add has already passed its check, and it sends
   afterwards. What the code does guarantee, and what is proved, is exclusion
   from the end of the closer's spin on (`SendExclusion`).

   Two other readings of the spec do not match the code either:
   - §5 says a second closer "adds K anyway and skips the spin". The code neither
     adds nor skips: it spins. The mutant `CloseReadNoSpin` shows that skipping
     the spin would break the refinement.
   - §8.3 says the word "returns to 0". It returns to K times the number of
     closers that added (`WordBalanced`).
2. **`SubscriptionId::operator<` (run `subscription_eq`).** For two ids with the
   same pointer and NULL class ids, `operator<` returns false both ways whatever
   `mUniqueId` is (line 83), while `operator==` compares `mUniqueId`. An ordered
   container merges such subscriptions. The order is still a strict weak
   ordering (`subscription_order` passes). The fault is only its disagreement
   with `==`.
3. **`IOServiceFactory::singletonIOService` (run `io_singleton`).** The initializer
   assigns its by-value parameter (line 43, bound at line 48), so
   `singletonIOService` returns `*NULL` (line 49).
4. **`AutoSingleton::getSingleton` (run `singleton_race`).** It is not
   thread-safe: two racing threads get two instances.
5. **`DeltaTime::toMilli` (run `time_roundtrip`).** `toMilli` truncates an
   inexact product. So `DeltaTime::milliseconds(1001).toMilli()` is 1000 with
   53-bit doubles, and the model shows the same effect at 12 bits. The loss is
   never more than one millisecond (`time_conv`). Rounding instead of
   truncating would give back `n`.
6. **`connect()` hard-codes id 1 (run `stream_first_id`, a spec gap).** The
   spec's `new_id()` hands out `next_local_stream_id` and adds 2, but it never
   says where the counter starts. If it starts at 1, the first `cloneFrom` on a
   socket gets the id that `connect()` gave its own stream (line 138). Starting
   at 3 or above, the ids stay distinct: the `stream_life` run checks it, and
   the theorem `IdsDistinct` proves it.
7. **`connect()` on a used stream (run `stream_reconnect`).** `connect()`
   neither checks nor releases `mSocket`. It resets the shared word and
   registers it with a new socket (lines 136-141), while the old socket's
   `Callbacks` still hold it. After `close()`, the old socket keeps delivering
   to a stream whose sends are cut off. Spec §4.4 says close stops inbound
   delivery immediately. Without a second connect this cannot happen
   (`InstalledNotClosing`).

## Proofs

### Send and close (`SendStatusProofs.tla`)

TLAPS proves these theorems for every value of the constants that satisfies the
assumptions. `WordAssumption` requires:

- `WordBits` and `ClosingBit` are naturals;
- K = 2^ClosingBit is positive;
- 4K fits in the word.

`ThreadAssumption` requires:

- `Senders` and `Closers` are finite;
- there are fewer senders than K;
- there are at most 3 closers.

| Theorem | What it proves |
|---|---|
| `TypeCorrect` | `Spec => []TypeOK`, one lemma step per action |
| `CloseSafety` | `Spec => [](SendExclusion /\ NoDataAfterClose)` |
| `FrameOrder` | `Spec => []NoDataAfterClose`, the frame-order half of `CloseSafety` stated alone |
| `WordBalance` | `Spec => []WordBalanced` |
| `Refinement` | `Spec => ImplementsStreamClose`: initial states map to initial states, and every step maps to an abstract step or a stutter |

None of the invariants is inductive alone. The proofs rest on the inductive
invariant `IInv`, which has these conjuncts:

1. the type invariant;
2. the exact value of the word: the number of sends between increment and
   decrement (`InFlight`) plus K times the number of closers that added
   (`Incd`). No wrap happens under the assumptions;
3. a closer before its add has not added;
4. a closer past its spin implies some closer added;
5. `CLOSE_STREAM` in `out` implies a closer is past its spin;
6. `SendExclusion`;
7. `NoDataAfterClose`.

Conjunct 2 is the heart of the argument:

- `FieldLemma` shows that the closing field of `a + K*n` is `n` for `a < K`;
- so a send that increments while a closer has added sees the field set and
  drops;
- the spin passes only when `InFlight` is empty.

Cardinality facts come from `FiniteSetTheorems`.

### Stream life cycle (`TCPStreamLifeProofs.tla`)

The theorems hold for any sets of streams and sockets, and any `MaxId`.
`LifeAssumption` requires:

- `FirstId` is an odd natural;
- `MaxId` is a natural;
- `Reuse` is a Boolean;
- `NULL` is not a socket.

| Theorem | What it proves |
|---|---|
| `IdsDistinct` | `FirstId # 1 => (Spec => []IdsUnique)` |
| `InstalledNotClosing` | `~Reuse => (Spec => []LiveNotClosing)` |
| `TableRefinement` | `FirstId # 1 /\ ~Reuse => (Spec => ImplementsStreamTable)` |

The hypotheses are exactly what the violation runs drop. `stream_first_id`
starts the counter at 1. `stream_reconnect` connects a used stream.

`IdsUnique` is not inductive: a clone's new id must be shown to be fresh. The
strengthening `IdInv` adds:

- `Counters`: `nextId` stays odd and at least `FirstId`, and `peerNext` stays
  even;
- `IdOrigin`: a stream on a socket has the id 1, an odd id from `FirstId` up to
  below `nextId`, or an even id below `peerNext`; and a socket with streams
  has been constructed, so `connect()`'s fresh socket has no stream on it yet.

`LiveNotClosing` is strengthened into `LiveInv`:

- `EntryOwned`: every entry is its own stream's, on that stream's socket, under
  its id, with the stream open or failed. This is what lets `close()`'s
  removal by id, a `CLOSE_STREAM` and a failure always remove every entry of a
  word they close.
- `FreshOpen`: a stream not yet set up has an open word, an unconstructed
  socket has no entries, and a stream's socket is constructed.

`TypeStep` is the type lemma these proofs share.

`TableRefinement` needs both invariants together (`RefInv == IdInv /\ LiveInv`):

- **The mapping.** The initial tables are empty and no field is set. One step
  per action of `TableStep` names the abstract step it maps to.
- **Install guards.** An install's id must be one the table does not hold:
  - a clone's id is odd and not below `nextId`;
  - a peer's id is even and not below `peerNext`;
  - connect()'s socket has an empty table.

  `IdOrigin` and `Counters` give these facts. The installed stream must be in
  no table and not cut off, which `EntryOwned` and `FreshOpen` give.
- **close() removes by id.** It drops the entries under its id, while `Cut`
  drops the entries of its stream. `EntryIsOwn` shows the two sets are the
  same: an entry is `<<sid[w], w>>` for its stream w, and by `IdsUnique` no
  other stream on the socket holds that id.

### SubscriptionId (`SubscriptionIdProofs.tla`)

`OrderIsStrictWeak` proves `Spec => []StrictWeakOrder` for every set of
pointers, literals and unique ids that `ConstantAssumption` allows. The proof
has four steps:

1. `LessIrreflexive` and `LessTransitive` case-split on which field decides
   each comparison.
2. `IncomparableFields` shows that two ids `operator<` cannot order agree on the
   pointer and on whether the class id is NULL. When it is not NULL, they also
   agree on the text and the unique id.
3. `IncomparableTransitive` follows from step 2.
4. The state is three arbitrary ids, so the invariant is `TypeOK` plus these
   lemmas.

`EqualIdsSameKey` proves `Spec => []EqualNotOrdered`, using `EqualIncomparable`:
two ids `operator==` calls equal agree on every field that `operator<` reads.
The converse, `OrderMatchesEquality`, is false, and `subscription_eq` shows it.

### AutoSingleton (`AutoSingletonProofs.tla`)

`RegistryValid` proves `Spec => []RegisteredLive` and `ReturnsValid` proves
`Spec => []ReturnsLive`, both under the hypothesis `~DestroyDuringGet`, for any
threads and any finite set of addresses (`SingletonAssumption`: `Insts` is
finite and excludes NULL). The hypothesis cannot be dropped: without it TLC
finds both properties violated.

`RegisteredLive` is not inductive on its own, because the store at line 42
writes a value the thread read earlier. The inductive invariant `Inv` adds:

- `StoreLive`: a thread about to store holds a live instance;
- `ReturnsLive` itself: a thread about to return sees a live `sInstance`.

`NextInv` takes one step per action:

- `GetTest` goes to the return only when `sInstance` is not NULL, so it is
  live by `RegisteredLive`;
- `GetNew` registers the new instance or keeps the registration, and the
  instance it keeps is live;
- `GetStore` stores a live instance by `StoreLive`;
- `Construct` is like `GetNew`;
- `Delete` and `Destroy` run only when no thread is in `getSingleton`
  (`NoGetInProgress`), so `StoreLive` and `ReturnsLive` hold vacuously, and
  they unregister what they free.

**Only model-checked.** Liveness (`AllCallsReturn`) is checked by TLC only: it
needs fairness and ENABLED, which TLAPS cannot handle here.

The properties of `TimeConv` and `TimeAbs` are also only model-checked, for
three reasons:

- they are about the rounding of a float model, stated through `Log2Floor` and
  `TwoExp`, which are defined by `CHOOSE` over exponents;
- they need nonlinear arithmetic over powers of two. The backends know nothing
  about `2^j` for a symbolic `j`: even `2^(j+1) = 2 * 2^j` and
  `i <= j => 2^i <= 2^j` over `Nat` fail with SMT, and proving them needs
  induction;
- a proof for every input would need induction over the data.

TLC covers every input in the bounded sets the runs give.

## Not modelled

- Most of `MultiplexedSocket`, and all of the socket wrapper, the codec and the
  listener. Their code is not in the repository, and `TCPStreamLife` models
  only the socket operations that `TCPStream` calls. The rest is described by
  `spec.md` in too little detail for a faithful model:
  - framing and the varint codec;
  - sub-connections and their write queues;
  - `ACK_CLOSE` and its timeout;
  - exactly-once `on_disconnected`.
- A fourth concurrent closer of one stream. The comment at line 93 caps closers
  at 3. `ThreadAssumption` states that cap, TLC checks it, and the
  `SendStatus` proofs rest on it.
- `connect()`'s store `*mSendStatus=0` racing with a send or close on the same
  stream is not modelled step by step. `TCPStreamLife` takes `connect()` as one
  step. The reconnect finding already shows that the store is unsafe on a used
  stream.
- The rest of `Time.hpp`:
  - `seconds`, `nanoseconds` and `DeltaTime::microseconds`;
  - `DeltaTime` arithmetic, `+=` and `-=`;
  - the `<` and `==` of `AbsTime` and `DeltaTime`, plain double comparisons;
  - the float cast;
  - `now()`, a system call.

  They are floating-point value types with no shared state, and no property is
  about them. `Round` is not checked against a brute-force nearest-value
  reference.
- `SubscriptionId::Hasher`: `HASH<const char*>` is not in `src/`. If it hashes
  the pointer, equal ids can hash differently.
