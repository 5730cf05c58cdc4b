# A verification of cups-rs in TLA+

cups-rs is a library of safe Rust around libcups. Most of its calls are one call of
libcups and a copy of the answer; what can go wrong is what the library keeps between
and around those calls: pointers that one value owns and libcups' own thread uses, a
resolver's state that two channels feed, allocations that each way out of a call has to
free, settings that a guard has to put back, a count that has to agree with an array.
This directory models that, checks the models with TLC and proves invariants of them
with TLAPS.

Paths such as `dnssd.rs:301` are under `src/src/`. "The program" is an application that
uses the library in any way its types allow.

## 1. The system

| Part | State | Operations | Model |
| --- | --- | --- | --- |
| DNS-SD service resolver (`dnssd.rs`) | two channels, the queries held, what they ask about, the service and the addresses held | `try_recv`, `query_addresses`, the resolve and query callbacks | `DnssdServiceResolver` |
| DNS-SD context and handles (`dnssd.rs`) | libcups' context and objects, the `Arc` shared by handles, the boxes callbacks get pointers to | `new`, `clone`, `browse`, `resolve`, `query_address`, the `Drop`s, the callbacks | `DnssdContext` |
| Jobs (`job/mod.rs`, `lifecycle.rs`, `management.rs`) | `Job` handles; the scheduler's jobs; what a running call has allocated | create, submit, close, cancel, `cancel_job`, the lists | `PrintJobs` |
| Configuration (`config.rs`) | libcups' four settings of each thread, and the server's port; what a `CupsConfig` captured | setters, getters, `new`, `with_*`, `Drop` | `CupsConfig` |
| Destination lists (`destination/mod.rs`) | an array of libcups', the library's count of it, the `lpoptions` file | `get_all`, `new`, add, remove, set and clear the default, set an option, save, drop | `Destinations` |
| Destination search (`destination/mod.rs`) | the vector a callback fills | `enum_destinations`, `find_destinations` | `Destinations` |
| HTTP connections (`connection.rs`) | one `http_t` pointer, NULL once closed | connect, close, drop | `IppExchange` |
| IPP messages (`ipp.rs`) and `get_attrs` | one `ipp_t` pointer per request and response; a destination's options | `new`, `add_*`, `send`, `send_default`, `get_attrs`, drop | `IppExchange` |
| Authentication callbacks (`auth.rs`) | a closure of each kind in a thread-local `RefCell`; the closure libcups is registered for | set, remove, ask, prompted by libcups | `AuthCallbacks` |
| Destination information and conflicts (`destination/mod.rs`, `dest_info.rs`) | what a call passes to libcups and has to free; one `cups_dinfo_t` per `DestinationInfo` | `get_detailed_info`, `is_option_supported`, `check_option_conflicts`, `connect`, drop | `DestinationCalls` |
| Job status and options (`job/status.rs`, `job/options.rs`) | none | conversions, a builder of strings | not modelled |
| Values and media (`dest_info.rs`, `media_size.rs`, `printer_state.rs`) | none | queries that copy one answer | not modelled |
| Option strings (`options.rs`) | none | conversions | not modelled |
| Errors (`error.rs`, `error_helpers.rs`) | none | libcups' last error to an enum | not modelled: the models keep success and failure apart and no more |
| Bindings, `compat.rs`, `constants.rs`, `lib.rs` | none | generated declarations, constants, width conversions | not modelled |

How they interact. The service resolver owns a `Dnssd` clone, a resolver handle and up to
two query handles, so it is a user of the context model: replacing its queries is a drop of
the old handles. libcups runs DNS-SD callbacks on a thread of its own; they only send on
unbounded channels. Jobs, lists and information go to the server and user that the settings
of the *calling thread* name when the call is made, and `CupsConfig` changes those.
`get_attrs` uses a connection and a request, and fills the options of a `Destination`.
Everything but DNS-SD callbacks runs on the caller's thread and blocks it; while it does,
libcups may prompt for a password or report on a connect, and the closure that answers may
make any of these calls itself, on the same thread and below the one that waits.

Which behaviour is hard, and what correct means:

- **Resolver.** Events arrive between any two receives, from queries already replaced
  too, and both queries may fail to start after the announcement was taken. Correct: the
  consumer is told every change, no announcement is lost, addresses are those of the
  announced host, and each address that stays is reported in the end.
- **Context.** Handles are dropped in any order while callbacks run, the first of which
  may come before the call that makes the handle returns. Correct: no callback finds a
  freed box, the context goes last and once, nothing is left, no drop waits for ever.
- **Jobs.** Every call has several ways out and frees by hand; a request may be performed
  and its answer lost; the scheduler and other clients act meanwhile. Correct: handles
  are jobs, `Ok` means the whole document is there, every way out frees.
- **Settings.** Guards nest, builders fail in the middle of a chain, guards move between
  threads although the settings do not; a getter may say less than its setter was told.
  Correct: dropped guards give settings back.
- **Lists.** The count and libcups' array change by different rules: adding what is there,
  adding an instance of what is not there, removing twice. Correct: they agree, a save
  keeps what was not edited, the search finds a printer once for each time it was there.
- **Connections and messages.** `cupsDoRequest` frees what it is given, values are dropped
  after failures, a copy may be made in part, pointers are used again, a value may be used
  after `close`. Correct: what libcups holds is what values own; a request can be sent
  again; the server is given nothing it was not to be given; `get_attrs` replaces nothing.
- **Calls within calls.** A closure may replace itself, send requests that prompt it
  again, or panic below an `extern "C"` function; libcups may exchange the options array
  it was given. Correct: the closure that runs stays stored, libcups asks the closure that
  is set, passwords outlive their request, what is passed is freed once.

`PROJECT.json` lists every hazard at its line with the properties that cover it, or the
reason none does.

## 2. The models

Every model has one action per operation, callback or step between which something else
can happen. `map` in `PROJECT.json` names the lines of each definition. A definition
with a suffix, such as `ReplaceQueries_NoClear`, is what the one without it would be
after a plausible mistake. It is part of no specification; each property has one that
violates it, which shows that the property depends on that line of the code.

### `DnssdServiceResolver`

`resolved`, `addresses`, `address_queries` and `queried` are the fields of the struct of
the same names; the channels are sequences. `try_recv` is split at every receive and at
the start of the queries, so that `Report` (query_callback) and `Announce`
(resolve_callback) interleave anywhere. `pc` says where the call is: `Poll` enters it,
`KeepQueries` and `StartQueries`/`ReplaceQueries`/`StartFailed` are the two ways an
announcement is handled, `ReceiveAddress` is the second loop, `Return` the end. `view` is
the last `Ok(Some(..))`, all a consumer has. `network` is the truth queries report on; a
query reports each change of its target once, changes to one address in order (`InStep`);
a query held and one just being started report on their own, also where they ask the same.
A host name is a spelling, and `normalize_name` a function of the spelling. An address is
a value with the record type it comes from. `addresses` is a set: the code's vector has no
repetition, and is sorted before it is returned.

`ServiceUpdates` is the abstract specification: announcements are taken in order, an
address set is held with the one taken last, and what is told is both. `Consumer` is the
refinement mapping, with `Pending` for the announcements not taken yet: one whose queries
are just being started has left the channel and is not the resolver's yet. Everything
else, channels of address events, record types, spellings, restarts, is a stutter or one
of the four abstract steps.

`SettledKnows` and `TrueUntilChanged` say together what a consumer ends up with. `Settled` is
a state in which nothing is on its way: no call runs, the channels are empty, and every
query has reported what its host has. Then the last announcement and every address of the
types asked for are known, whatever was queued, dropped or cleared before; and as long as
no host has changed, no update names an address the host has not. `SettledKnows` is the
safety half of `EveryAddressReported`: that such a state is reached is a matter of fairness.

### `DnssdContext`

`context` is the raw context, `holders` the owners of the `Arc`, `raw` the objects libcups
knows, `state` the boxes. Opening a handle is three steps, box, libcups object, `Arc`, and
dropping one is `Drop::drop` and then the fields in their order of declaration; `owner` is
the step the owner's thread is in and `callback` what libcups' thread is running. Handles
hold raw pointers, so they are not `Send`, and one thread owns them all. Of libcups it
assumes that a delete waits for a running callback, which the code relies on: it frees the
box right after.

### `PrintJobs`

`pc` is the step of the running call, `heap` what the call has allocated (`as_ptr`'s
destination, the option array, a job list), `leaked` the steps at which a call returned
with something left. Each request is refused, or performed and answered with one of
`Statuses`, or performed and not answered (`LostReplies`). `Success` is `== IPP_STATUS_OK`
as in the code. A document is written in chunks, and a chunk may fail. `Scheduler` prints,
aborts and cancels between any two steps.

`JobService` is the abstract specification: jobs, handles and the submissions the
application was told of, and one step for what a whole call does. A document arrives whole,
once, and in an open job; or the call has done nothing. `ImplementsService` maps the three
variables to themselves, so that options, chunks, allocations, refused requests and each
request but the one that matters are stutters.

### `CupsConfig`

`settings` is libcups' per-thread state, where "nothing set" differs from a value, and
which has a port besides the four settings (`Kept`). `Over` is what a setter does: a server
named without a port leaves the port there was, `None` forgets both. `InUse` is what libcups
then uses; `Get` is what the getters return, and none returns the port, so a guard, the
record of four values `New` captured, does not have it. `Set` is every setter, called
outside of guards, while one is alive, or by a builder. `WithFails` is a builder given a
NUL byte: it returns an error and drops the guard it was given. `Send` is what the compiler
allows, the four values being owned. How libcups reads a server's name is external
(`map`): a name is given with or without a port and comes back without it; a numeric IPv6
address without brackets, whose last group could pass for a port, is not told apart.

`before` is what a thread had when it last held no guard, `orderly` and `ported` say
whether it has dropped its guards newest first, and whether a port was named or reset
meanwhile. `RestoredInOrder` promises the port only where it was not: that the guard loses
it is what the code does, and is said in section 5.

### `Destinations`

A list is libcups' array `dests`, which it keeps sorted by `Rank`, and the count `num` that
the library passes on. libcups looks at the first `num` entries (`Seen`). `Listing` is what
`cupsGetDests` makes of the queues, the file and the scheduler's default, which any queue or
none may be. `file` is `lpoptions`, shared by the owners; `base` and `touched` remember what
the list was read from and what was edited since, for the property. `SetDefaultDestination`
takes any key: libcups marks the entries that match and unmarks all others, so a key that is
not there leaves no default.

`search` is one run of `find_destinations`, told of printers that come and go. The result
is a vector, so `destinations` counts how often a printer is in it; `visits` counts, for
`FoundOncePerVisit`, how often it was on the network while the search ran. libcups may tell
of a printer late, or not at all, and of its going; `readable` is FALSE where `from_raw`
fails, in which case libcups has told of it and nothing is pushed. A printer withdrawn stays
in the result, and one that came back is in it twice: the property does not forbid it.

### `IppExchange`

`https` and `heap` are what libcups has allocated; `connections`, `requests` and
`responses` what values point to. Pointers are used again once freed. A send has three
steps, start, copy, return, and fails at the copy or after it. `get_attrs` is a send whose
request it drops, and whose response it merges into `options`. All values hold raw
pointers, so one thread has them.

A message says a header (an operation with its request id, or a status) and attributes
(`Bodies`). `Copy` copies the header, and as many attributes as libcups likes: the code does
not ask how `ippCopyAttributes` ended (`ipp.rs:488-492, 526-530`). The server answers what
it likes; `SendReturns` hands over any body.

`IppCalls` is what the application sees: requests and responses as values, the request
being sent, the attributes being asked for, the server of each connection, and what the
server was given in the running call (`delivered`). `Calls` is the refinement mapping: the
content of a value is what its pointer points to, the copy of a send is what is delivered,
and `get_attrs`'s own request is nobody's. While a call runs nothing of the application's
changes; the server is given the operation asked for, once, and no attribute of anything
else; when the call ends, at most the answer has been added, and never to a call that gave
the server nothing.

### `AuthCallbacks` and `DestinationCalls`

`AuthCallbacks` has a stack of calls for each thread: requests of libcups, prompts that
libcups makes in them, calls of a closure by the application, and other closures
(`monitor`). Whose code runs is said by the top: libcups' if it is a request, the
application's else. `slot` is the three thread-locals, `Borrowed` the `RefCell`'s rule: a
set within a call of the same kind is no step but a panic, which `Unwind` catches in calls
of the application's own, and which ends the process where an `extern "C"` function is in
between (`Abort`). `given` is the passwords that were leaked to libcups; a call remembers
the one it may still use.

`DestinationCalls` extends it with memory: each call of the stack has its locals (`Temps`),
each thread its `DestinationInfo` values, and `lost` is what nothing can free. Its actions
are those of `AuthCallbacks`, conjoined with what happens to the memory, and a few of its
own. `Reallocate` is libcups replacing the options array, which the code knows of
(`destination/mod.rs:222`). One pointer stands for a destination's name and instance.
`connect` never frees its destination; `AskInfoFails` and `CheckConflicts` are the `?` after
`cupsAddOption`. That `check_option_conflicts` never gets further is modelled as it is:
`cupsGetDest` is given a null array.

## 3. What is checked

Twelve runs; `MC*` modules give the instances. Where the deadlock check is off, the bound
on calls ends the behaviour, or (`Context.cfg`) the program has dropped everything.

| Run | Properties | Shows |
| --- | --- | --- |
| `Resolver_AnyStart.cfg` | `TypeOK` `ConsumerUpToDate` `ServiceNotLost` | with queries that may fail to start, no change is swallowed and the last announcement is kept |
| `Resolver_Live.cfg` | `OwnAddressesOnly` `SettledKnows` `TrueUntilChanged` `EveryAddressReported` `ImplementsUpdates` | with queries that start, addresses are those of the announced host and interface, all are known when nothing is on its way, none is false before a host changes, each that stays is reported in the end, and `ServiceUpdates` is implemented |
| `Resolver_Foreign.cfg` | `OwnAddressesOnly` (violated) | finding 1 |
| `Resolver_Stale.cfg` | `EveryLossReported` (violated) | finding 2 |
| `Context.cfg` | `TypeOK` `CallbackStateAlive` `ContextOutlivesHandles` `ContextReleased` `DropsFinish` | no use after free, no leak, no double delete, no drop that waits for ever |
| `Jobs.cfg` | `TypeOK` `HandlesAreJobs` `AcknowledgedWhole` `OnlyNulLeaks` `ImplementsService` | handles are jobs, documents are whole and in no other job, calls clean up, and do to jobs what `JobService` says |
| `Jobs_Orphan.cfg` | `EveryJobHasAHandle` (violated) | finding 3 |
| `Config.cfg` | `TypeOK` `RestoredInOrder` | guards dropped newest first restore what the getters said, and a port nothing touched |
| `Config_AnyOrder.cfg` | `Restored` (violated) | finding 4 |
| `Destinations.cfg` | `TypeOK` `CountIsExact` `FoundOncePerVisit` `OneDefault` `SavesKeepOthers` | count and array agree, no list has two defaults, saves keep, the search finds nothing twice |
| `IppExchange.cfg` | `TypeOK` `ConnectionsOwned` `MessagesOwned` `KnownOptionsKept` `ImplementsCalls` | nothing is freed twice or left over, `get_attrs` replaces nothing, and server and application see `IppCalls` |
| `Calls.cfg` | `TypeOK` `RegisteredIffStored` `RunningIsStored` `PasswordsKept` `HeapOwned` | closures that run stay stored, passwords are kept, each piece of memory has one owner |

Bounds, and why they are enough:

- Resolver: two hosts, one of them with two spellings or two interfaces; at most two
  addresses on a target, and in the live run one address that all three targets may have,
  so that an event of a wrong target can be true of the right one's pool and false of its
  network (`TrueUntilChanged`); `MaxAnnouncements` 4 (away and back with a change of record, and
  one more), 3 in the live run, where each announcement multiplies the fair cycles;
  `MaxChanges` 1: one change during the run, while every initial set of addresses is
  tried. The restart cases need two announcements, and coming back a third.
- Context: a browser, a resolver and a query, and two `Dnssd` values: every order of their
  drops. Handles can be opened again after they were dropped.
- Jobs: `MaxCalls` 4, that is create, two submissions and a close or cancel. `ChunkSize` 2
  and sizes 0, 1, 2, 3, 5 are no byte, less than a chunk, a chunk, a chunk and a rest, and
  more than `MaxSize` 4.
- Settings: two threads, two values, `MaxSets` 3, `MaxGuards` 2: the least that nests and
  the least that can be crossed; with them a port is named, kept, and reset.
- Lists: two queues with two instances each, two owners, `MaxCalls` 5: read, edit, save by
  both, or withdraw and return of a printer during a search, twice. Keys whose instance is there
  without its primary are among the calls.
- Exchange: two connections and two servers, three messages (a request, its copy and one
  other), two headers and two attributes, so that a copy can be of another operation, in
  part, or of another request. Nothing is counted: the run is of all behaviours.
- Calls: two threads, `MaxCalls` 4 running at once, that is a request, its prompt, the
  closure's own request and its prompt; two kinds, the one libcups is told of and one it
  is not; one closure; `MaxSets` 2: set and replace or remove; two passwords, three
  pointers: a destination with options, and one more for what replaces them. The proofs
  have no bound on any of these.

Symmetry is used where values are only compared for equality: the owners of lists, the
pointers, the threads, closures and passwords. No run with symmetry checks liveness.

Fairness. `DnssdServiceResolver!FairSpec` has weak fairness of `TryRecv` and of `Libcups`:
the documentation of `try_recv` makes the consumer poll it from its event loop, it never
blocks, and libcups' thread runs as long as the context lives. The responder is not fair:
hosts may stay silent. `DnssdContext!FairSpec` has weak fairness of a callback's return
(callbacks only send on unbounded channels) and strong fairness of the steps of a drop: a
delete that waits for callbacks is enabled between two of them and has to get its turn.

A run is `tlc -config <file>.cfg MC<module>`, the proofs of a module `tlapm <module>_proof.tla`.

## 4. What is proved

For all values of the constants that satisfy the named assumptions, by TLAPS, in the
`*_proof` modules. Each argument is an inductive invariant `IInv` (or the named parts of
it) that holds initially, is kept by each step, action by action, and implies the
property.

- **`DnssdServiceResolver_proof`**: `TypeCorrect`; `ConsumerKnows` (`ConsumerUpToDate`);
  `LastAnnouncementHeld` (`ServiceNotLost`, inductive by itself given types, case by case
  on what `Latest` is); and `AddressesStayWithTheirHost` (`OwnAddressesOnly`), which
  assumes `{} \notin StartOutcomes`: a start of queries never fails altogether, and
  without it the property is false (finding 1). `ConsumerUpToDate` speaks of the time
  between calls. `UpToDate` says what holds during one: the consumer knows what is held,
  or `changed` is set, or the addresses belong to another service. `Own` adds what makes
  an address safe before it is reported: the network stays in `Pool`, each queued add is
  of its target's pool, and the queries held are about the service held.
  `UpdatesImplemented` (`ImplementsUpdates`) is the refinement, under the same assumption:
  step by step, with `IInv` for the two places where the abstract step needs more than the
  concrete guard says: that the announcement handled is the first of `Pending`, and that
  the addresses kept with it are of its own host.
  `NoAddressLost` (`SettledKnows`) and `UpdatesTrueUntilChanged` (`TrueUntilChanged`) are
  under the same assumption. The invariant of the first is `Heard`: an address that a query
  has reported and its host has is in `addresses` with no removal behind it, or its last
  word in the channel is an add that will be taken, also when the event was sent by a
  callback of a query that is not stored yet; `EventSent` and `EventReceived` are the lemmas
  about the last word. The second is kept by `Unchanged`: before the first change every add
  in the channel, of a replaced query too, is true of the host it names.
  `SettledExactly` puts the two together: where both queries always start and nothing has
  changed, a host that has addresses is reported with exactly those. For a host without
  addresses this is false, as the consumer may still know the service by another (see
  section 5).
- **`DnssdContext_proof`**: `TypeCorrect` (which includes that no context is
  deleted twice),
  `CallbacksFindTheirState`, `ContextLastsLongest`, `NothingLeft`. `Tracked` says which
  boxes and objects exist in each step of opening and dropping; `Counted` what the
  `Arc`'s holders mean for the context; `Called` that libcups calls back only for what
  it knows. None of the properties is inductive alone: that a box is freed only after its
  object is known only through the step the owner is in.
- **`PrintJobs_proof`**: `TypeCorrect`, `HandlesNameJobs`, `DocumentsWhole`,
  `CallsCleanUp`. `Allocated` says what each step of a call may have allocated; `Kept`
  says that no step takes a document or a destination from a job; `Once`, which needs the
  `Arguments` below, that a document is put where its call goes and nowhere else; `AnswerFacts` that
  success is the answer to a request that was performed. `JobsServed` (`ImplementsService`)
  is the refinement, for every size and chunk size. It needs the second invariant
  `Arguments`: what a call carries from where it began to its request (`Carried`: a
  destination, a size that was checked, the job of a handle) and that no document has the
  running call's number yet (`Numbered`), without which a document could arrive twice.
  `NoOrphans` (`EveryJobHasAHandle`) is the complement of finding 3: it assumes that every
  answer arrives and `IPP_STATUS_OK` is the only success, and the run `Jobs_Orphan.cfg`
  shows that the property fails as soon as there is another success.
- **`CupsConfig_proof`**: `TypeCorrect`, `OrderRestores` (`RestoredInOrder`). The
  strengthening is `OldestKnows`: while guards are live the settings may be anything, but
  the oldest guard has what the getters said before it, and the port is what it was then
  unless `ported`.
- **`Destinations_proof`**: `TypeCorrect`, `CountsExact` (`CountIsExact`), `SearchFindsOnce`
  (`FoundOncePerVisit`) and the action property `SavesKeep` (`SavesKeepOthers`). `ListInv` is about
  one list: its count is the cardinality of its keys, so that `Seen` is the whole of it
  (`SeesAll`) and each call can be followed key by key; and `Untouched`, that a key which was
  not edited has the value it was read with, which is what a save then writes.
  `Found` says that a
  printer libcups has yet to tell of was there once more often than it was found.
  `DefaultIsUnique` (`OneDefault`) rests on the exact count: only because libcups sees the
  whole list does setting a default unset the one there was.
- **`IppExchange_proof`**: `TypeCorrect`, `NoConnectionLost`, `NoMessageLost`
  and the action property `FillUpOnly` (`KnownOptionsKept`).
  `Exchange` says what a running send holds on to: its request among the program's, a live
  connection or none, and in `get_attrs` a request that asks for exactly the attributes the
  destination does not know. `CallsImplemented`
  (`ImplementsCalls`) is the refinement of `IppCalls`, whichever pointers are used again:
  `Memory` says that what the application has is allocated and one kind of message only,
  `ReturnKeeps` that a call frees nothing of it, and `CopyDelivers` that the copy has the
  operation the call was to send and only attributes of its request, so that what `heap`
  holds at the copy's pointer is a legal delivery.
- **`AuthCallbacks_proof`**: `AuthTypeCorrect`, and, for any depth of calls, that
  `RunningIsStored`, `RegisteredIffStored` and `PasswordsKept` hold. `Good` says of a stack
  what each of its calls needs, and is kept by pushing, popping, cutting and answering.
- **`DestinationCalls_proof`**: `CallsImplementCallbacks` (`Spec => AuthSpec`), from which
  the three properties carry over (`ClosureStaysStoredInCalls`, `RegisteredInCalls`,
  `PasswordsKeptInCalls`), `CallsTypeCorrect` and `HeapOwnedInCalls` (`HeapOwned`). The
  inductive invariant is `CallsInv`. `Aligned` says that locals and calls go together, that a call's
  pointers differ, and that only requests have any: so a panic, which unwinds calls of
  closures only, loses nothing. `Owns` is `HeapOwned` with the owners in one function of
  places, so that each step is one place that gives back what it has and takes what is
  free (`OwnsChanged`), or memory that is lost (`OwnsLost`).

Assumptions are those on the constants, evaluated by every run, and the one on libcups'
deletes above. `UpdateAssumption` only says that the value for "told nothing" is no update,
and `PointersAssumption` that NULL is no pointer and no message.

Only model-checked: everything about liveness (`EveryAddressReported`, `DropsFinish`),
which with fairness and `ENABLED` is outside of the prover's reach
(`NoAddressLost` is the part of the first that is a safety property);
and the violations, which are counterexamples.

## 5. Findings

1. **Addresses of a foreign host** (`dnssd.rs:302`). `try_recv` takes an announcement of
   the queried host as answered whenever `addresses` is not empty. After a restart of the
   queries that failed, `resolved` names the new host and `queried` still the old; queued
   events of the new one fill `addresses`, and the old host's next announcement is
   returned with them. The same failure loses addresses: events of the old host that arrive
   while `resolved` names the new one are dropped, the queries will not repeat them, and the
   old host's next announcement starts no new ones. So for no record type could it be
   claimed that a settled consumer knows its addresses; `SettledKnows`, which asks for the
   types of *some* outcome of a start, says nothing where one outcome is no query at all,
   and is stated for runs and theorems in which a start never fails altogether.
2. **A lost address that stays** (`dnssd.rs:316`). Events of replaced queries stay in the
   address channel. An add among them, read after the clear, brings back an address that
   was lost before the new query asked, which it will never withdraw. The documentation
   says a result is emitted "again whenever the address set changes" (161-162).
3. **A job without a handle** (`job/mod.rs:296`). Only `IPP_STATUS_OK` counts as success;
   a job created with `successful-ok-ignored-or-substituted-attributes` is reported as an
   error, and stays at the scheduler with nothing to close or cancel it by. `ipp.rs:288-293`
   counts that status as successful.
4. **Settings not restored** (`config.rs:350`). Each guard restores what it captured, on
   the thread it is dropped on. Guards dropped oldest first, or sent to another thread,
   leave settings behind. The run compares what the getters say, so it does not rest on the
   port.

The models also rest on facts a reader of the code should know. A NUL byte in an option or a
document name leaks the destination that `as_ptr` built (`job/mod.rs:119, 125-127,
320-322`), which `OnlyNulLeaks` exempts. Replacing the queries empties the address set
without telling the consumer (`dnssd.rs:313`), who keeps the addresses of the host the
service has left, for ever when the new host has none. A guard pins a setting to what was
the default when it was made, and does not give back the port of a server:
`with_server("host:8631")` leaves 8631 behind for the thread's own server, since
`get_server` returns a name without one (`config.rs:53-67, 353-355`). Saving a list that was
read without a default in the file writes the scheduler's default there, as the user's own.
A save replaces the whole file by the list as it was read, so `SavesKeepOthers` is
conditional on nobody having written since. `set_default_destination` returns `Ok` for a key
that is not in the list, which then has no default. A search does not take back a printer
that is withdrawn (`destination/mod.rs:1275`). A copy that `ippCopyAttributes` did not
finish is sent without an error. The two certificate closures are stored and never
registered with libcups (`auth.rs:131, 164`), although the documentation of both says
libcups calls them (107, 139): only the application's own `get_client_certificate` and
`validate_server_certificate` do. A closure set on one thread is not asked on another.

## 6. Not modelled

Conversions without state: option strings, job status, errors, bindings. Queries that copy
one answer of libcups: the values and media of a `DestinationInfo`. What
`check_option_conflicts` would do with a conflict (`destination/mod.rs:949-1051`), which it
never reaches. Timeouts and cancellation of a connect: the flag the library is given is not
the one libcups reads (see the hazards), so no step depends on it. Values of IPP attributes
and collections, and `IppAttribute`, a `Copy` pointer into a response that nothing keeps
alive (`ipp.rs:694`, a hazard no property covers). What libcups does with a query it reports
`CUPS_DNSSD_FLAGS_ERROR` for. Browse events, which are passed on as they are. `copy_dest`
and `remove_dest`, which work on arrays of the caller. The drop of a closure that is
replaced: one whose own `Drop` asks for a password finds its slot borrowed and panics
(`auth.rs:84`). A closure that stays in the extern `monitor` of `connect` when
`Destination::from_raw` fails is not called; the model's monitor may return at once.

## 7. Plan

Modules, in the order of their importance; all but the last three points are done.

1. `DnssdServiceResolver`, with liveness, `ServiceUpdates` and the refinement. *Done*, with
   proofs.
2. `DnssdContext`. *Done*, with proofs.
3. `PrintJobs`, with `JobService` and the refinement. *Done*, with proofs.
4. `CupsConfig`. *Done*, with proofs.
5. `Destinations`. *Done*, with proofs.
6. `IppExchange`, with `IppCalls` and the refinement. *Done*, with proofs.
7. `AuthCallbacks` and `DestinationCalls`. *Done*, with proofs.
8. `Sessions`, the composition of `CupsConfig`, `PrintJobs` and `IppExchange`: a job is
   created on the server set then, and closed, cancelled or continued on the server set
   *now*; a request on a closed connection goes to the scheduler of libcups' own
   connection (`Peer` already says so); a port left behind by a guard is part of it.
9. `DnssdServiceResolver` and `DnssdContext` composed, the queries of the one being handles
   of the other.
10. Runs of known limits: a save of a stale list, `set_default_destination` of a key that is
    not in the list, a query that libcups gives up (`CUPS_DNSSD_FLAGS_ERROR`).
