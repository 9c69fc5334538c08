# HyperNVRAM in TLA+

A verification project for HyperNVRAM, the library and PANDA plugin that stand in
for the NVRAM peripheral of emulated firmware. The modules are translated from
`src/libhypernvram/nvram.c`, `src/libhypernvram/alias.c`, `src/include/*.h` and
`src/python/nvram_plugin.py`; TLC checks them on small instances and TLAPS proves the
central properties for instances of every size. `PROJECT.json` has the
machine-readable index: components, runs, mutants, the source lines behind each
definition, findings, hazards and theorems.

## The system

`libnvram.so` is preloaded into every process of the guest. Its functions turn each
NVRAM operation into a *hypercall*: a trapping instruction that stops the guest CPU
while a Python plugin on the host serves it from one dictionary. So there are many
guest processes, each with its own copy of the library's globals, and one host.

| component | state | operations | talks to |
|---|---|---|---|
| NVRAM API (`nvram.c`, `alias.c`) | per process: `init`, `config`, `DEFAULT_GET`, `temp` | `nvram_init`, `get`, `get_buf`, `get_int`, `default_get`, `set`, `set_int`, `unset`, `safe_unset`, `clear`, `reset`, `set_default`, `list_*`, `getall`, `match`, `commit`, `close`, and vendor names for all of them | cache (call), plugin (hypercall) |
| guest cache (`nvram.c:531-603`) | per process: the list `cache` .. `cache_end` | `get_cached`, `create_cache`, `insert_cached_*`, `delete_cached` | called by the API |
| default values (`config.h`, `nvram.c:302-416`, `482-530`) | none | a fixed table, symbols of the firmware, files; each value one `nvram_set` | API |
| transport (`hypercall.h`) | none | `hc`: touch the arguments, trap, repeat while the host answers `RETRY` | traps into the plugin |
| plugin (`nvram_plugin.py`) | `nvram`, `cache` (which keys a guest may cache), `conf`, `missing` | one handler per hypercall, callbacks before each, methods exported to analysis scripts | reads and writes guest memory and the return register |

What is hard:

- **Interleaving.** A hypercall is atomic, but most API calls make several, and all
  processes share the store. `nvram_reset` is a clear followed by a write per default.
- **Stale state.** A process caches values; another process, a script or its own
  writes change the store behind the cache. The configuration word is fetched once.
- **A protocol in the low bits of a register.** Success, failure, "you may cache
  this" and the configuration are all words in the return register, and the test for
  "you may cache this" (`nvram.c:225`) looks at bit 1 of every one of them.
- **Failure.** A process may die in the middle of a call; a callback may consume a
  hypercall; scripts replace the whole store or the whole cache table at any instant.
- **Memory.** Cache nodes are `malloc`'ed, linked and flagged without being initialised.
- **One buffer.** The static `temp` takes keys, values, lists and the lines of files, in
  every thread of a process; and `init` is set before there is anything to read.
- **Boundaries.** Buffer sizes, table strides, integers stored as text, byte orders.

What makes the components correct:

- the API: no interleaving leaves the defaults with a hole nobody asked for; every
  call returns; a clear, a set and a reset have the effect their headers promise;
- reading, with the cache: a value read was in the store at an instant of the read, or
  a callback answered it, or it is the value this process pinned before; only marked keys
  and the answers of callbacks are pinned;
- the list: it is a list, it implements a map, and no walk along it goes round, as long as
  the library takes no pointer that nobody wrote for a node's;
- the transport: a hypercall takes effect exactly once, and the retry loop ends;
- `temp`: what a read delivers is of the key the caller named, and what is stored under
  a key was meant for it, whatever went through the buffer;
- strings, integers, `nvram_getall`: inside the buffer, whole or cut at the right place;
- defaults: the pairs of the sources reach `nvram_set`, and no parser leaves its data.

## Modules

| module | what it is |
|---|---|
| `CacheEntry` | keys, values, flag words and cache entries, shared by the others |
| `NvramPlugin` | the host: store, cache table, configuration, one operator per handler and per exported method |
| `HyperNvram` | the API in every process, composed with the host; the properties |
| `PinnedReads` | abstract specification: what a read promises to a process that may cache |
| `HyperNvramReads` | the refinement mapping from `HyperNvram` to `PinnedReads` |
| `CacheMap` | abstract specification: the cache is a map from keys to entries |
| `CacheList` | the doubly linked list, node by node, and its refinement mapping to `CacheMap` |
| `AtomicCall` | abstract specification: a hypercall takes effect once, as asked, before it returns |
| `Hypercall` | the loop of `hc` on each architecture, the guest memory the handlers reach, and its refinement mapping to `AtomicCall` |
| `TempBuffer` | the threads of processes over `temp` and `init`: list functions, variadic aliases, default files |
| `GuestBuffers` | strings, integers and all pairs as bytes in guest buffers of any size, on guests of both byte orders |
| `DefaultSources` | the list of default sources and the four parsers, pointer by pointer and byte by byte |
| `MCHyperNvram`, `MCCacheList`, `MCHypercall`, `MCTempBuffer`, `MCGuestBuffers`, `MCDefaultSources` | instances for TLC |
| `HyperNvramProofs`, `HyperNvramReadsProofs`, `CacheListProofs`, `HypercallProofs`, `TempBufferProofs`, `GuestBuffersProofs`, `DefaultSourcesProofs` | theorems and proofs |
| `Recursions` | lemmas on induction and recursion over the naturals, for the two proofs that need them |

`HyperNvram` extends `NvramPlugin` extends `CacheEntry`. It rests on three idealisations,
each the subject of another module: a process's cache is a map (`CacheList` shows that
the list of the code is that map until the library follows a pointer that nobody wrote,
and that this can happen; what the process does from then on, no module has); a hypercall is one step of the host (`Hypercall` shows
for which calls, and on which architectures, that is so); the defaults are a given
sequence of pairs (`DefaultSources` shows where the pairs come from). It also takes a
process to have one thread and values to be whole: `TempBuffer` has the threads and
`GuestBuffers` the bytes.

### How state and actions correspond to the code

In `HyperNvram` and the modules under it:

- `nvram`, `cacheCfg`, `conf` are `self.nvram`, `self.cache`, `self.conf`.
  `self.uncache` and `self.cached` have no variable: the only methods that would fill
  them raise first (`nvram_plugin.py:142,146`), so `control` always returns `True`.
- `init`, `config`, `cache` are the library's statics, per process. `DEFAULT_GET` is
  non-NULL exactly when `config` has bit 1 and the firmware exports the symbol
  (`NativeGet`).
- `pc[p]` is the stage of the API call that `p` is in, one stage per hypercall of the
  function; `call[p]` has its arguments; `idx[p]` is the next default to write.
  `After` is the control flow between stages.
- A stage is one of: `CacheHit` (the guest answers itself), or a `Trap...` (the host
  acts, `reply[p]` is the return register with what the host wrote to the buffer)
  and then a `Return...` (the library looks at the word and updates its cache). Other
  processes, scripts and deaths come between any two of these.
- Flag words are sets of bits, because the guest tests only bits 1 and 2. The words
  that matter keep the bits they have: `MAGIC_VALUE` has both, `NVRAM_GET_BUF` and 0
  have neither, `CACHE | conf` has those of the table.
- `malloc`'ed fields and unwritten buffers hold `Junk`; the flags of a new cache entry are
  any (`Fresh`).
- `TrapBlocked` is a callback that consumes a hypercall, `nvram_block_all` or the one of the
  single hypercall: the guest finds `MAGIC_VALUE`, which has both flag bits, and in the buffer
  what the callback wrote (`StrAnswers`, `IntAnswers`) or what was there before.
- `gone`, `lost` and `order` are history variables: the keys that were removed on purpose;
  for each process, the keys missing since it died on its way to write them, until it
  initialises the library again; and the nodes of the list in order.
- `Misread` is what becomes of an integer that is set: a set of strings per integer.
  `GuestBuffers` has the conversion itself.
- In `CacheList`, one iteration of the loop in `get_cached` is one step (`Skip`), the
  rest of each operation another. `malloc` returns any chunk that is no node now, freed ones
  included, with any flags. A link that `create_cache` leaves alone is NULL or `Wild`, a
  pointer nobody wrote; when the library takes that for a node's, or frees a `val` nobody wrote
  (`Trample`), it is `Astray`, and no step is left. What a chunk held before is not kept: a
  value or integer nobody wrote is `Junk`, and a stale pointer to a node is `Wild` like any
  other.

In `Hypercall`, `y`, `i` and `word` are `hc`'s locals `y`, `i` and `ret`; `resident` are
the pages the host reaches by virtual address. `Touch` is one round of the inner loop (the
page fault included), a `Trap...` is a handler with all its reads and writes of guest
memory, `Again` and `Return` are the test of the loop. An argument is the span of words the
handler reads or writes: a string up to its terminator, a buffer as far as the value
goes. What a handler does to the store is one element of `done`; with `intact` false it
did that for another key than it was asked for.

In `TempBuffer`:

- `temp` and `init` are the statics, per process; `pc`, `call` and `line` belong to a
  thread. Every access to `temp`, `init` or the store is a step of its own: `Format`
  (`vsnprintf`), `Check` and `Enter` (the two tests of `init`), `Load` (one pair of the
  defaults), `Read`, `Use`, `Reread` and `Edit` (`nvram_list_exist` and `strtok`), `Put`.
- Functions that treat `temp` alike are one operation; the module lists which.
- A value is the sequence of its list elements, an element its first character and its
  rest, because `nvram_list_exist` compares the rest alone (`nvram.c:134`).
- `Careful` is a condition on the firmware: one thread of a process at a time makes a
  call that uses `temp`, to initialise the library included, and where defaults come
  from a file no key is formatted before `nvram_init` (`Allowed`). A process with one
  thread that calls `nvram_init` first keeps to it. The comments "Will hold lock" in the
  header (`nvram.h:7,15,19,37,40,43,46,48,50,52`) promise that the library sees to this
  itself; the code has no lock, so the condition takes away exactly the interleavings that
  those locks would have. The run `init_without_lock` is without it.
- Two steps stand for several accesses: `nvram_init`'s test of `init` and its assignment, and a
  line of a file from `fgets` to `nvram_set`. With `Careful` no thread of the process comes
  in between; without it the code has more outcomes than the model.
- `seen` and `known` are history variables: what the store held under a read's key
  during the call, and the keys it has ever held, by whichever process.

In `GuestBuffers`:

- A byte is a number below `Base`, and `Radix` stands for ten: 256 and 10 are scaled down
  together. The store is a Python dict, which keeps the order of insertion, so it is a
  sequence of pairs: `nvram_getall` delivers them in that order.
- `Cut` and `Framed` are the slices of the two handlers, with Python's meaning of a
  negative bound; `Strncpy` is a hit in the cache; `out` is what was written from the
  start of the buffer on.
- `HostSize`, `GuestInt` and `SetInt` are the conversions at the border. The plugin takes
  every word for little-endian, as wide as a pointer; the guest uses its own order.

In `DefaultSources`:

- A source is a record with its data, whether it is there, and whether it counts only
  when `FIRMAE_NVRAM` is set. `pos` is `i` of the table's loop, the position of the file
  that `fgets` reads, or the index in the mapped file; `larr` and `rarr` are the arrays
  up to `j` and `k`, `left` the flag of that name.
- `Row` guesses the number of columns anew each time, as the code does. `Inside` says
  that the pointers a round looks at belong to the table; a loop that has left its table
  stops in the model.
- `Debug` is `DEBUG` of `config.h`: all sources but the built-in one are loaded in the
  arguments of `PRINT_MSG`, which are evaluated only then.

## Runs

| run | instance | result |
|---|---|---|
| `resets` | 2 processes, one mortal; 2 defaults; init, reset, set_default, clear, unset, list_add; no caching; fairness | `TypeOK`, `DefaultsSurvive`, `CallsReturn` hold (47 283 states) |
| `pinned_reads` | 2 processes that cache; get, get_int, set, list_add, safe_unset, clear; any marking of keys; callbacks consume reads and write nothing; symmetry of processes | `ReadsArePinned` holds (1 255 893 states) |
| `scripts` | 1 mortal process, all reads and writes, native `nvram_default_get`; all exported methods at any instant; callbacks consume init, clear, set and reads, which they may answer | `ReadsArePinned` holds (168 696 states) |
| `cache_list` | 3 nodes, 3 keys; any contents of new nodes; fairness | `ListTypeOK`, `ListOK`, `IsMap`, `JobsEnd` hold (1 108 750 states) |
| `transport_once` | arm, aarch64, mips, i386; 10 words in 5 pages; pages taken away at any time | `TypeOK`, `EffectOnce` hold (209 504 states) |
| `transport_returns` | arm; pages stay; also `nvram_nget` and `nvram_getall`; fairness | `HcReturns` holds (4 158 states) |
| `temp_buffer` | 2 threads of one process and 1 of another; 2 keys, one default from a file; careful firmware | `TypeOK`, `ReadsNamed`, `OwnValues`, `DelRemoves`, `DefaultsFirst` hold (1 812 134 states) |
| `guest_buffers` | 1 process; both byte orders, pointers as wide as an int and wider; 2 keys, 5 texts, 6 buffer sizes | `TypeOK`, `BufferSafe`, `TextDelivered`, `WholeRecords`, `IntDelivered` hold (40 631 states) |
| `default_sources` | every text file of up to 5 and every binary file of up to 6 characters, every table of up to 3 rows, lists of four sources; a `DEBUG` build; fairness | `TypeOK`, `SourcesLoaded`, `InsideTable`, `LongKeysCut`, `Returns` hold (132 432 states) |
| `swapped_registers` | i386; pages stay; fairness | `HcReturns` is violated |
| `set_int_text` | as `guest_buffers`, little-endian guests | `SetIntIsRead` is violated |
| `list_del_loses` | as `temp_buffer` | `DelKeepsOthers` is violated |

Five further configurations are not among the runs of `PROJECT.json`. Each of them, given to
TLC with its module, violates a property, and the text below says what that means:

| configuration | module, instance | result |
|---|---|---|
| `sources_skipped` | `MCDefaultSources`, with `DEBUG` 0 as in `config.h:5` | `SourcesLoaded` is violated |
| `getall_skips` | `MCGuestBuffers`, little-endian guests | `AllDelivered` is violated |
| `init_without_lock` | `MCTempBuffer`, with `Careful` FALSE and reads only | `DefaultsFirst` is violated |
| `reset_while_cached` | `MCHyperNvram`, one process that caches; get, reset | `DefaultsSurvive` is violated |
| `cache_unwritten` | `MCCacheList`, two nodes, two keys | `StaysOnList` is violated |

The properties:

- `DefaultsSurvive`: once some process has initialised, a default key is missing only
  if it was removed on purpose, some process still *owes* it (`Owes`: its call will
  write it), or one died owing it and has not initialised the library since (`lost`). It
  fails if a second load starts where an earlier one ended, if a reset forgets its load, if
  an initialisation is skipped after a clear, if the next initialisation of a restarted
  process does not close the hole it left.
- `ReadsArePinned`: refinement of `PinnedReads`. It relates every read to the store at
  an instant of that read and to all reads of that key before it by that process, and says
  what may enter the cache: the value of a key that the table marked when the host answered,
  and whatever a callback answered, for that leaves `MAGIC_VALUE` in the register, which
  passes the guest's bit test (`nvram.c:225`) whether the key is marked or not. No other word
  caches anything, those for missing keys included.
  A value is pinned in the abstract specification when the host answers, one step
  before the library caches it; a write that comes between the two does not unpin it.
- `EffectOnce`: refinement of `AtomicCall`. It fails if a handler acts before it has read
  all of its arguments, if a hypercall returns without having acted, if a retry acts
  again or on another key.
- `ListOK`, `IsMap`: the list is a list and is the map, until the library goes astray.
- `ReadsNamed`, `OwnValues`: a read delivers what the store held, during the call, under
  the key that the caller named, and every element a key holds is one of its own. Key, value
  and file lines share one buffer; both fail as soon as a second thread uses it. `OwnValues`
  does not say which of its elements a key keeps.
- `DelRemoves`: what `nvram_list_del` writes back does not have the element, although
  the list may change between its two reads and its write. That it has all the others is
  `DelKeepsOthers`, which is violated.
- `DefaultsFirst`: no read through `temp` misses a default that nobody removed.
- `BufferSafe`, `TextDelivered`, `WholeRecords`, `IntDelivered`: nothing is written behind
  a buffer; strings are cut with their NUL, `nvram_getall` delivers as many whole pairs
  as fit, of those whose value is not empty; integers come back as the number whose text is
  stored.
- `SourcesLoaded`: what `nvram_set` is given is what the sources say, by a definition of
  the formats through the pieces between their separators (`Pairs`), for sources in the formats the
  parsers are made for (`WellFormed`). `InsideTable` and `LongKeysCut` are about the
  boundaries of these formats.
- `CallsReturn`, `JobsEnd`, `HcReturns`, `Returns`: progress.
- The runs that end in a violation are about sentences of the header and of a checker of the
  repository; `PROJECT.json` "findings" has the quotations and the lines.

### What the models show besides

Where the code does not do what a header or the README says, and the properties above take
it as it is:

- `nvram_clear` keeps the process's cache, because the plugin answers 0 and the library
  empties the cache only for another word (`nvram.c:99`, `nvram_plugin.py:96-98`), so reads
  go on delivering what was cleared (`nvram.h:19`). Caching has to be enabled for that.
- A value set before the first read is overwritten by the defaults when the read
  initialises the library (`nvram.c:267`, `nvram.c:201`, `README.md:8-9`).
- A key read both as a string and as an integer delivers a field that was never
  written (`nvram.c:602`); `ReadsArePinned` therefore separates `StrKey` and `IntKey`.
- A read that a callback consumes is cached though the table does not mark its key, and with
  it whatever the caller's buffer held if the callback wrote nothing (`nvram_plugin.py:72,80`,
  and `:180`, `:226`, `:242` for the callbacks of single hypercalls; `nvram.c:225,250`). No
  document says what such a callback has to write.
- `nvram_list_add` replaces the whole value (`nvram_plugin.py:93-95`), where `nvram.h:57` says
  that it "adds a list entry to a NVRAM value".
- `nvram_list_del` stores the first element of the list and nothing behind it: `strtok` has
  ended the text there (`nvram.c:133,162`), also when the element searched for comes later
  or is not in the list at all. `nvram.h:62` says that it "deletes a list entry", and
  `nvram.c:155` that overwriting `temp` "is OK"; `DelKeepsOthers` says what a deletion should
  keep, and the run `list_del_loses` violates it. `DelRemoves` holds largely for the same
  reason. A key that is unset between the two reads comes back.
- `nvram_getall` leaves out every pair whose value is the empty string (`nvram_plugin.py:158`;
  `config.h` has such defaults), where `nvram.h:42` says "all NVRAM keys and values".
  `WholeRecords` is about the other pairs; `AllDelivered`, about all of them, is violated.
- The header says "Will hold lock" of `nvram_init`, `nvram_clear`, `nvram_get_buf`,
  `nvram_get_int`, `nvram_getall`, `nvram_set`, `nvram_set_int`, `nvram_unset`,
  `nvram_safe_unset` and `nvram_set_default_image` (`nvram.h:7,15,19,37,40,43,46,48,50,52`). The
  library has no lock. Every safety property of `TempBuffer` is under `Careful`, which puts the
  duty on the firmware. With `Careful` FALSE, a second thread finds `init` set and reads
  before the first has loaded the defaults (`nvram.c:70`; configuration
  `init_without_lock`), threads overwrite each other's keys and values in `temp`, so that
  `ReadsNamed` and `OwnValues` fail, and `nvram_nget` as the first access of a `DEBUG` build
  loads a file over its own key (`alias.c:75`).
- A read that misses its key follows the `forward` of the last node, and the deletion of the
  first node writes through its `back`; nobody has written either (`nvram.c:577,584`).
  If `malloc` leaves anything but 0 there, the walk leaves the list: `StaysOnList` is violated
  by the first key that is cached. `free` of a `val` that `insert_cached_int` never wrote
  (`nvram.c:568`) is the same. So the theorems about the list say what holds until then, and
  the models of the API what a process does that is lucky with its memory.
- In a process that caches, `nvram_reset` clears the store and `nvram_set` then skips every
  default whose key is cached (`nvram.c:273`), so the defaults it is to restore
  (`nvram.h:17`) stay missing from the store: `reset_while_cached` violates
  `DefaultsSurvive`. An `nvram_set` of a cached key is not read afterwards (`nvram.h:46`).
- Without `DEBUG`, which `config.h` sets to 0, no default table and no default file is ever
  loaded: the loads are arguments of `PRINT_MSG` (`nvram.c:40,312-329`). `README.md:13-14` of
  the repository says they are; configuration `sources_skipped` violates `SourcesLoaded`.
- With `Archs = {"aarch64"}` in `transport_returns`, the word that `hc` touches never moves
  (`hypercall.h:163`), and `HcReturns` fails.

When constants of a run are changed:

- With `Requests <- NgetRequests` in `transport_once`, a write that stops at a page boundary
  garbles the key of `nvram_nget`, which is in the same buffer; with `GetallRequests`, a
  failed write is answered with `NVRAM_GETALL` and not `RETRY`, and `nvram_getall`
  returns success. `EffectOnce` fails for both.
- With `Archs = {"mips"}` in `transport_returns`, an argument whose first word is the last
  of a page is never brought in, since 32-bit mips increments `y` before it touches.

What the properties leave out, and why:

- On big-endian guests (mipseb, mips64eb) the plugin misreads sizes and integers
  (`nvram_plugin.py:182,186,215,273,289`): buffers are overrun and numbers garbled. The four
  properties of `guest_buffers` are about little-endian guests.
- A buffer of size zero is overrun (`b[:-1]` is all but the last byte); negative integers
  are lost where pointers are wider than an `int`.
- A cached string may have been cut to the first reader's buffer, and `strncpy` leaves it
  without its NUL in a buffer as long as itself: for marked keys `TextDelivered` asks
  only for a prefix.
- A two-column table that ends in a single NULL is read beyond its end; a line longer
  than `BUFFER_SIZE` is parsed in pieces that invent pairs; a key of `LEN` characters
  without a `=`, or a value of `LEN`, has no terminator; a last record without its NUL is
  dropped. `WellFormed` excludes the first two, `LongKeysCut` covers keys that are too
  long.

### Bounds, and why they are enough

- Two processes: every property that relates processes relates a process to "some
  other", and each process is in at most one call. `scripts` has one process because
  scripts are the other writer there, with more freedom than a process has.
- Two keys, two defaults: one default already written and one still owed; a key read
  as a string and a key read as an integer. The first default's key is also
  the key other processes remove.
- Two values, of which one is a number and one is not; two integers, 0 and 1: a read
  can tell an old value from a new one and a miss from a hit.
- In `resets` caching is off and no reads run, because reads neither write the store
  nor affect the loads then; `pinned_reads` leaves out the operations that only
  repeat `set` and `clear`.
- Three nodes and three keys: a first, a middle and a last node, and an insertion
  after a complete clear. Values and words play no part in the links, so there is one
  of each. A freed node is handed out again, so behaviours have no end; an insertion
  waits when all three nodes are in the list, which stands for no limit of the code. The
  theorems have no bounds.
- Ten words in pages of two: strings and buffers of one or two words that lie in one
  page or cross into the next, a vector that crosses pages, and one word behind the last
  argument. A second round brings the second page in; longer arguments repeat that
  round. The last word is there because the
  walk goes one word further in every argument at once: without it a call
  may fault on arm too.
- `temp_buffer`: two threads that share the buffer and one that does not. Each thread
  calls some of the functions (`MCOps`), so that every pair of kinds meets: one that
  formats a key, one that formats a value, one that deletes from a list, one that
  initialises, one that removes behind their backs. Values have one or two elements, the
  one searched for first, last or missing. The theorems have no bounds.
- `guest_buffers`: buffer sizes below, at and above the length of each text, of one pair and
  of all pairs; texts that are empty, a number, a negative number, or begin with a `=`; a
  number too wide for an `int`.
- `default_sources`: a line buffer of five characters and fields of three, so that lines and
  keys fit exactly, by one, and not; every string over the special characters and two
  others up to these lengths and beyond. Tables have up to three rows of every shape; lists
  of four sources have one of each kind, there or not, and both values of `FIRMAE_NVRAM`.
- Nothing else is bounded: stages, words and tables are finite by nature.

Deadlock is checked in every run but `default_sources`, whose program returns, and
`cache_list`, whose process may go astray.

### Fairness

`FairSpec` of `HyperNvram` assumes weak fairness of each process's steps inside an API
call: the guest kernel schedules every runnable process and every trap returns, since
the handler of a hypercall has no loop. It assumes nothing of calls, deaths and
scripts. The transport's retry loop is taken to end here; `HcReturns` is that
assumption. `FairSpec` of `CacheList` assumes that the library goes on executing
(`JobsEnd` asks nothing of a process that is astray),
`FairSpec` of `Hypercall` that a process in `hc` does, `FairSpec` of `DefaultSources` that
the one load does. `HcReturns` also supposes that pages
stay: the walk never comes back to a page it has left, so one that is taken away at
the wrong moment makes `hc` walk out of the memory. Its run has the loop of arm and
mips64. On mips64 that supposes further that the compiler sees the host's `RETRY`, written
to a 64-bit register, as the `int` the loop compares.

## Proofs

All proofs are checked by TLAPS (SMT, Zenon and the temporal backend) for any number
of processes, threads, keys, values, defaults, nodes, pages and sources, for strings,
buffers, numbers and tables of any size.

`HyperNvramProofs`:

- `TypeCorrect`: `Spec => []TypeOK`. `TypeOK` is not inductive: the type of a result
  depends on the stage that asked for it. `TypeInv` adds `StageOK` (a process is in a
  stage its call goes through, and a `set` stage has a value) and `AnswerOK` (an
  outstanding answer is of the kind its stage asked for). Every action then has a
  lemma of its own; `GotoStep` has the part they share, among it that the index stays
  within the defaults.
- `DefaultsSafe`: `QuietHost` implies `Spec => []DefaultsSurvive`. `QuietHost` says
  that the configuration word never has the caching bit and that callbacks consume
  neither `NVRAM_INIT` nor the `NVRAM_SET` of a default; both are needed (without
  the first, `nvram_reset` skips the defaults that the process has cached). The invariant is `TypeInv`, `Uncached` (the
  bit is in no copy of the word, answers under way included) and the property. The
  argument: a step of `p` disturbs a key only if it removes it, which puts it in
  `gone` or makes `p` owe it, or if it discharges what `p` owes by writing it
  (`TrapKeeps`, `ReturnKeeps`); a death moves what `p` owes to `lost[p]`, and the next
  initialisation of `p` owes it again.

`HyperNvramReadsProofs`:

- `ReadsPinned`: `ReadsApart` implies `Spec => ReadsArePinned`. `ReadsApart` says that the
  firmware reads a key in one way; nothing is asked of scripts, callbacks, deaths or the
  table. The invariant adds to `TypeInv` that the word for a
  missing key has no flags and answers no integer (`MissesPlain`), and that nothing is
  cached before the configuration word has arrived (`NothingEarly`): otherwise its arrival
  would pin values that no read delivered. `RowOnly` reduces every step of a process to its
  own row of the mapping; then a trap of a read is a `Fetch` (`FetchMaps`) or, if a callback
  consumes it, a `Serve` (`ServeMaps`), a hit a `Reread`,
  and the return of a read changes nothing, because what goes into the cache is pinned
  already (`ReturnMaps`).

`CacheListProofs`:

- `ListTyped`, `ListSafe`: `Spec => []ListTypeOK` and `Spec => []ListOK`, with no hypothesis on
  what `malloc` returns. The invariant adds `WalkOK` (a walk that is not astray stands at the
  i-th node and has passed no node with its key), from which `WalkEnd` concludes that a walk
  ends at the only node with the key or that there is none. The links that nobody wrote
  are the two outer ones of the list, so a walk can go astray only behind its last node.
- `ListIsMap`: `Spec => IsMap`. On top of the invariant it
  needs `FreshEntries` (a chunk that is no node is an empty entry). `MapAt` and
  `MapAtNext` say what the mapping yields for a key; each operation then has a lemma
  that shows which step of the map it is; the step that goes astray is a stutter.

`HypercallProofs`:

- `TransportTypeCorrect`: `Spec => []TypeOK`; `WalkOK` adds that `y` is inside
  the memory once an argument has been touched, and that a call without arguments is
  never answered `RETRY`, so that the walk cannot start without one.
- `TransportOnce`: `KeyApart` implies `Spec => EffectOnce`. `KeyApart` excludes `NVRAM_GETALL` and
  calls whose buffer overlaps their key, the two cases in which it fails. The
  invariant `ActedOnce` says that the host has acted exactly when its answer is not
  `RETRY`, with the key intact.

`TempBufferProofs`:

- `TypeCorrect`: `Spec => []TypeOK`, whether the firmware is careful or not.
- `ReadsAreNamed`, `ValuesAreOwn`, `DeletionsRemove`, `ReadsFollowDefaults`: with `Careful`,
  the four safety properties. One invariant serves them all, `TempInv`: at most one thread
  of a process is busy with `temp` (`OneBusy`); stored values are their keys' own; `init`
  is set while nobody loads only if the default keys are known (`InitOK`); and for
  each thread, what `temp` holds at its stage: the formatted key (`FormatOK`), what was read
  and is in `seen` (`SeenOK`), the remains of the list being edited (`ListOK`), the
  progress of the load (`LoadOK`). `OneBusy` is why it is inductive: no step of another
  thread touches `temp` while a stage of this one relies on it.

`DefaultSourcesProofs`:

- `TypeCorrect`: `Spec => []TypeOK`, so `larr` and `rarr` are never written beyond their ends
  and no parser passes the end of its file, for any file.
- `TablesInside`: `Spec => []InsideTable`. The invariant `RowsInv` says where the loop can
  stand: at the start of a row, or, after the last row of a two-column table was taken for
  one of three, one pointer further, where the second NULL of the last row stops it.
- `KeysCut`: `Spec => []LongKeysCut`. Under it is `FieldInv`: `larr` and `rarr` hold what fits
  of the record fed so far, on either side of its first `=` (`Fields`, kept by
  `FieldsStep`), and nothing between records. `RecordWritten` is what a NUL then makes of
  them; `CutInv` says that what has been written are the records up to this byte, with
  their keys cut.
- `AllLoaded`: with `Debug`, `Spec => []SourcesLoaded`. `Debug` is needed: without it the
  property is false (run `sources_skipped`). It follows from `LoadedAsWanted`, which holds of
  every build: if the sources are well-formed, what has reached `nvram_set` is a prefix of
  the pairs of the sources that this build reads, and all of them when the load is done. The
  invariant is `TypeInv`, `RowsInv`, `FieldInv` and `OutInv`: `out` is the pairs of the
  sources before the present one and the first m of its `Parts`, and the position of the
  parser is that of m (`AtPart`). `BuiltinReads`, `RowReads`, `LineReads` and `FeedReads` are
  one step of each parser; behind them `LineRead` shows that `fgets` reads a line that fits as a
  whole, `RowGoes` that the guessed stride leads from each row to the next, and
  `AllRead` that only parts without a pair are left where a parser stops.

`GuestBuffersProofs`:

- `TypeCorrect`, `BuffersSafe`, `TextArrives`, `RecordsWhole`, `IntsArrive`: the five
  invariants of `guest_buffers`, from one, `BufferInv`: `TypeOK`, `CachedOK` (only
  marked keys are cached, and what is cached is a prefix of the value while the key is
  there, for it may have been cut to an earlier reader's buffer)
  and `Delivered` (what the four properties say of the last call).
- The lemmas are about the conversions. `DecimalParses` and `DigitsParse`: parsing inverts
  formatting, for any radix and number. `BytesInvert`, `HostSizeExact`, `GuestIntExact`: a size
  or an int comes back from its bytes through words of a pointer's and of an int's
  width. `CutDelivers`, `StrncpyCuts`, `FramedCuts` and `WholeRecordsFit`: the slices of the
  handlers cut where they should; the last one shows that the NUL that the handler of
  `nvram_getall` finds from the end always ends a whole record.
- They rest on the assumptions that a pointer is at least as wide as an `int`, that the
  sizes of buffers fit a `size_t`, as in every C of the supported architectures, that
  the minus sign is no digit, and that keys have no `=`.

`Recursions`: what the provers cannot do is instantiate an induction theorem that takes an
operator. A set of naturals in its place can be instantiated: `Induction` and
`StrongInduction` follow from `LeastElement`, a well-founded minimum, and `Recursion` shows
that a recursive function over `0 .. n` or over `Nat` is the function its equations say.
With these, facts about digits, bytes and joined sequences are proved by induction.

The assumptions on constants (`PluginAssumption`, `GuestAssumption`, `ListAssumption`,
`HypercallAssumption`, `TempAssumption`, `BufferAssumption`, `SourceAssumption`) are evaluated
by TLC in the runs.

`SourceAssumption` says, besides the types, that `=` is neither the newline nor the NUL.

Only model-checked: liveness (`CallsReturn`, `JobsEnd`, `HcReturns`, `Returns`), since fairness
and `ENABLED` are outside the prover's reach. Every other property of a passing run is
a theorem, under the conditions named above. There are no `RECURSIVE` operators in the
project: recursion is written as functions.

## Not modelled, and what is left

Left out because nothing depends on it: logging and wording, the counters of missing keys
(written, never read), `PRINT_MSG` but for its evaluating its arguments, the Ralink PID file,
`control` and `UNSET_CACHE` (never reached), the FIRMAE kernel stubs (constants),
`nvram_set_default_image` (empty), `NATIVE` (no entry of the list uses it).

Left out because the outcome is not in the code: x86_64, whose fourth argument register is
never set, so that what the host takes for the length is whatever was in it (its third
is wrong as on i386); NUL characters inside text files; lines of `nvram_files` with
fewer than three fields (`strstr` of NULL); values and keys without terminators beyond the
end of `larr` and `rarr`.

Left out because they are callers: the command line, tests, checkers and build files.

What could be added: callbacks of the other single hypercalls, which write the store in the
plugin's place; threads and the cache in one model, where two threads of a process walk the
list at the same time; keys that are read both as strings and as integers in the reading
contract; the selection of ELF files by `nvram_files`, which is folded into whether a source
is there.
