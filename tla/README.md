# A verification of sealpack in TLA+

sealpack keeps a directory tree in one encrypted file: content-addressed blobs
and a manifest behind a header, eight key slots and two superblocks. This
project models the part of it that a test reaches least: what a file holds
after failed calls, dead processes and lost power, what a handle shows after
a long sequence of operations, what an update or a web request that was
answered has left behind. TLC checks the models on small instances; TLAPS
proves nearly all of their safety properties for files, packs and sessions of
any size.

Paths are written as seen from the directory that holds this project (`tla/`)
beside the repository (`src/`), so `src/src/pack.cpp` is the repository's
`src/pack.cpp`.

## 1. The system

| part | state | operations | works with |
|---|---|---|---|
| **OS seam** `src/src/os.hpp`, `os_posix.cpp`, `os_win32.cpp` | the kernel's page cache, the disk, the directory | open, pread, pwrite, sync, rename_replace, remove | called by Store and Pack only |
| **Store** `src/src/store.cpp` | the file: header (KDF parameters), 8 key slots, superblocks A and B, data region; the handle: active superblock, `seq`, root, append position | `create`, `open`, `read_meta`, `append`, `read_at`, `commit`, `slot`, `write_slot` | OS seam, crypto |
| **Index** `src/src/index.cpp` | two maps: path to hash and mtime, hash to blob reference and count | `serialize`, `deserialize`, `normalize_path` | in the handle; encoded in manifests |
| **Pack** `src/src/pack.cpp` | the store, the index, the master key, the slot that opened, `last_err` | `create`, `open`, `put`, `get`, `del`, `move`, `copy`, `stat`, `list`, `commit`, `compact`, `merge`, `diff`, `rekey`, `verify_password` | Store, Index, crypto, and the pack's own name in its directory |
| **Crypto** `src/src/crypto.cpp` | none | Argon2id, XChaCha20-Poly1305, BLAKE2b | vendored monocypher |
| **C API** `src/src/capi.cpp` | a Pack, list and stat caches, a thread-local error of the last open | one Pack call each | Pack |
| **Command line** `src/cli/main.cpp` | the shell's open handle, the session's password, the state of `std::cin` | a command each: one or two Pack calls and a commit; `diff` also writes a `.spkdel` list, `edit` runs an editor, `rekey` and `merge` ask for passwords | Pack, shims |
| **Shims** `src/cli/platform_posix.cpp`, `platform_win32.cpp` | edit's temporary file | `edit_in_editor`, `read_password` | called by the command line |
| **Web UI** `src/cli/web.cpp` | one Pack under one mutex, a session token | a request each: a Pack call and a commit, or a comparison of the old password and a rekey | Pack |

The hard behaviours are not in the algorithms, which are short, but in what
comes between their steps:

- **a commit is three steps** (`sync` the data, write the spare superblock, `sync`
  it) over a cache that the kernel writes back in any order and that a power
  loss cuts anywhere; each step may fail, and the caller may go on and commit
  again with the same handle;
- **retry**: a failed commit leaves a superblock in the cache, perhaps on disk,
  that names a root the handle does not know of; the next commit uses the same
  superblock and the same `seq`;
- **the append position** after a reopening is the end of the file, which a
  crash may have left longer or shorter than any commit did;
- **reference counts** are never recomputed: put, del, copy and compact each keep
  them, across manifests and reopenings, and a drift loses data at the next
  compact;
- **compact** builds a second file and renames it over the first, with a crash, a
  failing call or a failing reopen possible between any two steps;
- **rekey** overwrites the only key slot in place;
- **names** become durable apart from the files they name;
- **merge** makes many puts and dels in the target's buffer before the command
  commits them, and is run again, in the same handle or a new one, after it failed;
- **a session** goes on after a command that failed at its commit: its change is
  still in the handle, and the next command's commit saves it, or the handle has
  no store any more;
- **prompts** answer themselves once the input has ended, and the editor's file may
  be cut short, unreadable or left by a crash;
- **system calls** move part of what they were asked to, or are interrupted;
- **the web page** sends requests and goes on: the panel may show another file by
  the time an answer comes, and the handlers of two requests share one handle.

A pack is opened by one process at a time and Pack is not thread-safe
(`src/docs/DESIGN.md:308-311` makes concurrent writers a non-goal), so below the
web UI there are no interleavings of two writers: the other actors are the
kernel, the power, and the process's own later lives.

What makes each part correct:

- *Store*: after any crash a committed state can be opened, never an older one
  than the newest reported durable; what a superblock names is whole; committed
  bytes are never written again.
- *Pack*: the handle is a map from paths to contents; a commit makes exactly that
  map durable; counts are exact and no reference dangles; compaction drops what
  nothing refers to, and nothing else.
- *The pack's file*: from `create`'s return on the path names a pack that the
  password opens and that stores what was reported durable, whatever rekey or
  compact is doing when the power fails.
- *Merge, diff*: a pack overlaid with the diff from it to another reads like the
  other; no part of an update is ever found in a target, or of an update pack in
  its file.
- *Codec, names, the list of deletions*: what is written is read back, cut or
  altered input is refused or read within its bounds, a normal name stays as it is.
- *Web*: what was answered with ok is durable, whatever fails before or after in
  the same handle; a save writes a text to the file it was made from; only who
  knows the password changes it.
- *Command line*: what a command reported is durable whatever the session does
  next; edit puts whole texts; a password mistyped once does not get into the
  slot.
- *Transfers, header, C API*: all the bytes at their own places or a failure; no
  product of the header's parameters wraps; the strings of a C caller live as
  long as the header says.

PROJECT.json lists the hazards one by one, at their lines, with the properties
that cover them.

## 2. The modules

```
AtomicRoot <== Store            <==: implements (INSTANCE with a refinement mapping)
                 .
FileMap    <== Pack             Pack's log and root, and PackFile's saved and doubt,
     ^           .              are what Store is shown to provide
     |         PackFile
     +---- Overlay, Shell, Web  composed over FileMap: their target and their handle
             .           .      take FileMap's actions as they are
             .        WebRekey  the same server's other state, the key slot
           DeletionList ---> PathName        Overlay's ReadBack; extends
           Manifest                          what Pack calls a manifest
           Transfer, KdfHeader, CApi         below and above all of them
```

| module | what it is |
|---|---|
| `AtomicRoot` | abstract: the roots a reader may find in a file, and how commits and power losses move them |
| `Store` | `store.cpp` over `os_posix.cpp`, block by block |
| `FileMap` | abstract: a handle as a map with a buffered view and a saved one |
| `Pack` | `pack.cpp`'s operations on the index, over the store's promise |
| `PackFile` | `create`, `open`, `rekey`, `compact` step by step over directories, files and key slots |
| `Overlay` | `Pack::diff`, `Pack::merge` and the commands around them, one file at a time |
| `Shell` | `main.cpp`: a session's commands over one handle, `edit` and its temporary file, the password prompts |
| `Web` | `web.cpp`: the request handlers over one handle, and the page's preview panel |
| `WebRekey` | `web.cpp`: the password change, by several pages at a time |
| `PathName` | `normalize_path`, and what a normal form is |
| `DeletionList` | the loop of `Pack::merge` over the lines of `.spkdel` |
| `Manifest` | `serialize` and `deserialize`, read by read |
| `Transfer` | `pread_all`, `pwrite_all` of both systems, and `random_bytes` |
| `KdfHeader` | `read_header_kdf` and the work area of `derive_key` |
| `CApi` | `capi.cpp`: the strings and error codes that the C interface keeps |
| `StoreProofs`, `PackProofs`, `PackFileProofs`, `OverlayProofs`, `ShellProofs`, `WebProofs` | theorems about the module of that name |
| `NameProofs` | theorems about PathName and DeletionList, and the lemmas about sequences that they rest on |
| `PartsProofs` | theorems about Manifest, Transfer, KdfHeader, CApi and WebRekey; uses NameProofs' lemmas |
| `MCStore`, `MCPack`, `MCPackFile`, `MCOverlay`, `MCShell`, `MCWeb` | what TLC instantiates |
| `MCParts` | the modules from WebRekey to CApi side by side for TLC: a behaviour is one of one of them, while the others rest |

### Store

The file is an array of blocks: superblocks 0 and 1 (`kSbAOff`, `kSbBOff`), then
one block for every appended record. `cache[b]` is what a read returns, `disk[b]`
what stable storage holds, `dirty` what the kernel still has to write; `eof` and
`diskEof` are the two file sizes. `handle` is `Store::Impl`. `call` is where
`Store::commit` is, so that anything may happen between its three steps.
`promised` and `doubt` are history: the root of the newest commit reported
durable, and those of commits whose superblock was written since but which have
not returned true.

| action | code |
|---|---|
| `Append`, `AppendFails` | `Store::append`; a failed `pwrite_all` may have written part |
| `BeginCommit` | `flush_manifest` appends the manifest and calls `commit` |
| `CommitSyncData`, `CommitWriteSb`, `CommitSyncSb` | the three steps of `Store::commit`, each with its early return |
| `Open` | `Store::open`: the choice of a superblock, the append position |
| `WriteSlot` | `Store::write_slot`'s sync, which makes earlier writes durable too |
| `Exit` | the process ends in whatever call it is; the cache stays |
| `WriteBack` | the kernel writes a dirty block of its own accord |
| `PowerLoss` | each dirty block is old or torn (new is a `WriteBack` before), the file ends anywhere between its two sizes |

### Pack

`index` is `Impl::index`; `log` the records of the file at `im.path`, contents
and manifests; `promised` and `doubt` are AtomicRoot's. A content stands for its
hash. `store` tells an open store from one that `compact` reset and could not
reopen (`"null"`) and from a pack no process has open (`"gone"`). Every Pack
operation that returns true is one action with its guards, early returns and all
its changes; one that returns false changes nothing, except `CommitFails` and
`CompactFails`. `Open` takes any root that may be found; `PowerLoss` leaves the
log up to one of them, or longer.

### PackFile

`dir` is the directory's two entries of interest (`im.path` and
`im.path.compact.tmp`), `survivors` the directories a power loss may leave.
Each file has its key slots (`slots` as read, `left` as a power loss may leave
them), and its version (`saved`, `doubt`), of which Store shows that a commit
changes it atomically. `call` is the point that `create`, `rekey` or `compact`
has reached. `passwords` and `versions` are history: what the pack was last told
to have, and what is in doubt since.

| action | code |
|---|---|
| `CreateFile`, `CreateSlot` | `Pack::create`: `Store::create`, then `write_slot(0, ...)` |
| `Open` | `read_meta`, the first slot that unwraps, `Store::open` |
| `Edit`, `Commit`, `CommitFails` | any change and its commit |
| `Rekey`, `RekeySync` | `write_slot` of the opened slot: write, then sync |
| `CompactCreate` ... `CompactReopen`, `GiveUp` | `Pack::compact`: the temporary file, the slots, blobs and manifest, `rename()`, the directory's fsync, the reopening |
| `Exit`, `PowerLoss` | at any point of any of these |

### Overlay

`old` and `new` are the packs that `diff` compares; `making` is where the command
is and what it has in the handle of the update pack, `update` what that pack's
file holds. `view`, `saved`, `doubt` are the target, as in FileMap, and `call` is
where the merge command is: the puts and the dels still to make. `start` and
`flagged` are history. Each put and each del is a step, in any order, and at each
of them the call may fail, the command end, the power be lost; a merge that failed
may be tried again in the same handle. An update pack that diff did not write may
hold anything.

| action | code |
|---|---|
| `DiffStart`, `DiffCopy`, `DiffList`, `DiffCommit`, `DiffFails` | the `diff` command of `main.cpp`, with `Pack::diff` |
| `MergeStart`, `MergePut`, `MergeList`, `MergeDel`, `MergeCommit`, `MergeFails` and `Session` (the target's `Open`, `Close`, `PowerLoss`) | the `merge` command of the shell and of `main.cpp`, with `Pack::merge` |

### Web

`conn` is what each connection carries: a request that was sent, one whose handler
has the mutex and made its change, or an answer on its way. `panel` is the page's
`pvPath`, `pvText`, `pvEditable`, `pvEditing` and what `pv_body` shows; of a text it
keeps where it was read from and whether it is all of the file. `current` are the
pages with the token of the server that runs now, `acked` the promise of the last
ok at each path, withdrawn while another request for the path has failed or was
cut off.

| action | code |
|---|---|
| `Preview`, `Edit`, `Save`, `Cancel`, `ClosePanel`, `Command` | `pv`, `pvEdit`, `pvSave`, `pvView`, `closePv`, and `upload`, `rm`, `ren`, `cp`, up to their `fetch` |
| `Receive` | the rest of `pv` and `pvSave`, after it |
| `Refuse`, `AnswerView` | a token that is not good; `/api/view` |
| `ChangeDone`, `ChangeFails` | `put`, `del`, `move` or `copy` inside the handler |
| `CommitReply` | `commit_reply` |
| `Reload`, `Stop`, `Start` | the page is loaded; the server ends in whatever handler it is, or loses power; it is run again |

### Shell

`view`, `saved`, `doubt` are the handle as in FileMap; `hasStore` is false when a
compaction could not reopen the file, and the next command that needs the store
is then `Kill`. `command` is the command being run and how far it is, `temp`
edit's file. `key` are the passwords that the slot may have (two after a rekey
that failed, of which PackFile shows why). `acked` and `unconfirmed` are history:
what the last command that returned 0 made of each path, and the passwords that
rekey has used though the user did not type them twice. A one-shot command is a
session of one.

| action | code |
|---|---|
| `Add`, `Rm`, `Cp`, `Mv`, `Merge`, then `Commit` | these commands of `do_command`: the change, then `pk->commit()` |
| `MergeFails` | `pk->merge` returns false in the middle |
| `Compact` | the command, in FileMap's terms |
| `EditOpens`, `EditorSaves`, `EditorEnds`, `WriteBack` | `edit` and `edit_in_editor` |
| `RekeyAsks`, `RekeyConfirms`, `Rekey`, `MergeAsks` | `rekey`, and merge's second prompt, with `read_password` |
| `Quit`, `Kill`, `PowerLoss`, `Start` | the session's ends, and `main`'s open |

### WebRekey

`slot` is the password that the key slot opens with as it is read, `onDisk` those it
may open with after a power loss, `request` what each client has asked and how far
its handler is. `agreed` and `attempted` are history: the password of the last
change answered with ok, and those of later tries that were not.

| action | code |
|---|---|
| `DoRekey` | the page's `doRekey` up to its `fetch` |
| `RefuseToken`, `VerifyPassword`, `WriteNew`, `SyncNew` | the handler of `/api/rekey`, through `verify_password`, `rekey` and `write_slot` |
| `OtherCommit` | the commit of any other handler, which syncs the same file |
| `ServerStops`, `ServerLosesPower`, `ServerStarts` | as in Web |

### PathName, DeletionList, Manifest

A character is a value; the classes that the code tells apart (slash, dot,
newline, blank, hash, other) are one each. `Normalize` is `normalize_path`:
a function of the position its loop has reached and of what it has made so far;
`Normal` says which characters of a string its result has, by their places. `Line` is
one round of merge's loop; `DelsAreTheEntries` says which parts of a text are entries
without going through it.

In Manifest a field of fixed size is one cell, a path has one cell for each byte,
and a size_t has as many values as a cell. `deserialize` is a machine that reads an
entry a step and remembers how far it reached.

### Transfer, KdfHeader, CApi

Transfer is the loop of a call that moves `n` bytes at `off`: each system call may
move any part of what is asked, be interrupted, or fail. `moved` is history, where
each byte of the caller's buffer came from or went to. Windows splits an offset in
two words and bounds what it asks for at a time; `random_bytes` begins anew with
`/dev/urandom` when `getrandom` fails.

KdfHeader takes a header with any three 32-bit numbers in it, through the checks of
`read_header_kdf` to the allocation of `derive_key`; a product is taken modulo its
type's size. `BlocksPerLane`, `BlockBytes`, `kMaxKdfLanes` and `kMaxKdfBlocks` are
the code's 8, 1024, 64 and 2^22; the sizes of the types are 2^32, and 2^32 or 2^64
for `size_t`. `KdfHeaderAssumption` says what the proof needs of them, and is true of
both: the largest work area has at most as many bytes as a `size_t` has values. With
32 bits it has exactly as many, and is an allocation of none (section 5).

In CApi a string is a cache of a handle, `list_cache` or `stat_path`. `given` is
history: the strings that the header says a caller may still read.

### The environment's faults

Each is a constant, so that a run says which it assumes.

| constant | meaning | passing runs |
|---|---|---|
| `FailedSyncDropsPages` | a failed fdatasync marks the dirty pages clean, so that a retry syncs nothing | FALSE |
| `ReadErrors` | the read of a superblock may fail for lack of I/O | FALSE |
| `ReopenErrors` | `Store::open` may fail inside `compact` | TRUE |
| `TornSlots` | a slot write may be cut short | FALSE |
| `SlotReadErrors` | the read of a slot may fail | FALSE |
| `DirSyncErrors` | the directory's fsync in `rename_replace` may fail, which the code ignores | TRUE |
| `TempErrors` | a temporary file may be written or read back short where the code does not look (Shell) | FALSE |
| `SyncSavesEntries` | syncing a file saves the directory changes made before it (journaling file systems do) | TRUE |

Failing writes and syncs, torn superblocks and records, early write-back,
process death and power loss are never switched off.

## 3. The runs

| run | bounds | states | shows |
|---|---|---|---|
| `store` | 4 data blocks, 2 records | 201 473 | the safety properties of the commit, Store implements AtomicRoot |
| `pack` | 2 paths, 2 contents, 4 records | 124 337 | exact counts, nothing dangling, tight compaction, Pack implements FileMap |
| `packfile` | 3 files, 2 passwords, 2 slots, 2 changes | 1 380 667 | the path names a pack that opens and stores what was reported, through create, rekey and compact |
| `overlay` | 2 paths, 2 contents | 1 443 146 | updates and merges are all or nothing, diff then merge gives the new pack |
| `web` | 1 tab, 2 connections, 2 paths, 1 content, 1 failed commit | 999 739 | ok is durable; a patient user saves to each file its own text, and all of it |
| `shell` | 2 paths, 2 contents of which 1 text, 2 passwords, 2 failed saves | 897 464 | what a command reported is durable; edit's texts are whole; passwords agree |
| `parts` | see below | 365 052 | names and lists are read as defined; round trip, truncation and bounds of the codec; transfers, header, C interface, password change; every loop ends |
| `pack_compact_saves`, `packfile_slot_read`, `overlay_odd_path`, `web_late_answer`, `kdf_work_area` | smaller | | a statement of the repository that the code does not keep (section 5) |

Why the bounds are enough to be interesting:

- `LastBlock = 5`: four records. Two commits need two; that leaves room for a
  commit that fails and is retried, for a record appended after it, and for a
  crash that leaves the file longer than its last commit. The two superblocks
  each get written at least twice. Two records tell an overwritten block from
  an untouched one.
- `Path`, `Content` of two: a path that replaces its content, two paths that share
  one, a move and a copy between them, a blob whose count falls to zero and is
  taken up again. `LogBound = 4`: two contents and two manifests, so that a failed
  commit is followed by a retry or a reopening; compaction starts the log afresh.
- `Inode` of three: the pack, the temporary file of a crash, and a new one while
  the first two may both survive. Two slots stand for eight, one used and one
  not; `Inode` and `Password` are symmetric, and no property tells their members
  apart.
- `LastVersion = 2`: a version reported durable, one in doubt, one before.
- Overlay: with two paths one is put while the other waits to be deleted; two
  contents and none at a path make it added, modified, deleted or the same.
- Web: two connections are enough for two handlers to meet at the mutex, for two
  answers to come in the wrong order, and for one request to be still under way
  when its page is loaded anew, which is how the requests of a patient user
  overlap. `Patient = {t1}` in `web` and `{}` in `web_late_answer`. One content: a
  path has it or has none, and the length of a text is not a matter of the
  content. `MaxFails = 1`: a map in doubt beside the one saved.
- DeletionList: six classes of characters; five places hold every pair of edges
  that the two loops can meet (`a/./b`, `../a`, `a//b`, a comment and a line after it,
  a blank line, a missing last newline); three characters make a name of two
  segments. `MaxNames = 2`: a list that diff wrote has one line after another.
- Manifest: indexes of two blobs and two paths; every cut and every change of one
  cell of every buffer; counts and lengths up to the largest size_t, here 31.
- Shell: `MaxFails = 2` leaves a failed commit in doubt when a second one fails;
  two paths make one of them another command's; a text and a content that is none
  tell what edit may open; the empty password and another.
- Transfer: four bytes at offsets up to six, where words have four values: a call
  may begin before and end after the place where the high word begins to count,
  and needs two calls of at most two bytes. One interruption.
- KdfHeader: numbers and a `size_t` of 4 bits, `BlocksPerLane` and `BlockBytes` 2, limits
  3 and 8. As with a `size_t` of 32 bits, the largest work area, 8 blocks of 2 bytes,
  has as many bytes as a `size_t` has values. Every header is tried: without the limit
  on `nb_blocks`, 9 blocks and more would wrap, which the mutant shows.
- CApi: two handles of two threads. WebRekey: two clients, two passwords and the
  empty one: one request can wait at the mutex while the other is in its handler.

`parts` assumes that a loop goes on (`WF` of `Loops`: each is one call of one thread,
which nothing but its own end stops; EINTR comes a bounded number of times) and
shows that it ends, for every text, buffer, header and way of cutting a transfer
up. No other run assumes fairness and no other property is a liveness property:
an operation is a terminating sequence of calls made by its caller, who owes
nobody a next call; and `std::mutex` promises no order, so that a request of the
web server may wait as long as others come. Deadlock is checked in every run but
`parts`, whose calls return and then do nothing; in the others some step is always
possible (closing, losing power, opening again).

The properties:

- `AlwaysRecoverable`: whatever a power loss makes of the superblocks, one
  authenticates and the one `open` chooses names a state reported or in doubt.
- `RootsAreBacked`: a root that any superblock may name, even the one `open` would
  pass over, is whole on stable storage with all records before it.
- `HandleIsCurrent`: an open handle never shows an older commit than the newest
  reported.
- `CommittedBytesFrozen`: bytes up to any root that may be found are never written
  again.
- `ImplementsAtomicRoot`: commits are atomic and durable, in AtomicRoot's words.
- `RefcountsExact`: a count is the number of paths that hold the blob, in the
  handle and in every manifest that may be found.
- `NothingDangles`: a blob reference leads to its content, in the handle (where
  `put` may take up a blob that no path holds) and in those manifests.
- `CompactIsTight`: a compacted file holds each live content once and a manifest.
- `ImplementsFileMap`: the operations do to what `get` returns what the API says.
- `PackIsFound`, `PasswordOpens`, `VersionIsFound`: what the path leads to after a
  power loss at any step.
- `HandleFollowsPack`: an open handle writes to the file the path names.
- `UpdateIsWhole`: at any end of the diff command its file holds all of the update or
  nothing.
- `MergeIsAtomic`: what can be found in the target is what it was, or all of the
  update over it, with the deletions of the options given so far.
- `DiffThenMerge`: a merge of diff's update that reports success makes the old pack
  the new one.
- `OkIsDurable`: what was answered with ok is found by whoever opens the pack next,
  until another request for the same path.
- `PatientEdits`: what a save puts at a path was made from that path's text, and from
  all of it. `EveryEdit` asks it of users who do not wait, too.
- `SuccessIsDurable`: what a command reported is found by whoever opens the pack next,
  whatever commands of the session failed before or fail after it.
- `EditKeepsText`: what edit puts was made from all of the file's text by an editor
  that ended well.
- `SessionOpens`: the password that merge tries first is one the slot may have.
  `NoneMistyped`: rekey uses no password that was typed once, but for the empty one
  (section 5).
- `ChangedByWhoKnows`: a running server replaces the password only for a request that
  named it. `OkOpens`: the password of the last change answered with ok opens the
  pack, now and after a power loss, unless a later change was tried.
- `NormalName`: what a name normalizes to, and that it does so once.
  `DelsAreTheEntries`, `PlainNamesSurvive`: which lines of a list merge takes, and
  what becomes of a list that diff wrote. `RoundTrip`, `TruncationFails`, `InBounds`:
  deserialize on what serialize wrote, on a part of it, on anything.
- `ExactlyMoved`: a transfer that returns true has moved every byte to its own place,
  and none touches a byte beside its range. `WorkAreaIsWhole`: Argon2 is
  run with the memory that its parameters ask for; `OnlyTheCeilingWraps`: so it is, but
  for a header at the ceiling. `EntriesLive`: what a C caller may read.
- `Ends`: every loop of these parts ends.

Every property of a passing run has a mutant in PROJECT.json: a small bug, put in
place of a definition, that makes TLC report it.

## 4. The proofs

`StoreProofs` proves, for every `LastBlock` and `Record`, under `StoreAssumption`
(the special values are not records or superblocks), each theorem under the
faults it can bear:

- whatever the faults, `StoreTypes`: `TypeOK`;
- as long as a failed sync forgets no page (`FailedSyncDropsPages` is off), though
  superblocks may be unreadable: `DataStays`: `DataInv`; `NamedStatesAreWhole`:
  `RootsAreBacked`; `AppendOnly`: `CommittedBytesFrozen`;
- under `Faultless`, when superblocks can be read as well: `StoreInvariant`:
  `StoreInv`; `Recoverability`: `AlwaysRecoverable`; `CurrentHandle`:
  `HandleIsCurrent`; `Refinement`: Store implements AtomicRoot; `Durability`: so no
  reported commit is rolled back.

So a read error at open can show an old state, and a commit on top of it can
then compete with a newer one (section 5), but what any superblock names stays
whole, and no committed byte is written again.

None of the safety properties is inductive: `AlwaysRecoverable` says nothing
about `seq`, so that a step from a state it allows may make a stale superblock
win. `DataInv` is the part that does not depend on which superblock wins: every
root that one may name is backed by the disk, the handle appends behind all of
them (`AppendsBehind`, since `Store::open` begins at the end of the file), and the
root that a commit is about to name is written, and backed after the first
barrier (`RootIsWritten`). `StoreInv` adds why the right one wins: at every moment one superblock is *anchored*,
that is clean, authentic, naming a findable state, with whatever may be beside
it either older, or newer and findable, never of the same age. A commit keeps
the active superblock anchored while the spare one is written, and anchors the
spare one by the last sync. `HandleMatches` ties the handle to the superblock it
was read from, which a read that failed would break, and `CommitProgress` says what
`commit` knows of the superblocks at each step. The proof has one lemma per action and,
under the actions that write, one for what a write or a sync leaves alone.

`PackProofs` proves, for every finite `Path`, every `Content` and `LogBound`, under
`PackAssumption`:

- `PackInvariant`: `TypeOK`, `RefcountsExact` and `NothingDangles` are together
  inductive, and each needs the others: a count can be trusted to be positive
  only if exact, `compact` keeps a listed content only if its count is positive,
  and `Open` gives a good index only if all findable manifests are;
- `PackTypes`, `ExactCounts`, `NoDanglingBlob`, `TightCompaction`;
- `Refinement`: Pack implements FileMap. What a reader gets is shown equal to what
  the index lists, so that a step is followed on the path map alone; a
  compaction maps to a save, a failed one to a save, a close or a stutter.

The counting lemmas (`ReleaseIsExact`, `RetainIsExact`, `PutIsExact`) are where the
code's three ways of keeping counts are shown to agree with the number of
holders.

`OverlayProofs` proves, for any paths, contents and packs:

- `OverlayTypes`: `TypeOK`; `AtomicMerge`: `MergeIsAtomic`, and `WholeUpdate`: `UpdateIsWhole`, for any `ReadBack`;
- `DiffAndMerge`: `DiffThenMerge`, if each path's line is read back as that path
  (`PlainNames`). That this assumption holds for paths without a newline, blanks
  at the edges or a leading `#` is `ListsOfPlainNamesSurvive` of NameProofs; for
  the others `overlay_odd_path` shows the claim false.

The invariant adds to them how far each command has got: what the buffer of an
update has, what a partly merged view may differ in from the target's start
(`Kept`, `Laid`), and that no failed merge touches more than the update does. A
retried merge overwrites all that the first one put, which is what makes the
view of the second one whole.

`WebProofs` proves, for any number of tabs, connections, paths, contents and failed
commits:

- `WebType`: `TypeOK`; `OkStays`: `OkIsDurable`; `PatientUsers`: `PatientEdits`.

`OkIsDurable` speaks of what is saved or in doubt and is preserved by a commit only
if the handle itself keeps every promise. `ViewIsAcked` says that it does, but for
the paths of the one request that holds the mutex (`OneLocked`), at which it shows
that request's change; so a commit saves this change and nothing else that was
promised is lost, and one that fails puts in doubt only what is no longer
promised. `EffectOfChange` ties the change recorded for a request to what the
handle's call does.

`PatientEdits` speaks of requests on their way only. `PatientInv` follows them back to
the panel: a patient tab has one request at a time (`OneRequest`), its panel has not
gone on to another file while that is under way (`RequestFits`), an answer is for
the file that was asked for, and what the panel lets the user edit is all of the
file that it names (`PanelFits`).

`PackFileProofs` proves, for any number of files, passwords, versions and key slots,
under `PackFileAssumption`, and as long as a file's sync saves its name
(`SyncSavesEntries`; the directory's sync may fail all the same):

- `PackFileInvariant`: `PackFileInv`; `PackFileTypes`: `TypeOK`;
- `PackStays`, `VersionStays`, `HandleStays`: `PackIsFound`, `VersionIsFound` and
  `HandleFollowsPack`;
- `NoOneElseGetsIn`: `NoOtherPassword`, the half of `PasswordOpens` that says which
  passwords do not open the pack.

These hold though a slot may be torn by rekey, or be unreadable when compact
carries it over: such a fault makes of a slot one that nothing opens, and nothing
else. Once a power loss has left a pack that nothing opens, `passwords` is empty
and the claims end for it. Only under `Faultless`, without these two faults:

- `KeyStays`: `KeyInv` as well; `OwnerGetsIn`: `PasswordOpens`.

The properties speak of the file that a directory names, while compact prepares
another. `PackFileInv` adds what is known of that one before the rename makes it the
pack: that no directory that may survive names it yet (`Aside`), that it has no slot
which opens with anything else than the pack's does (`Carries`), and from the flush
on the handle's version. `KeyInv` adds that there is a password in the slot: of what
a power loss may leave, of the file the handle has, and of the new one. `OnlySlotZero` says that the other slots stay empty, which is
why one slot is enough to carry over. `FoundInv` is then a matter of every
directory that a power loss may leave, one at a time.

`ShellProofs` proves, for any paths, contents, passwords and number of failed saves:

- `ShellInvariant`: `ShellInv`; `ShellTypes`: `TypeOK`; `SuccessStays`: `SuccessIsDurable`;
- `EditIsWhole`: `EditKeepsText`, under the assumption `~TempErrors`;
  `SessionPassword`: `SessionOpens`; `ConfirmedPassword`: `NoneMistyped`.

As in Web, `SuccessIsDurable` is preserved by a commit only because the view itself
keeps every promise but those of the command at work (`ViewIsAcked`); a command that
fails, or half a merge, withdraws what it touched. `SecretsAgree` says of rekey's
answers that what was not typed is empty, which is what leaves the empty password
as the only exception.

`NameProofs` proves, for texts and names of any length:

- `NormalizeIsNormal`: whatever is normalized, the loop of `normalize_path` returns,
  refuses the names it should and no others, and makes of the others the
  characters that `Normal` lists; `NamesAreNormal`: so is every text, and the name
  that it gave is taken back as it is (`NormalName`);
- `ListsNameTheirEntries`: the deletions that merge has found are the entries of the
  text up to where it is (`DelsAreTheEntries`);
- `ListsOfPlainNamesSurvive`: a list that diff wrote of plain names is read back as
  those names (`PlainNamesSurvive`).

`normalize_path` and the loop over the lines are inductions. The library's induction
theorems take an operator, so `SetInduction` states induction for a set of numbers,
from the well-foundedness of the order on them, and each use of it names its set.
The invariant of `normalize_path`'s loop (`LoopInv`) is that what was made so far
is the characters that `Normal` picks before the position, and a clean name (no
slash at an edge or beside another, no segment of dots); that of merge's loop (`ListInv`), that the deletions are the entries that end
before it. A line that diff wrote is one piece of a flattened sequence of pieces
(`FlattenPieces` says where each piece lies), which leaves it between two newlines.

`PartsProofs` proves:

- `WholeManifestsAreRead`: `RoundTrip`, and `PartsOfManifestsFail`: `TruncationFails`, for
  an index of any size. `SerializedLayout` says where in serialize's buffer each cell
  of each entry lies; `CopyInv` follows the reader over a copy of it: what it has
  read is the index up to the entry it is at, its position is that entry's, and it
  fails only on a buffer that was cut;
- `BoundedReads`: `InBounds`, for a buffer of any length with anything in it. The
  position is within the buffer, so that `n - p` never wraps and the comparison with
  it never lets a sum overflow;
- `TransferIsExact`: `ExactlyMoved`, for any number of bytes at any offset, any word
  size and chunk: what was moved is exactly the bytes up to `done`, each to its own
  place, since splitting an offset in words and putting it together again gives
  the offset;
- `BelowTheCeiling`: `OnlyTheCeilingWraps`, for any limits whose largest work area has at
  most as many bytes as a `size_t` has values, which covers 32 bits and 64;
  `WholeInAWideSizeT`: `WorkAreaIsWhole`, where it has fewer;
- `LiveEntries`: `EntriesLive`, for any number of handles and threads;
- `AgreedPassword`: `OkOpens`, and `OldMustBeKnown`: `ChangedByWhoKnows`, for any number of
  clients. `RekeyInv` says what a handler knows under the mutex: it is the only one,
  so the password it has verified is still the slot's when it writes.

Only model-checked: the one liveness property, `Ends`, which is out of the prover's
reach; and all that happens under the faults that the proofs assume away.

## 5. Where code and text differ

1. *compact saves* (`pack_compact_saves`). The buffered, uncommitted changes of the
   handle are durable after `compact`; the API says that only `commit` does that.
2. *compact may drop the key slot* (`packfile_slot_read`). A failed read gives an
   empty slot, empty slots are not carried over, and the new file replaces the
   old.
3. *Odd paths survive their deletion* (`overlay_odd_path`). diff writes a deleted path
   as a bare line; merge trims it and skips it if it begins with `#`.
4. *An answer for another file* (`web_late_answer`). `pv` fills the panel with the
   text of the file it asked for, even when the user has opened another one
   since; Save then writes this text to the other file.
5. *The largest work area is empty in 32 bits* (`kdf_work_area`). `read_header_kdf` accepts
   2^22 blocks, the "4 GiB work area ceiling" itself; where `size_t` has 32 bits, 2^22
   times 1024 is 0 in `derive_key`, and Argon2 is run in a work area of no bytes.

The models have more such cases behind constants of theirs, which the runs leave
off:

- `FailedSyncDropsPages = TRUE` (Store): `commit` trusts the next successful
  `fdatasync` for bytes whose first write-back failed. On a kernel that reports such
  a failure once and drops the pages, a retried commit returns true over bytes
  that are not on disk, and `AlwaysRecoverable` is violated.
- `ReadErrors = TRUE` (Store): `read_sb` treats a failed read as a torn write, and
  `open` shows the previous commit; `HandleIsCurrent` is violated.
- `SyncSavesEntries = FALSE` (PackFile): no step makes the name of a new pack durable
  where a file's sync does not; `PackIsFound` is violated.
- `TornSlots = TRUE` (PackFile): rekey overwrites its only slot, and if a power loss
  cuts the write short, no password opens the pack; `PasswordOpens` is violated.
  Slot 0 is bytes 24 to 112 of the file, within its first sector, which makes this
  unlikely on most devices; nothing in the code rests on that, and superblocks, as
  small, are protected against it.
- `TempErrors = TRUE` (Shell): `edit_in_editor` looks neither at what the `ifstream` that
  reads the text back met (POSIX) nor at what `fclose` returned (Windows); a text
  cut short replaces the file, and `EditKeepsText` is violated.

And some have no run. One Ctrl-D at rekey's first prompt answers both prompts, since
`read_password` does not look whether `getline` got a line (`src/cli/platform_posix.cpp:40`)
and `std::cin` stays at its end: the two empty answers agree, and the slot gets the empty
password, where the head of `src/cli/main.cpp` says that the new one is asked for twice.
The Shell model has this, and `NoneMistyped` excepts it. `sealpack_open` reports every failure as `SEALPACK_ERR_AUTH`
(`src/src/capi.cpp:42`) and `sealpack_create` an existing file as `SEALPACK_ERR_IO`, where
the header promises the specific reason (`src/include/sealpack.h:55-56`). The page's
"the old one no longer opens this pack" (`src/cli/web.cpp:273`) is said also of a change
to the same password. `rm` and `mv` tried again after a failed commit find nothing to
do and never commit, and `edit` of a text whose write-back failed says "unchanged" and
returns 0 (`src/cli/main.cpp:147,135`): the change is made durable by the next command
that commits.

## 6. What is left out

- **Superblocks share a sector.** Superblocks A (offset 728) and B (792) are 64
  bytes each in one 512-byte sector. Store models a torn write block by block: a
  write to one superblock never damages the other. A device that may garble a
  whole sector during a power loss is not modelled.
- **Encryption** is ideal: a MAC fails exactly on bytes that were not written whole
  under the key; equal hashes mean equal contents.
- **Sizes, mtimes, records' lengths**: a record is one block. A torn record is one
  whose MAC fails; how much of it was written makes no difference.
- **Empty records**: `append` of zero bytes returns the position and writes nothing.
  No caller does it: a record has at least a nonce and a MAC.
- **Two handles on one file** are a non-goal of the program.
- **Windows**: the transfer loops and the shims are modelled; opening, syncing and
  renaming are meant to behave as `os_posix.cpp` does. The one difference in PackFile
  would be `rename_replace`, whose write-through is durable on return:
  `DirSyncErrors = FALSE`. `random_bytes` is one call there.
- **A null store**: after a compaction whose reopening failed, a Pack operation
  that needs the store dereferences null. Pack has no step for it: the process
  is gone, which is `Close` (and `Kill` in Shell).
- **The name `.spkdel`** is reserved: no pack but an update has a file of it.
- **Overlay and Shell** look at one thing each: between merges the target of Overlay
  is changed by no other command, and Shell takes what a merge puts as any set of
  changes.
- **The local file system**: what `add` reads and `get` writes, whose errors the code
  does not all notice (`src/cli/main.cpp:53-62`).
- **Web**: the listing and downloads, which change nothing, and texts that a browser
  would not give back as they were: a text that is not UTF-8, or has CR LF, is
  altered by a save. In WebRekey slots are not torn.
- **Completion, listing, help** and the rest of the terminal's output.
- **Fields** inside a manifest are cells: the order of their bytes is not modelled.
  `get_u32` and `get_u64` compare `p + 4` and `p + 8` with the length instead of the
  difference; a buffer that fills the address space but for eight bytes would be
  needed for these to overflow.
- **The C API's arrays and buffers** are the caller's from the start; only the strings
  in them are not.
- Third-party code is out of scope.

## 7. Plan

Done, in the order of the system's own dependencies: AtomicRoot, Store and its
proofs; FileMap, Pack and its proofs; PackFile and its proofs; Overlay and its
proofs; PathName, DeletionList, Manifest and the proofs about names and lists; Web, its proofs and WebRekey; Shell and
its proofs; Transfer, KdfHeader, CApi and the proofs of these parts.

What would come next:

1. **PackFile implements Pack's compaction**: a refinement from its steps to Pack's one
   step, with the index as a constant of the version.
2. **Overlay and Shell over Pack**: that their handles' steps are Pack's, through the
   refinement of FileMap, instead of FileMap's taken as they are.
3. **The sector that the superblocks share**, as a fault of Store's power loss.
