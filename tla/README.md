# MeidoSerialization in TLA+

TLA+ models of MeidoSerialization, a Go program that reads, writes and converts
the files of two games (COM3D2 and KCES), from the command line, as a gRPC server
and as an MCP server.  The models are translated from the source under `src/`;
`PROJECT.json` gives, for every definition, the lines it stands for; a helper whose
lines lie inside those of the operation that uses it is mapped by that operation.

## 1. The system and its parts

| Part | State it keeps | Operations | Hard behaviour | What makes it correct |
|---|---|---|---|---|
| Blob store (`internal/blobstore`) | counters of bytes and blobs, map of items, open handles, a directory | `New`, `Put`, `Open`, `Metadata`, `Delete`, `File.Close`, janitor, `Close` | Puts copy outside of the mutex; cleanups race readers; removals fail; `Close` waits for three kinds of goroutine | exact accounting, limits on the counters and on the disk, readers keep their file, `Close` returns and leaves nothing |
| Directory lock (`directory_lock_*.go`, `removeStaleFiles`) | a lock file, files left by a dead process | lock, clean, unlock | crash and restart, two processes | one live store per directory; nothing stale survives `New` |
| Bundles and roots (`application/source.go`) | the files of a workspace, temporary and backup files | `Resolve`, `WriteFile`, `WriteBundle` | several renames, each of which may fail | all files of a bundle or none; a failed write restores what it replaced |
| Archive paging (`application/archive*.go`) | a page token between calls | `ListArchive` | the archive changes between pages | every entry once, in order |
| Conversion engine (`application/engine.go`, `registry.go`) | none between calls | detect, decode, encode, validate | order of the detectors | a document goes back to the format it came from |
| gRPC server (`transport/grpcserver`, `cmd/grpc.go`) | blobs of the store, requests | conversions, archive calls, uploads and downloads | partial results, cancellation, stop with a deadline | no blob is left without an owner |
| MCP server (`transport/mcpserver`) | roots, limits | tools | stale archive listings | as above |
| CLI (`cmd`) | none | one command per conversion, worker pool | errors of workers | every file is processed, every error reported |
| Bounded I/O (`conversionio`), strict JSON | remaining budget | write, read | limit reached half-way | the budget is never exceeded |
| Codecs (`serialization/...`) | none | read and write of each format | versions, offsets, lengths | what is written is read back |
| Services (`service/...`) | files of one conversion | glue between files and codecs, extraction, mod merge | several files per operation | as bundles |
| External tools, schemas, schema generator, generated gRPC code, fixtures | data or processes of the system | | | not modelled |

The servers call the engine and the services; the gRPC server keeps the inputs and
outputs of conversions in the blob store, between calls of its clients; the engine
and the services call the codecs; bundles are written through the roots.

## 2. Plan and state

Done, in this order: the blob store with its abstract store and its proofs (section
3); the directory of the store across processes (4); bundles (5); archive paging (6);
the gRPC server's calls and its end (7); the worker pool (8); the codecs of both games
with their containers, MessagePack, LZ4, Unity bundles and serialized files (9).

| Modules | Composition |
|---|---|
| `BlobStore`, `AbstractBlobStore` <- `BlobStoreProofs` | the store implements the abstract one |
| `BlobDirectory` <- `BlobDirectoryProofs` | `BlobStore`'s file operations in the small, over processes |
| `BundleWrite` <- `BundleWriteProofs` | writers and readers of one workspace |
| `ArchivePaging` <- `ArchivePagingProofs`; `GrpcServer` <- `GrpcServerProofs`; `WorkerPool` <- `WorkerPoolProofs` | `GrpcServer` sees the store as its clients do |
| `Induction` | lemmas of the proofs: induction, sorting, sums |
| `Layouts` <- `Codec` | a document's life between a writer and a reader, for any layout |
| `Com3d2Physics` <- `Material`, `Model`, `Animation`, `Preset`; `Com3d2Archive`, `Nei` | `MCCom3d2` (with `MCCom3d2Formats`) runs them through `Codec` |
| `Indexed` <- `KcesSystem`, `KcesAssets` <- `KcesFiles` <- `KcesContainers` <- `KcesSaves`; `KcesPreset` | `MCKces` (with `MCKcesFormats`) does |
| `MsgPack` <- `Lz4` <- `MsgPackProofs` | in `MCKces` too |
| `UnityBundle`; `TypeTrees` <- `UnityAssets` <- `SerializedFile` | in `MCKces` too |

Left: an abstract atomic replacement for bundles with a recovery of what a crash left;
the registration of roots; meshes, sprites and animations of the asset bundles and
their upgrade to Unity 2022; the extraction of archives into a new directory; proofs of
what the two passes of a Unity bundle's writer agree on and of the text tables.

## 3. The blob store

### `BlobStore`: state and actions

One process: its calls of `Put`, its `File` handles, the janitor goroutine and
the one `Close` that runs the `closeOnce`.  The variables of the first group are
the fields of `Store`; `reserved` and `pending` are what each call's
`quotaWriter` holds and is asking for; `blobFiles` and `tempFiles` are the
directory, each file by its length; `clock` and `faults` are the environment.

An action is one critical section of the mutex, or one step between two of them:

| Code | Actions |
|---|---|
| `beginPut` | `BeginPut`, `RefusePut` (the cleanup stays done when the limit refuses) |
| `os.CreateTemp`, `io.Copy` through `quotaWriter.Write` | `CreateTemp`; `ReserveChunk` (`reserveBytes`), then `WriteChunk` (the write, and `releaseBytes` after a short one); `FailCopy` |
| identifier and time, before the mutex | `Stamp` |
| last critical section of `Put` | `Commit`, `RefuseCommit` |
| deferred calls, in their order | `RemoveTemp`, `AbortPut`, `FinishPut` |
| `Open`, `Metadata`, `Delete` | `Open`, `Lookup` (also every call that finds nothing), `Delete` |
| `File.Close` and `releaseOpen` | `CloseHandle` (the once), `ReleaseOpen` |
| `runJanitor` | `JanitorTick` takes the time of the tick, `JanitorSweep` uses it later, `JanitorStop` |
| `Close` | `CloseBegin`, `CloseJanitorDone`, `CloseNextFile`/`CloseFileDone` per handle of its snapshot, `CloseFilesDone`, `CloseForget`, `CloseRemove` |

`cleanupExpiredLocked(now)` is part of each action whose code calls it
(`Sweep`, `RemoveItems`): the due items are marked and any subset of the ones
without readers is really removed, each failure being counted.  The time a
cleanup is given is not always the present: a `Put` uses its stamp and the
janitor its tick, so cleanups run out of order, as in the code.

Abstractions: a blob is its length and has no bytes, name or hash; a `Put` that
is refused before `beginPut` changes nothing and is left out; temporary names
are unique (`os.CreateTemp` picks them at random and never an existing one); the
files are not touched by anybody else; a reader returns data, its end or an
error, and does not return nothing forever.  A temporary file whose removal
failed stays; its slot of `Puts` is then not used again, so that each slot leaks
one file at most.

### Properties and runs

`blob_store_safety` (`MCBlobStore.cfg`, about a million states): two Puts, two
identifiers, two handles; a blob has at most 2 bytes, the store at most 3 bytes
and 2 blobs, so that each Put alone fits and both together do not; TTL 1 of a
clock with 2 ticks, so that a blob is alive, due and older than a stamp; one
removal fails; the directory is a configured one, so that `Close` removes blob
by blob.

| Property | Hazard |
|---|---|
| `AccountingExact` | a reservation given back twice or never, hidden by the clamps to zero |
| `CallsConsistent` | short writes: the reservation is what the temporary file has |
| `QuotaHolds` | Puts that race for the last bytes or the last place |
| `DiskWithinQuota` | quota released for a file that is still there |
| `CloseForgetsNothingLive` | `Close` resets counters and maps under a live Put or handle |
| `CleanClose` | blobs left behind without an error |
| `WithdrawnForGood` | a deleted or expired blob comes back |
| `ReaderKeepsFile` | a file removed or replaced under a reader |
| `ImplementsAbstractStore` | a client sees a blob, or loses it, in a way no simple store would show |

`blob_store_liveness` (`MCBlobStoreLive.cfg`) checks `CloseReturns`, `PutsReturn`
and `DeadBlobsReclaimed` with two Puts, one blob and one handle and the store's
own directory.  Fairness: a goroutine that can step does so (weak fairness of each
Put, of a handle's close once begun, of the janitor and of `Close`).
`JanitorStop` has strong fairness: a `select` with two ready channels chooses at
random, so a janitor that sees ticks forever takes the stop in the end.  Nothing is
assumed of clients: they need not open, delete, close handles or call `Close`.

`ImplementsAbstractStore` says that `BlobStore` implements `AbstractBlobStore` under
`kept <- ` the sizes of the items, `readable <-` the items a client can find,
`reading <-` the blob of each handle.  The abstract store knows no counters, marks,
temporary files or cleanups; a step of the store is one of its steps or changes nothing
of it.  It is checked in the same run, over the same states.

`blob_store_delete_comment` is a disagreement: the comment of `Delete`
(`store.go:272`) says that it "marks a blob unavailable immediately".  With no
handle open the code does not mark the blob but removes it, and when `os.Remove`
fails `Delete` returns the error and the blob is still there for `Open`.

### Proofs (`BlobStoreProofs`)

For every value of the constants allowed by `ConfigAssumption` (what `New` accepts) and
`BoundAssumption` (finitely many calls, identifiers and handles), all invariants and
action properties of the safety run, and the refinement:

    Spec => []TypeOK             Spec => []AccountingExact          Spec => []CallsConsistent
    Spec => []QuotaHolds         Spec => []DiskWithinQuota          Spec => []CloseForgetsNothingLive
    Spec => []CleanClose         Spec => ReaderKeepsFile            Spec => WithdrawnForGood
    Spec => ImplementsAbstractStore

`QuotaHolds` is not inductive: a commit moves what it reserved from one counter to
the other, and that is only harmless if it had been reserved.  The first inductive
invariant is `IInv`, the conjunction of the first four, with `Shut`: after `Close` has
waited for the Puts none begins.  `AccountingExact` needs `CallsConsistent`, since
an abort gives back `reserved` and the clamp must not act.

The others hold by a second invariant on top of it, `Life`, with a part for each of the
ways in which counters, items, files and handles could drift apart: `HandlesKept` (an
item's `openCount` is the number of its open handles, which are the open files of the
store), `FilesKept` (until `Close` forgets them the blobs on the disk are the items; a
temporary file without a call that writes it is a failed removal), `Closing` (what
`Close` has waited for does not come back, and the handles it has not met are in its
snapshot) and `InThePast` (stamps and ticks are not ahead of the clock, so that a cleanup
never takes a blob that is alive).  `Cleaned(S)` says what a critical section may do to
the items outside of `S`; every action is shown to be one such section (`Undisturbed`
where `S` is empty).  From it follow the action properties and, step by step, the refinement:
each action is one of the abstract store's under the mapping, or changes nothing of it.

Sums are cardinalities: `Bytes(f, S)` is the number of pairs of a file of `S` and a
position below its length.  The laws of a sum (`BytesUnion`, `BytesWithout`,
`BytesUpdate`) then follow from those of finite sets.  `SweepStep` and `RemoveItemsStep`
say once what every cleanup leaves true; `CountStep` and `HeldStep` what one call
changes of the two counts and of the bytes in flight; there is one lemma per action.

What can be proved of termination is the half without fairness (see section 10).
`PutsEnd`: a Put that has begun takes at most `2 * MaxBlobBytes + 6` steps of its own
(`PutLeft`), and no other goroutine adds one.  `CloseNeverStuck`: until `Close` is done it
has a step (`CloseCanGoOn`), or it waits for the janitor, for a handle that is being
closed or for a Put that runs, none of which waits for anybody; it takes two steps for each
handle that was open and four more (`CloseLeft`), and nothing it has waited for comes back.
This needs `Ends`: a write in progress has bytes to write, and `Close` waits for no handle
that is still open, nor for any once it has passed them.

Only model-checked: the liveness run.

## 4. The directory of the store

`BlobDirectory` puts processes on one configured directory: each runs `New` once (a
retry is another process), perhaps uploads, publishes, deletes, closes, or dies at any
step.  The lock belongs to an inode and not to a name; `lockFile` is the inode at the
lock's path, `fd` the one each process has opened, `holder` who has locked each inode.

| Code | Actions |
|---|---|
| `acquireDirectoryLock` | `OpenLockFile`, `Flock`, `Refused` |
| `removeStaleFiles` | `ListStale`, `RemoveStale`, `CleanFails` |
| the rest of `New` | `Started` |
| `Put`, `Delete` | `CreateTemp`, `Publish`, `AbortPut`, `Delete` |
| `Close` | `BeginClose`, `CloseRemoves` or `ClosePassesOver` per file, `CloseReady`, `Closed` |
| death of the process | `Die`, which lets go of its descriptors and leaves its files |

`blob_directory` (`MCBlobDirectory.cfg`): three processes, so that one can open the
lock file while the second holds it and the third starts after it; a blob, a temporary
file and a file of somebody else whose name is alike; two inodes, so that a removed lock
file would be noticed; two removals that fail.

| Property | What could go wrong |
|---|---|
| `OneLiveStore` | two processes past the lock |
| `LiveFilesSafe` | a start that cleans up the files of a store that runs |
| `NothingInherited` | a store whose quota does not know of files that are there |
| `OthersKept` | a file of the user taken for a blob |
| `CallsReturn` | a lock that is waited for, or stays locked after a death |

Fairness: a `New` or `Close` that has begun goes on; nobody has to call them.
`BlobDirectoryProofs` proves `TypeOK`, `OneLiveStore`, `LiveFilesSafe`,
`NothingInherited` and `OthersKept` for any number of processes, files and failures.  The first invariant
is that the lock's path never changes its inode and that only the holder is past the
lock; the second that a file on the disk of which a process says it is its own is of
that process, and that the cleanup of a start sees all there is.  `OthersKept` holds
because what a process has listed for removal is of the store's own kind
(`PendingOwnKind`), also when the list is older than the directory.  `NobodyLockedOut` is
the converse of the lock: who holds an inode is a live process past the lock (`HeldByLive`),
so a `New` is refused only beside one, however earlier processes ended.
`DirectoryCallsEnd`: a `New` that has the lock file open takes at most three steps and one
for each name, a `Close` at most one and one for each name, and no other process adds one.
It takes the names of blobs and uploads to be finitely many: the first have 32 digits, the
second the length a file system allows.

## 5. Bundles

### `BundleWrite`: state and actions

One artifact of a workspace root: the primary file and its managed sidecars
(`Managed`: the sidecars in their order, the primary last, as `managedTargets`).
`writeMu` lets one call run at a time, so one set of variables is the call: `pc` its
place in the code, `files` its request, `staged`, `installed` and `drop` the local
variables of the same meaning (`drop` the keys of `backups` that have a backup left).
The content of a file is the call that wrote it, `Partial` while it is written.

An action is one system call, which may fail, and the process may die before any:

| Code | Actions |
|---|---|
| validation, lock, `Lstat` of the targets | `Begin` |
| `OpenFile` of a temporary file; `io.Copy`, `Sync`, `Close`, size and digest | `CreateTemp`, `CopyTemp` |
| `ctx.Err()` after staging | `StagedAll` |
| `Rename` of `WriteFile` | `ReplaceFile` |
| loop that moves the old files away | `BackUp`, `BackedUp` |
| loop that installs, the primary last | `Install`, `InstalledAll` |
| removal of the backups, in the order of a map | `DropBackup`, `DroppedAll` |
| `rollback` | `Undo`, `Undone`, `Restore`, `Restored` |
| deferred `cleanupStaged`, return | `Clean`, `Return` |
| `Resolve`; `materializeWithLimit` | `Stat`, `OpenFound`, per reader and file |

`before` is what a call found, `history` the order of the calls, `faults` the kinds
of failure met so far: a removal whose error is dropped, a step of a rollback, a crash.

Abstractions: requests that are refused before the first file is created change
nothing and are left out, and so are targets that are no regular files; nobody else
writes to the directory; a name of a temporary file or backup (12 random bytes) is
used once; files are staged and sidecars installed in any order, where the code takes
the order of the request, which may be any; a rename either happens or does not.  A
reader checks the size of a file, so that a file replaced between its lookup and its
opening fails it, or does not when both have one size.

### Runs

`bundle_write_safety` (`MCBundleWrite.cfg`, 900,000 states): two calls of
`WriteBundle`, each with either, both or none of two sidecars, over any set of files
left there before.  A second call is what makes the leftovers of the first matter, and
two sidecars are what the code has.  `bundle_read` (`MCBundleRead.cfg`): a reader beside
two calls of `WriteBundle` and one of `WriteFile`, with one sidecar; each sidecar is
compared with the primary alone, so that a second one adds no case.

| Property | What could go wrong |
|---|---|
| `AllOrNothing` | a rollback that leaves a new file or forgets an old one |
| `NothingLost` | a file that is neither under its name nor a backup's when the process dies |
| `NeverPaired` | a sidecar left beside a primary it does not belong to |
| `PrimaryLast` | a new primary that a crash leaves without its sidecars |
| `NoLitter` | an error path that leaves temporary files |
| `NoStaleSidecarRead` | a reader that takes old metadata with a new primary |
| `WriteFileKeepsPrimary` | a file missing while it is replaced |

What the properties leave out shows what the code does not promise.  After a crash
the old files may be under random names only, and nothing brings them back: they are
not lost but no longer found.  A reader may get an old primary with newer metadata.
A `WriteFile` leaves the sidecars of the file it replaces.

`bundle_install_atomic` is a disagreement: `docs/cli-document.md:568` says that
`meido.convert_file` will "atomically install the primary file and managed sidecars".
The code renames the old files away first, and `Resolve` takes no `writeMu`: a reader
of a bundle that is being replaced finds no file, with no failure anywhere.

### Proofs (`BundleWriteProofs`)

For any number of calls, sidecars and readers, from `ManagedAssumption` and
`ContentAssumption` (the list has no duplicates; the contents are different values):

    Spec => []TypeOK        Spec => []AllOrNothing   Spec => []NothingLost
    Spec => []NeverPaired   Spec => []PrimaryLast    Spec => []NoLitter
    Spec => []NoStaleSidecarRead                     Spec => WriteFileKeepsPrimary

None is inductive: that a failed call leaves the files as they were depends on every
step it made.  The inductive invariant has one part per phase (`BeforeMoving`,
`Moving`, `Installing`, `Undoing`, `Restoring`, `Dropping`, `Cleaning`), which says
for each file whether it is at its name or in its backup.  `Old` says that no
file has the content of a call before that call installs it, `Staging` that what is
installed is whole, and `Between` carries `NothingLost` and `NeverPaired` from one
call to the next.  `SafetyOfPhases` derives the properties from it in every phase,
which is also why a crash is harmless: it only ends the phase.

`NoLitter` has an invariant of its own, `Tidy`: without a failure that is dropped, each
temporary file of the running call is staged or the one just being copied, each backup is
in `drop`, and the other calls have neither.  So has `NoStaleSidecarRead`, `Fresh`: once a
reader has opened a primary, nothing it has seen, nothing on the disk and nothing that a
rollback may still bring back is older than that primary (`Reading`, `NothingOlder`).  A
rollback is possible only until the primary is installed (`Revertible`).

`LockIsReleased`: a call that holds `writeMu` always has a step (`CallCanGoOn`), every step
lowers `CallLeft`, which begins at six for each managed file and six more at most, and
readers leave it as it is.  So a call ends, whichever of its steps fail, and no order of
calls can block one.  `CallLeft` is counted by the files each phase has still to handle,
and a phase that can end in a rollback has the steps of the rollback in its count.

## 6. Archive paging

`ArchivePaging` is a client that asks for pages of a listing and follows the tokens.
`Listing` are the sorted entries, `Token` and `Decodes` what `ArchivePager` signs and
accepts, `Page` what fits: the number of entries asked for, cut where the bytes of the
page are used up.  Between two requests the archive may be replaced, by one with the
same entries too, and put back, and the server may restart with a new key.  A SHA-256
is the record it digests; a signature is the key that made it.

`archive_paging` (`MCArchivePaging.cfg`): five contents, among them two that differ
only beyond their entries, an empty one and one with an entry that no page can hold.

| Property | What could go wrong |
|---|---|
| `ListingsWhole` | pages of two contents are put together, an entry is lost or comes twice |
| `TokensExact` | an entry that was put back for lack of room is skipped by the token |
| `Progress` | a page without entries whose token leads to itself |

### Proofs (`ArchivePagingProofs`)

The three, for any archives of finitely many files with an order on their names
(`ArchiveAssumption`), any page sizes, and any number of replacements and restarts.
`Listing` is the sorting a `CHOOSE` finds; that there is one, and that it has every entry
once and in order, is `ListingSorted` (from `SortingExists` in `Induction`).  The inductive
invariant is that the pages a client has put together are a chain of one content
(`ChainOf`): all of its listing, or the entries in front of the offset of a token that has
its fingerprint.  A replacement does not disturb it, since a page of another content is
refused by the fingerprint; what a page takes is bounded by the least number that no
longer fits (`LeastElement`).  `TokenAssumption` says that no token is mistaken for none.

## 7. The gRPC server

`GrpcServer` is `captureResult` and the resolution of its input, call by call and file by
file, beside streams whose clients may hang, blobs that expire, and the end of the
process: the goroutine of `cmd/grpc.go` that stops the server, `RunE` with its deferred
`blobs.Close()`, and the handlers between them.

| Code | Actions |
|---|---|
| `resolveBlobInput`; the engine; `captureResult` | `Resolve`, `Produce`; `CaptureInline`, `CaptureBlob`, `PutFails`, `Cleanup`, `Return` |
| `Upload`, `Download` | `AcceptStream`, `BeginStream`, `Upload`, `ClientEnds`, `StreamCut` |
| `DeleteBlob`, expiry | `Vanish` |
| the goroutine behind `Serve` | `Signal`, `GracefulStop`, `Drained`, `Deadline` |
| `RunE` | `ServeReturns`, `ServeFails`, `CloseStore`, `Exit` |

Of grpc-go it takes that `GracefulStop` waits for handlers, that `Stop` closes the
connections and does not, and that `Serve` returns after either.  `Exit` waits for the
Puts of uploads, as `Close` does.  A `Put` of a result is one step; which of the unused
random identifiers it gets makes no difference.

`grpc_server` (`MCGrpcServer.cfg`, 290,000 states): one conversion of three kinds of
artifact, two uploads and a download, two places in the store, one removal that fails.
The uploads compete for the places, so that the capture fails after its first or second
blob.  Fairness: handlers and the two goroutines run, and the timer fires; clients need
do nothing.

| Property | What could go wrong |
|---|---|
| `NoOrphans` | a failed call leaves blobs nobody can name; the process leaves blobs or half an upload behind |
| `InlineBudget` | files that fit one by one and not together |
| `CallsEnd` | a call that waits for room, or for an input that has gone |
| `ServerExits` | a server told to stop that waits for an idle client for ever |

### Proofs (`GrpcServerProofs`)

`TypeOK`, `NoOrphans` and `InlineBudget`, for any calls, streams, artifacts and limits.
The inductive invariant has `Captured` (a call has captured nothing before it produced
something, at most one part for each file, and only blobs whose identifiers are used; one
that has failed has none left to delete),
`OrphansCounted` (each orphan is a removal that failed), `BudgetKept` (what is inline and
what remains of the budget are the budget) and `Ending` (the store is closed before the
process exits, and by then no upload runs).  `OrphansOfOthers` says why the calls do not
disturb each other: a new blob has an identifier nobody has used.

Of the end of the server: one that was drained in time has cut nobody off (`NobodyCutOff`:
`GracefulStop` and the timer race, and only one of them ends `stopper`).  `ShutdownEnds`
says that a server told to stop can go on until its process is gone, or `Stop` is cutting
the upload that `blobs.Close()` waits for, and that no step undoes one of those it has
made.  `CallsNeverStuck` says the same of each call: it can go on until it has returned,
and once it has its artifact it takes at most two steps for each file and two more.

## 8. The worker pool

`WorkerPool` is `processDirectoryConcurrent`: the caller that feeds a channel with
room for twice the workers, the workers that take paths until it is closed, and the
wait for them.  `worker_pool` runs six files through two workers and a channel of four,
so that the caller blocks, with any of the files failing.  `EachFileOnce` and
`PoolReturns` under weak fairness of each goroutine.

`WorkerPoolProofs` proves `TypeOK` and `EachFileOnce` for any number of workers and any
files that differ (`WalkAssumption`: the walk comes to a file once).  A path is in one of
three places (`Placed`): not yet taken from the channel, in a worker's hand, or over; the
channel is the stretch of the files behind the ones that were taken
(`ChannelIsStretch`); and a worker is done only when the channel is closed and empty.
`PoolEnds` proves that the pool ends: each step is one of exactly three for each file, one
for each worker and two (`StepsLeft`), and until the call has returned there is somebody
who can take one: a caller that finds the channel full has a worker that can take from it.

## 9. The codecs

### The framework

A codec is a reader and a writer over a stream of primitives.  `Layouts` gives both a
common form: a layout is the sequence of calls that one of these functions makes, with
its gates, loops and checks, and `Read` and `Write` say what they do.  The layouts of the
reader and of the writer of a format are translated apart from each other, so that they
can disagree as the code can.  A file is a sequence of tokens `[k, v]`: the kind is the
primitive, and the value matters where the control depends on it (versions, counts,
flags, keys); everything else carries a label that names its place in the document.
Reading a token as another kind gives "garbled" bytes.

`Codec` is the life of a file: a document is saved, the file is left alone, loses its
end, gains a byte or has one number changed, it is loaded, and what was loaded is saved
again.  What the formats do is one constant, the record `Codec` of functions, which the
modules `MCCom3d2Formats` and `MCKcesFormats` define.  `Docs` has, for each format, every combination of the numbers that the control
depends on (versions at and around each gate, flags, counts 0 to 2), and each of these
with one field out of place.

| Property | What could go wrong |
|---|---|
| `RoundTrip` | a field dropped, misplaced, or taken from another at some version; a document the writer cannot represent and writes all the same |
| `LengthMatters` | a file that lost its end and is loaded with the rest at zero, or bytes that follow and are taken in |
| `ResavedSame` | a file the reader accepts, however damaged, that its own writer refuses or saves as something else |

`com3d2_codecs` runs the COM3D2 formats (120,000 states), `kces_codecs` those of KCES
(181,000 states over 82 formats).  A file of at most `MaxPlaces` = 32 tokens is cut and
altered at each of them, a longer one at 17 to 32 places, counted from its end at equal
distances; documents of different lengths have them at different fields.  No fairness: the properties are of safety.  Both leave out the
deadlock check, since a file's life ends.  The bounds are small because a layout has no
memory but the document: two elements of a list show whatever a third would.

What the properties leave out is what the code does differently, by intent or not, and
is named in the MC modules:

- `Settled`: what a file holds of a document.  Maps are sorted, derived counts and
  hashes are computed, names of archives take one spelling, texture rows, directory
  versions, flags that follow from a width are set; `tex` drops what its version lacks;
  an event parameter keeps the value of its type.
- `Reproduced`: documents that are read again token by token; the others (old layouts
  of `sad`, narrow colliders and premultiplied textures, edited archives and tables,
  animations whose version was lowered below that of their flags) are written in the present form and compared by what they are read as.
- `Unsavable`: read and not written: animations before version 1001 with a flag of the
  bust set, timelines whose counts are informative, textures and containers whose
  bytes were changed (the encoders make objects, they do not edit them).
- `MayLack`: files that may end early: the tail of `anm`, `pmat`'s last field, the
  flag of a model's skin, what a server appended to a shared preset, data without an
  LZ4 envelope, the sound of an audio clip.
- `Trailed`: what a file with a byte too many is read as.  The byte is any of the
  primitives one byte long, so that a reader with an optional field left takes it for
  that field.  Most readers refuse it or stop at what they know, a shared preset keeps
  it, data without an LZ4 envelope has it as its one byte.  One makes a changed document
  of it: `ReadAnm` tries for the two flags of the bust at any version (anm.go:28-30 says
  so, and `ReadAnm` does so at anm.go:195-204), so a byte behind an animation before
  version 1001 comes back as `BustKeyLeft`, and that document is `Unsavable`.

### COM3D2

`Com3d2Physics` (psk, phy, col), `Com3d2Material` (mate, pmat, tex), `Com3d2Model`
(menu, model), `Com3d2Animation` (anm, the dance files) and `Com3d2Preset`.  Unknown
tags of a model, images, and the texts of a menu are not modelled.

`Com3d2Archive` is the ARC: the tree of directories, their tables by two hashes,
offsets, the table of names, and copying, deleting, moving and merging; that every table
is where its offset says is an assumption TLC evaluates.  Hashes are taken to be one to
one but for case; twins by case in one directory are left out (see the hazards).

`Nei` is the table of cells.  A character is the bytes of each encoding; the guess of
the encoding by its bytes is the code's.  AES is one token for each byte; a trailer that
happens to look like padding counts as padding.

### KCES

`Indexed` are the MessagePack objects whose fields are known by index and whose widths
grew; `KcesPreset` the attachments, properties, colours and bodies of a preset;
`KcesSystem` (edit data and colour presets), `KcesAssets` (materials, models, menus,
textures), `KcesFiles` (colliders and the smaller files); `KcesContainers` the content
table with its absolute positions, and the catalogs; `KcesSaves` what is kept
in tables, and the shared preset with its positions.

A compressed envelope is one token in these and is modelled in `Lz4`.  Not modelled:
the options that keep lookup hashes, the instance identifier given from outside,
colour sets nested below one level, the order and the case of JSON members, checks of
UTF-8, NUL and whitespace in names, limits of 64 MB to 1 GB.

`MsgPack` has the numbers and headers byte by byte: a number is its eight bytes, so that
TLC and the prover see every value; `Lz4` has the envelopes, the literal blocks at the
lengths where their form changes, and data that passes through.  Rounding to a Single
is a parameter.

`UnityBundle` has the header, the tables, the blocks over which files lie, alignment
and the two passes of the writer; `TypeTrees` values read and written by a tree, with
alignment byte by byte and base 4 in place of 256; `UnityAssets` the objects encoded
by hand next to their trees, the container, references, textures and streamed payloads;
`SerializedFile` the file of a bundle: header and metadata of versions 12 to 22, types
shared by class, tree and script, path ids, and the data with its alignment.  Positions
in metadata count tokens, a tree's node is one token, a flag stands for the order of
bytes, the common names of Unity are entries of a table.  What an unpacker keeps of a
file before it packs it again is a harness in `MCKcesFormats`; a file's user information and
reference types are not kept by it.

### Proofs (`MsgPackProofs`)

All are about a value that stands anywhere in a file (`Stands`), and hold whatever
`ToSingle` is; lengths are those an int32 holds, as in C#.

Numbers and headers: what is written in the fewest bytes is read back as it was, signed
(`Int64RoundTrip`) and unsigned (`UInt64RoundTrip`); 32-bit readers take what is in their
range and nothing else (`Int32RoundTrip`, `Int32Only`), and so do those of presets, whose
writer is a function of its own (`GradInt32RoundTrip`); the lengths of arrays and maps,
texts, bytes and singles come back (`ArrayHeaderRoundTrip`, `MapHeaderRoundTrip`,
`StringRoundTrip`, `BinRoundTrip`, `SingleRoundTrip`).  The argument is by the marker:
which one is written fixes which leading bytes are zero (or sign), and the reader fills
in just these.

Files of anybody: whatever a file holds, a reader that succeeds has stayed inside of it
and goes on behind what it read (`NumbersInside`, `PayloadsInside`), and a length that is
accepted has room for its elements (`LengthsInside`).

Envelopes: an extension in each of its eight forms is read as it was written
(`ExtRoundTrip`); a block of literals of any length is unpacked as it was
(`LiteralBlockRoundTrip`); and what `CompressLz4BlockArray` makes of any data,
`DecompressLz4BlockArray` makes into the data again (`EnvelopeRoundTrip`; for one block
`SingleEnvelopeRoundTrip`).  Of the library's compressor this assumes `Compresses`: its
decompressor undoes it.  The proof goes by the partial results of each loop: `Joined` are
the beginnings of what `FlattenSeq` joins, `Rising` the partial sums of the sizes, and
after k steps the reader of the sizes, the sum and the reader of the blocks are in the
state these name (`OneSize`, `SumIs`, `OneBlock`; `SameStates` puts the steps together).
`CutsAre` is the arithmetic of the blocks: they cover the data and none is empty.

Envelopes of anybody: whatever a file holds, what is unpacked from it is the file itself,
for want of an envelope, or bytes of which there are at most `MaxLz4DecompressedSize`
(`EnvelopeBounded`): a block is as long as was announced (`AsLongAsAnnounced`), whatever
its sequences copy, and the sizes are summed up before the first block is unpacked
(`BlocksAsLong`).  This is an induction over the loops of the reader (`LoopExists`,
`AllIn`) with what their states may be: `Decompressions`, `Readings`, `Sums`.

What the layouts read and write is defined by recursion over them, which the prover
cannot follow: `RoundTrip`, `LengthMatters` and `ResavedSame` of the formats are
model-checked only.

### Induction

The library's induction takes a predicate as a parameter, which is beyond the first-order
provers behind TLAPS.  `Induction` states it for sets: a set of numbers that has 0 and with each number the next has them all
(`SetInduction`), and one that is not empty has a least element (`LeastElement`); both
follow from the well-foundedness of the natural numbers.  A proof applies them to
the set of the numbers for which its claim holds.  Recursive functions are then reasoned
about by what they are at 0 and at k + 1.  An operator declared `RECURSIVE` cannot be.

## 10. What is only model-checked, and what is not modelled

Liveness (`CloseReturns`, `PutsReturn`, `DeadBlobsReclaimed`, `CallsReturn`, `CallsEnd`,
`ServerExits`, `PoolReturns`), for want of rules for fairness and `ENABLED` in this prover,
and the codecs' `RoundTrip`, `LengthMatters` and `ResavedSame`.  Every other property of
sections 3 to 8 is proved for all values of the constants.

Of liveness the safety half is proved, where there is one: somebody can go on
(`...CanGoOn`), and a number that bounds the steps still to come is lowered by each of
them and raised by nobody.  What is left to the runs is that who can go on does, which is
the fairness stated there.  `...CanGoOn` lists the guards of the actions by hand, because
`ENABLED` is beyond the prover; a guard that was forgotten would show in the runs as a
deadlock or a liveness error.  `DeadBlobsReclaimed` has no such theorem: it rests on a clock
and on removals that succeed in the end, which no count of steps bounds.

See `components` in `PROJECT.json` for the parts that are not modelled, each with its
reason.  Geometry, images, audio, the generated code, the schemas and the glTF import
and export stay out: they have no control a model checker would explore.  The engine and
the services are sequences of calls of codecs without state between them.
