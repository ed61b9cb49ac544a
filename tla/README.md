# A verification project for elykseer-cpp

elykseer-cpp cuts files into blocks, packs the blocks into *assemblies*, encrypts each assembly and
spreads it over *n* chunk files. The keys and the block lists go to two encrypted documents. What a
user has to rely on is short: what was backed up with exit status 0 can be restored, and what is
restored is exactly what was backed up. These modules say what that means for the code, check it with
TLC on small instances, and prove the core of it with TLAPS for all of them.

Source paths below are relative to `src/cpp/` of the repository.

## 1. Inventory

| Component | State it keeps | Operations | Makes it correct |
|---|---|---|---|
| `CoqBuffer` (`coqbuffer.cpp`) | bytes | copy, file in/out, encrypt, decrypt | return values tell how much was moved; a changed byte is noticed |
| `CoqAssembly` (`coqassembly.cpp`) | buffer, `_apos`, aid, stage (writable, full, encrypted) | `backup`, `finish`, `encrypt`, `extract`, `recall`, `decrypt`, `restore` | blocks do not overlap, stay clear of the tag, and come back as they were or not at all |
| `CoqEnvironment` (`coqenvironment.cpp`) | current assembly, `n_failed` | `recreate`, `finalise`, `finalise_and_recreate`, `backup`, `restore_assembly` | a key is returned only for an assembly that was written; every failure is counted |
| `CoqAssemblyCache` (`coqassemblycache.cpp`) | read and write queue, write environment, read environments, metrics, two mutexes | `enqueue_*`, `iterate_*`, `flush`, `close`, `metrics` | no request lost, overtaken or answered with another block; bounded number of environments |
| `CoqStore` (`coqstore.cpp`) | keys by aid, block lists and file infos by file hash | `add`, `find`, `contains`, `inStream`, `outStream`, `encrypted_output` | keys never replaced, newest file info wins, documents carry all of it |
| `CoqProcessor` (`coqprocessor.cpp`) | - | `file_backup`, `directory_backup`, `recursive_backup`, `close` | all blocks of a file stored before it is recorded; every file of a directory found once |
| `LXRbackup` (`cli/lxrbackup.cpp`) | stores, cache, exit status | `main` | status 0 only if everything can be restored |
| `LXRrestore` (`cli/lxrrestore.cpp`) | the output directory | `main` | complete files only, nothing overwritten, status tells |
| `LXRverify` (`cli/lxrverify.cpp`) | - | `main` | status is right |
| command lines (`cli/*.cpp`) | settings, lists, stores, `use_gpg` | options, in any order and number | the tool starts with what it was told, or says that it does not |
| chains of backups (`lxrbackup.cpp:233`, `lxrrestore.cpp:135`, `coqstore.cpp:286`) | the documents in the meta directory | `--refdbfi`, `-k`, `-b` | the documents together restore the newest version of every file, versions are not mixed |
| `Nchunks`, `CoqConfiguration` | number of chunks 16..256 | - | - |
| `FileCtrl`, `FsUtils`, `OS`, `Liz`, `AppId` | none | wrappers, texts | `dirExists`, `fileExists` as used by the options |
| elykseer-crypto, GnuPG | outside of the repository | AES-256-GCM, SHA3-256, `Gpg` | external: symbolic |

How they interact: everything is a synchronous call. The tools call the processor or the cache; the
cache owns one `CoqEnvironmentWritable` and a deque of `CoqEnvironmentReadable`; an environment owns
an assembly; an assembly owns a buffer and reads and writes chunk files; the three stores are shared
by the cache and the tool. There are no messages, and the tools have one thread each; but the cache
takes a mutex for each queue, so that threads of another program may share it. What else happens
*concurrently* is outside of the program: other programs change the files that are backed up, chunk
files get lost or damaged between (and during) runs, a write may fail or stop short at any time, and a
tool may be killed.

What is hard here:

- **arithmetic of the layout**: striping, header, and tag rows that show a mistake only on restore;
- **several blocks, several assemblies**: a batch of requests that straddles a full assembly, the
  failure of one assembly while its blocks are already in the block lists, counted on every path;
- **queues**: a full queue is worked off in the middle of a file, a batch ends at the first assembly
  that cannot be restored, and results must be those of the file in work;
- **cache**: environments outlive the chunk files they came from; the size of a queue is tested before
  its lock is taken, so that threads that enqueue at once overrun it;
- **command lines**: documents are decrypted and merged where their option stands, `--nogpg` counts
  from there on, and settings may come after what depends on them;
- **partial failure**: of chunks, of blocks, of files, of documents, told by one exit status;
- **directory trees that move**: a directory is asked for, opened and listed at different times, links
  are followed, and what the file system refuses to answer is an exception that nobody catches;
- **a sequence of programs**: a backup leaves out what an earlier one recorded, so that a file is
  found in one document and its blocks in another, and documents are merged in the order in which
  they are given.

Every hazard, with its line and the properties that cover it, is in `PROJECT.json`.

## 2. Modules

    Buffer ── Assembly ── (SealedStore)              byte by byte
                 └─ AssemblyProofs

    Archive ─┬─ WritePath ─┬─ AssemblyCache          block by block, with threads
             └─ ReadPath ──┘
                                                     tools
             WritePath, Files ── Backup
             ReadPath, Files ── ReadLoop ─┬─ Restore ── Tools
                                          └─ Verify ──┘

    Stores ─┬─ BackupChain                           document by document
            └─ CommandLine                           option by option

    Traversal                                        name by name

`WritePathProofs` and `ReadPathProofs` extend the two halves of the cache. `WritersProofs` extends both of
them and is about the two programs that write, `AssemblyCache` and `Backup`; `ToolsProofs` extends the latter
and is about those that read. `AssemblyProofs`, `BackupChainProofs`, `CommandLineProofs` and
`TraversalProofs` stand alone.

Three levels of detail. Two of them meet at the assembly. `Assembly` has bytes, positions and chunk files
and shows that an assembly is an atomic store: sealed once, then read in full or not at all. `Archive` and
the modules over it take this for granted, treat an assembly as a list of blocks, and have what `Assembly`
has not: queues, several assemblies, failures, files and tools. `Backup` and `Restore` in turn show what one
run of a tool means, and `BackupChain` takes this for granted: a backup that ends with status 0 has recorded
each file with the content that its blocks have (`Restorable`; files that other programs change meanwhile
are exempt, and so are files of which a read failed, see section 5), and its keys open them. `Traversal` is what comes before `Backup`: the list of files that
`Backup` starts with is what it hands over. `CommandLine` is what comes before everything: the lists that
`Traversal` starts with, the documents that `BackupChain` loads, the stores and the settings of a tool.

| Module | Models | State ↔ code |
|---|---|---|
| `Buffer` | `CoqBuffer` | a buffer of n bytes is a function on `0..n-1`; no state |
| `Assembly` | one `CoqAssembly` from creation to restore | `buffer`, `apos` = `_buffer`, `_apos`; `phase` = which of the three classes holds the buffer; `chunk` = the chunk files; `recalled`, `readable` = the assembly a reader builds |
| `SealedStore` | nothing of the code: the abstract promise | `open`, `kept`, `seen` |
| `Archive` | what both halves of the cache share | `content` = blocks of each assembly; `intact` = assemblies with all chunks; `keystore`, `badkeys`, `fblockstore` = the stores |
| `WritePath` | write queue, `CoqEnvironmentWritable` | `writeenv` = `_writeenv` (`NullEnv` = nullptr, `aid = NoAid` = no assembly), `wqueue` = `_writequeue`, `wbatch` = rest of the vector that `run_write_requests` loops over |
| `ReadPath` | read queue, read environments | `readenvs` = `_readenvs` by aid, `rqueue` = `_readqueue`, `rbatch` = rest of the loop of `run_read_requests`, `results` = its vector |
| `AssemblyCache` | both halves in one process, any number of threads that enqueue | their union; `wpassed`, `rpassed` = the requests of threads that have passed the test of the queue and wait for its mutex |
| `Files` | contents of files and blocks, `fread`/`fseek`/`fwrite` | - |
| `Backup` | `LXRbackup`, `file_backup`, `get_file_information`, the program being terminated | `pc` = the place in `file_backup` or `main`, `job` = its locals, `infos` = `CoqFInfoStore`, `disk`/`stream` = the files and the open one |
| `ReadLoop` | what `LXRrestore` and `LXRverify` have in common | `step`, `cur`, `at`, `n_blocks_ok`, `failed` = locals of `main` |
| `Restore` | `LXRrestore` | `out` = the output directory, `n_restored` |
| `Verify` | `LXRverify` | - |
| `Tools` | `LXRverify`, then `LXRrestore` with the same documents and files | `tool` = which of them runs; each process starts with an empty cache |
| `ToolArchives` | nothing of the code: what the tools that read may find, as left behind by `Backup` | - |
| `Stores` | the documents: written, read, merged | a `CoqFInfoStore` is a function from file hashes to what is recorded, a `CoqFBlockStore` one to lists of blocks, a `CoqKeyStore` the set of assemblies it has keys of |
| `BackupChain` | any number of `LXRbackup` and `LXRrestore`, one after the other | `docs` = the files in the meta directory and the exit status; `infos`, `blocks` = stores of the backup at work, `refs` = its `--refdbfi` options, `todo` = the files it is given; `rkeys`, `rblocks` = stores of `LXRrestore` |
| `CommandLine` | the loop over `getopt_long` of the three tools, the functions that take over an option, the checks behind it | `optind` = the option in work, `config` = the global settings, `lists` = the arrays and their counts, `keys`, `blocks`, `infos` = the stores; `status` = `parsing`, `run`, or the exit |
| `Traversal` | options `-f`, `-d`, `-D`, `directory_backup`, `recursive_backup`, `dirExists` | `lists` = `list_files`, `list_dir1`, `list_dir`; `stack` = the calls at work, with their open directory; `tree`, `open` = the file system; `backedup` = the calls of `file_backup` |

Granularity. One call of the cache is one action, except the loops over a batch, of which each turn is an
action: chunk loss happens between any two turns. `enqueue_*` is two actions in `AssemblyCache`, the test
and what is done under the mutex; `WritePath` and `ReadPath`, which have one caller, take them as one. In
the tools each call of the cache and each access to a file is an action of its own, so that files may change
in between. `finalise_assembly` is one action with three outcomes: all chunks written; some written short,
unnoticed; failed and counted.

History variables (`contents`, `damage`, `accepted`, `closed`, `crashed`, `taken`, `touched`, `refused`,
`misread`, `since`, `before`, `sound`, `verdict`, `kloaded`, `given`, and `refs` in the documents) are read by properties only;
`floaded` also keeps a document from being loaded twice.

The `Byte`, `Data`, `Key` values are abstract; equal checksums mean equal contents; identifiers drawn
at random are distinct; a ciphertext decrypts only under its key and additional data. Those are the
assumptions on cryptography, and the only ones.

## 3. Runs

| Run | Question | Properties | Bounds |
|---|---|---|---|
| `assembly` | is an assembly read back in full or not at all? | `TypeOK`, `BlocksKept`, `RoundTrip`, `IntactIsReadable`, refinement `SealedSpec` | 3 chunks of 4 bytes, 2 tag bytes, header 1: room for 5 bytes of data, i.e. up to 5 blocks; 2 keys; one fault of any kind |
| `write_path` | does every request get stored once, in order, where its information says? | `WTypeOK`, `FailedIsCounted`, `NothingLost`, `BlocksLocatable`, `BlocksDisjoint`, `SealedIsFinal` | 2 files with 2 blocks each of length 0, 1, 2 or too long; 3 bytes per assembly, queue of 2; flush and close at any time; every outcome of every assembly |
| `read_path` | is every request answered in order with the right block or not? | `RTypeOK`, `AnsweredInOrder`, `ReadBack`, `EvictsLeastRecent` | 3 assemblies, 2 environments, queue of 2; missing or wrong keys; chunk loss at any time; wrong checksums |
| `cache` | do threads that share the cache lose requests, and is an assembly read before it is sealed? | `NothingLost`, `OverrunIsBounded`, `OnlySealedIsRead` | 2 threads that write 2 requests each, 2 that read, queues of 1, 2 assemblies of 2 blocks, 1 environment; flush, close and chunk loss at any time |
| `backup` | what does exit status 0 of `LXRbackup` mean? | `Restorable`, `RecordedIsCurrent`, `DocumentsComplete`, `Ends` | 2 files (or one twice) of 0 to 3 bytes, blocks of 2, queue of 1, one change by another program at any time, a read that delivers only a part at any block, termination at any time, empty or outdated reference |
| `restore` | what does `LXRrestore` leave behind, is the verdict of `LXRverify` right, and do the two agree? | `NothingPartial`, `ExistingIsKept`, `StatusIsRight`, `OwnBlocksOnly`, `VerdictIsRight`, `ToolsAgree`, `Ends` | 2 files of up to 3 blocks in 2 assemblies (or one twice), queue of 2, chunk loss at any time, bad keys, target there already, directories and removals refused, `fclose` failing, a file system that does not answer |
| `commandline` | does a tool start with what its command line says? | `StartsAsTold`, `StatusIsExplained` | all tools; what is needed, with up to 3 more options anywhere around it, and up to 3 settings alone; 9 documents: encrypted or not, of two backups, of another kind, damaged; a directory named with `-f`; room for 2 files |
| `chain` | which documents restore the newest version of every file? | `CTypeOK`, `NewestIsRestorable`, `OneVersionOnly`, `OwnKeysSuffice` | 2 files of 2 contents or empty, 3 backups, each with up to 2 references; one backup fails, by any of its assemblies and documents; all choices and orders of documents |
| `traversal` | which files does `LXRbackup` find, and does it come to an end? | `NothingIsMissed`, `OncePerOption`, `AbortIsExplained`, `Ends` | 4 trees of 3 directories with 2 names: nested, with links, with a link up, with a link to itself; one directory unreadable or none; 4 command lines of up to 3 options; one change by another program at any time |

Three runs end in a violation. Each shows a disagreement between the code and what its comments or
documents say; the properties are stated with the quotation.

| Run | Property | What the code does |
|---|---|---|
| `assembly_short_write` | `KeyOnlyIfAllWritten` | `fileout_sz_pos` (`coqbuffer.cpp:113`) ignores the result of `fwrite`, `extract` that of `fclose`: a chunk cut by a full disk counts as written, the key is kept and no failure is counted |
| `restore_short_write` | `NothingPartial` | the same call makes `LXRrestore` keep a file of which a block was cut, unless `fclose` reports the error |
| `traversal_links` | `DepthIsBounded` | below a link to a parent directory, `recursive_backup` (`coqprocessor.cpp:217`) enters the same directories again and backs up their files under longer and longer paths, until the file system follows no more links and the exception ends the program without keys; the quoted definition stops at a depth |

Two more disagreements with the quoted definitions concern calls that no tool makes, and are listed as
hazards only: requests after `close` are dropped (`coqassemblycache.cpp:466`, `614`), and `flush` before the
first request uses a null pointer (`590`). And the help of `LXRverify` announces an option `-d`
(`lxrverify.cpp:93`) that its loop over the options does not know: `CommandLine` ignores it, as getopt's
default branch does.

Why the bounds are enough. In every instance the interesting things happen: assemblies fill up in the middle
of a batch and of a file, blocks fit exactly, do not fit and never fit, the queue is full, the last
environment is evicted, batches stop early with requests behind. Three backups are what a chain needs for a
file that is stored, left out, and stored or left out again, with a failed backup in between. The system of
`traversal` follows one link in a path instead of 40, so that a link up is followed to its end; a directory
of two names, and two levels below the top, suffice for a file and a subdirectory side by side at every
step. More blocks, chunks or names repeat these. The layout is where a small instance could hide something,
and there the theorems hold for every number of chunks, size and header. All bounds are constants of the
modules: `MaxDamage`, `MaxRequests`, `MaxAssemblies`, `MaxReads`, `Readers`, `MaxChanges`, `MaxRuns`,
`MaxRefs`, `MaxFailed`, `MaxDepth` (paths that properties of `Traversal` look at; the trees have no longer
ones that lead anywhere), and the sets `Contents`, `CmdLines`, `References`, `Archives`, `Existing`,
`Trees`, `Readable`. `MaxLinks`, `MaxList`, `MaxFiles` and `MaxDirs` are limits of the system and the
program, made small. Two threads of either kind suffice for two tests at the last place of a queue; more of
them overrun it by more, which is what the theorem says. `commandline` explores single lines: what an option
does depends on the options before it only, by pairs (`--nogpg` and a document, a setting given twice, a
document and one that replaces it) or by number.

Deadlock is checked in `read_path`. The other programs end (`CHECK_DEADLOCK FALSE`), and the cfgs of the
tools check `Ends` instead. A command line is finite and read once; there is nothing to wait for.
`BackupChain` has no such property: its programs are finished by the model, not by the code.

What `chain` tells a user. Give each backup the files document of the last successful one (`Chained`),
and to `LXRrestore` the keys and files documents of all successful ones, the latter in the order in
which they were made (`AllLoaded`): then every file comes back as the last of them recorded it. Not
promised, and not so: another order (an older version of a file may replace a newer one, but never a
part of it), a reference left by a backup that failed (files are skipped whose blocks have no key),
empty files (they are not restored, and one that had content before comes back with that).

Symmetry is used in `assembly` (keys), `write_path` (files), `cache` (threads) and `chain` (files, and
contents other than `Empty`), which check safety only.

### Fairness

`Backup` and `Traversal` assume `WF_vars(Program)`, and `Tools` the same of `Running`: that is the one
thread of the tool, which takes its next step whenever it has one (in `Tools`, somebody also starts the
second tool). Nothing is assumed of other programs, of faults and of termination: `Terminate` of `Backup`
may happen at any time and need not. That a tool ends is then a fact about its loops: `ReadBlock` and
`RequestBlock` must not try a full queue for ever, and `Traversal` must come out of links that lead up (it
does, by the limit of the system; other programs change a bounded number of entries).

## 4. Theorems

Eight modules are checked by TLAPS. They assume what the `ASSUME`s of the modules say, which TLC evaluates in
the runs. Most give types to constants. These say more:

- `Buffer`, `Assembly`: `TagLen > 0`, `NChunks >= TagLen`, `ChunkSize >= TagLen`, which `Nchunks` and the
  constants of `CoqAssembly` guarantee;
- `Files`: blocks are sequences of up to `BlockSz` bytes, and one fits into an empty assembly;
- `ReadPath`: an archive to start with is typed, its block informations describe blocks that are there and
  give their size, and what is complete exists. The first two are `WTypeOK` and `BlocksLocatable` of the
  writing half, and the size is what `StoreKeeps` records;
- `AssemblyCache`: there are threads of either kind, and finitely many;
- `Traversal`: a directory of a tree has an entry for each name, and a command line is a sequence of options
  with a name each. Nothing is said of where links lead;
- `CommandLine`: a line is a sequence of options of one of the three tools, a document is encrypted or not,
  and `None` is nothing that a setting accepts.

Four theorems have a hypothesis of their own, which is part of their statement. Those about verdicts,
`VerdictsAreRight` and `BothToolsAgree`, ask for `ReadQueueSz > 0`: with a queue of no places, no block is
ever asked for. Both tools give theirs 12 places (`lxrrestore.cpp:309`, `lxrverify.cpp:247`).
`NothingIsPartial` and `ExitStatusIsRight` ask for `ShortWrites = FALSE`; without it the first is false, which
is what `restore_short_write` shows.

Induction over data. The library's induction theorems take an operator as a parameter, so a fact about all
prefixes of a list or all blocks of a file is proved from the least counterexample instead: `LeastNumber` (a
nonempty set of numbers has a least one, from the library's `WFMin`), `StepByStep` (a property of 0 that passes
from each number to the next), and `Recursion` (a function defined by recursion on numbers exists, so that its
defining equation may be used). `OfFile`, what a list has of one file, and `Rebuilt`, a file put together of its
blocks, are such functions. The lemmas stand at the beginning of `WritePathProofs`, and again in `ToolsProofs`
and `TraversalProofs`, which are about other programs and do not extend it.

**Assembly.** The argument starts with the layout: `Idx2Apos` stays inside of the buffer
(`Idx2AposInBuffer`), is injective (`Idx2AposInjective`), and positions that leave the last `TagLen`
rows free land before the last `TagLen` bytes (`DataClearOfTag`). The inductive invariant `IInv` has
three parts. `BlocksInv` says where the blocks are: each between header and `apos`, none beyond the
tag rows, with the checksum of its content. `TextInv` says what the current form of the assembly (plain
buffer, ciphertext, chunk files) is, relative to the plain text that holds the blocks.
`OtherTypes` is the rest. `RoundTrip` alone is not inductive: it speaks of the last stage only, and says
nothing about the ciphertext and the chunk files from which that stage is computed. The key lemma of
the reader, `AuthenticIsUnchanged`, shows that a recalled buffer with the right tag under *any* key is the
ciphertext that was written. From the invariant follow `TypeCorrect`, `BlocksAreKept`, `RoundTripHolds`,
`IntactIsAccepted`; and `ImplementsSealedStore`, step by step, with `kept <- contents` and what a reader
can restore for `seen`.

**Write path.** The invariant `WInv` and `DepthInv`, the bound of the queue, are `WTypeOK`, `BlocksLocatable`,
`BlocksDisjoint` and `FailedIsCounted` together with what makes them inductive: the open assembly is the newest, its
blocks end at or before `apos`, it is empty exactly if `apos = HeaderLen`, and it has no key yet. The
predicates are stated of *contents* rather than of variables, since one action (`WriteToNext`)
finalises, creates and stores, and each part is shown to preserve them (`FinaliseCounts`,
`RecreatedIsFresh`, `StoreKeeps`). `SealedStaysFinal` is the action property `SealedIsFinal`.
`NothingGetsLost` needs `UsableInv` besides: until the cache is closed, an environment always has an assembly
(`WriteToNext` creates one at once), so that no request of a batch is thrown away. Then each step moves
requests of a file along, from the queue to the batch to the list, and the three together stay what was
accepted (`HandedOverAccounts`, `EnqueueAccounts`, `IterateAccounts`, `RunAccounts`). What `OfFile` selects from two
lists in a row is what it selects from each (`SelectionConcat`).

**Chains.** `NewestIsRestorable` relates the documents of all backups to what a reader made of some of them;
it is no invariant by itself, since it says nothing of a backup or a restore at work. `CInv` says where
everything comes from. `AtWork`: what the backup at work knows of a file is from the last reference that
lists it, or was stored by itself with that checksum, or is that it is empty; a file that it has not come to
is of the first kind. `Sources`: in a chain, what backup i records of a file was stored by a backup j <= i
whose keys open it, no successful backup between has blocks of the file, and no file is ever forgotten.
`Loaded`: the list of a file that a reader has is that of the last loaded document that has any. The step
that matters is `FinishBackup`: in a chain the last reference is the newest (`NewestReference`) and lists
all files that any lists, so what it records is what the new backup skipped, and its source is the source.
`ChainRestoresNewest` combines `Sources` and `Loaded`: of the documents of a file's source and all after it,
that of the source is the last that has blocks of the file. `VersionsAreNotMixed` and `KeysSuffice` need no
chain.

**Read path.** `IInv` is `RTypeOK`, `AnsweredInOrder` and `ReadBack` together with the archive they rest on:
`ReadBack` says that what was restored is what the block information describes, which is a statement about
the archive as long as `BlocksLocatable` holds of it, and nothing but the loss of chunks changes it.
Environments are a list without repetition (`EnvsOK`); a hit moves one to the front (`HitKeeps`), a miss
puts a new one there and drops from the end (`MissKeeps`). `EvictionIsLeastRecent` is about the use of
environments and not about the list: `since[a]` has the assemblies that were used after the last use of `a`, and
what is evicted has all that stay in it. That the list is in this order is `RecencyInv` (`RecencyHolds`), which
each use keeps because it moves an environment to the front and leaves the order of the others (`ToFront`,
`UseKeepsOrder`).

**Cache with threads.** Here the invariant of the write path is used without its bound of the queue, which
does not hold: `CacheInv` has `OverrunIsBounded` in its place. That one counts the threads between test and
mutex: a test that finds room adds one of them to a queue below its depth (`TestIsBounded`), a push trades a
thread for a request (`PushIsNeutral`). `NothingGetsLostInThreads` carries the account of the write path over:
a request counts as accepted when it is pushed, whatever other threads do between test and push. `ReadInv`
says that cached assemblies have keys; with `WInv`, an assembly that has a key is not the one being written.

**LXRbackup.** `BackupInv` is `WInv` with where the program is: `JobInv` types the request in work (a block
that is read is no longer than it may be, also if the file was cut meanwhile or a read failed), `QuietInv` says when no
requests wait and that no assembly is open after `close`, `DocsInv` what each document holds.
`StatusZeroMeansKeys` follows: after status 0 `n_failed` is 0, so by `FailedIsCounted` every assembly with
data has its key, by `BlocksLocatable` every listed block is in such an assembly, and by `DocsInv` the
document has all keys. It holds of touched files too. `RecordedStaysCurrent` is about the checksums: `FilesInv`
says that every file the program is done with is recorded as it is, unless it was touched or refused, and
that the checksum of the file in work is that of its content unless it was touched since.

`DocumentsRestore` puts both together with the contents. `WholeInv`: what was accepted for a file that nobody
touched is its content, cut into blocks without gap or overlap, up to the place where the program is
(`Whole`, `Cut`); of no file but those begun, and of each only once (a second time the file is skipped). A
full queue is where that could break: the block in hand is not accepted and is offered again (`HandIn`,
`DrainWhole`). By the account of the write path the block list is that, and blocks that are such a cut put
the content together again (`RebuiltFromCut`, `ListIsWhole`).

A read that delivers only a part (`FreadFacts`, `PartOf`) leaves a gap, and `WholeInv` says nothing of a file
of which that happened (`misread`). What remains of such a file is `FaithInv`: every request that was
accepted for a file that nobody touched has, at its place, what the file has there, and is empty only if a
read failed. `ListSays` carries that over to the block list (`ListIsFaithful`), by the account and `Measured`,
which is the part of the write path that says that a block information has the size of its block.

**LXRverify and LXRrestore.** `ToolsInv` has the loop that both share (`LoopInv`: requests that wait are of
the file in work, results are answers to them) and the output directory (`OutInv`: what was there is as it
was, and the file in work was not). The steps of the loop are shown for one tool and hold of the other,
whose module is an instance over the same variables (`SameLoop`).

`PlaceInv` says how far the loop is: the blocks counted, those in the batch and those in the queue are the
blocks of the file up to `at`, in order. On it rest the verdicts (`VerdictInv`). One half speaks of any set of
assemblies that contains those intact now, such as those intact when the tool started (`HeldInv`): as long as
nothing failed, what was counted could be read from them. The other says that a block that was not counted
cannot be read any more (`MissingInv`), so that a tool that fails has a reason. `BothToolsAgree` needs both, of
two processes: what `LXRverify` found is kept in `VerifyInv` while `LXRrestore` runs. For the output,
`WritesInv` says that the file in work consists of the blocks counted so far, each at its place, the others
still missing (`WrittenWhole`, `CountedWhole`); `SizesRight`, that blocks have the size of their information,
comes from the archive. What `NothingPartial` and the exit status say then follows at the place where the
program keeps or removes the file (`NothingPartialSteps`, `SoFarGoodSteps`, `FailureSteps`).

**Command lines.** `LineInv` is what `StartsAsTold` says, of the options before `optind` instead of all:
`FlagsOK`, `ConfigOK`, `ListsOK`, `StoresOK`. The tools keep no list of what they have read; so each of these
relates the state to the command line, by the last option of its kind, or by how many were before it.
`DocumentIsRead` is the step that matters: whatever `--nogpg` before it makes of a document, the store takes
all of it or nothing (`SeenOfDocument`), and what it says of a file replaces what was said before
(`HeardNext`). `StatusIsExplained` is inductive with it.

**Traversal.** `AbortIsExplained` is nearly inductive (`QuietOK`): as long as nobody changes the tree, a path
that was a directory when a call was made for it still is one, so an iterator throws only for one that it may
not read, or where the system follows no more links. That is on the way to the directory, or to one of its
entries: the program asks for the type of each, and an entry that is a link is one link more.

`OncePerOption` counts, and counting is not inductive. `OwnInv` is an assignment instead (`OwnedBy`): each path
that was handed over is owed to an option that covers it, each place of the three lists to an option not yet
worked on, the calls at work to one more; and no option owes the same path twice. What is still to come from
the calls at work (`MayCome`) is disjoint from what is owed to their option already. An assignment of that
kind is an injection from the calls for a path into the options that cover it, so there are no more of them.

`NothingIsMissed` is a promise (`PromiseInv`): a file that an option asks for and that nobody touched
was handed over, or its option is still on a list, or a call at work will come to it (`Kept`, `WillCome`). It
survives other programs because what is on the way to the file is not touched either (`StableWay`), and what a
directory listing must contain (`must`) is what was there when it was opened and stayed. At the end the lists
are empty and there are no calls (`DoneOK`), so only the first is left.

Model-checked only: `Ends`, the liveness properties, which are out of reach of the prover; and the three runs
that end in a violation. No module that is proved about has a `RECURSIVE` operator.

## 5. Not modelled

The syntax of XML (a document is read in full or refused) and of command lines (`getopt_long` itself,
abbreviations, what `atoi` makes of a text); the computation of a path below the output directory
(`contained_target`: a set of files is accepted); owner, permissions and times of files; the statistics that
only `-v` prints; licence and version texts; the other functions of `FileCtrl`, and `FsUtils`, `OS`;
`generator.hpp`, which is vendored.

Two threads that iterate the same queue, flush or close at once: the write environment and the stores have
no lock, so that is a data race whatever they do. A document that is written in part when `LXRbackup` is
killed while writing it: `WriteKeys` and `WriteFiles` are one step each. Recovery from a crash, because
there is none: what `LXRbackup` had in memory when it was terminated is lost, and `Restorable` says what is
left if it had come to the end of its documents.

Reads that fail. `fread` may deliver any part of a block, also nothing (`Fread` in `Files`), and `file_backup`
does not look at how much it was (`coqprocessor.cpp:116`). What it delivered is stored as the block, the place
in the file moves on by the whole block, the file is recorded with the checksum of all of it, and the exit
status is 0. The documents then do *not* describe the file: the blocks that were read are right and at
their places, and the rest is missing. A short block has the checksum of what it holds, so `LXRverify` and
`LXRrestore` find nothing wrong with it and exit with 0; an empty block cannot be restored and is noticed.
The next backup that has the files document as its reference leaves the file out, since its checksum is the
recorded one. `Restorable` promises no more of such a file than that its blocks are what was read and that their
keys are there; the checksum itself is taken to be of the whole file, although computing it reads
the file as well. A directory that is named with `-f` is started with (`Found`, `Accepted`); to `Backup` it is a
file that is refused, or of which every read fails.

A file system that does not answer is an exception, and so the end of the tool, where the code asks it:
in `get_file_information` (`Terminate`), for a target of `LXRrestore`, and for the chunks of an assembly that is
recalled (`coqassembly.cpp:508`, `RecallRefused`). When it does so is left open.

## 6. Plan

Done, in this order: `Buffer`, `Assembly`, `SealedStore`, `Archive`, `WritePath`, `ReadPath`,
`AssemblyCache`, `Files`, `Backup`, `ReadLoop`, `Restore`, `Verify`; proofs of the first and of the
write path; `Stores`, `BackupChain` and its proofs; `Traversal`; threads in `AssemblyCache`, `Tools`,
`CommandLine`; proofs of the read path, of the cache, of `Backup` and of the tools; proofs of `Traversal` and
`CommandLine`, and of what a file is put together of (`NothingLost`, `Restorable`, `NothingPartial`, the verdicts).

Next:

1. An end-to-end composition: the documents of `Backup` given to `Tools`, implementing an abstract
   archive (a file is recorded with a content; a restore yields it or fails). `BackupChain` would then
   take over as one step what that archive promises.
2. Theorems about that composition: that `Backup` and `Tools` implement the archive.
3. Documents as sequences of elements, cut anywhere: what a store keeps of one that it refuses half-way.
