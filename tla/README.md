# GEMPAK in TLA+

GEMPAK is a package of programs that decode, store, analyse and display
meteorological data: Fortran and C libraries (`src/gempak/source`), some 150
programs over them, and bundled third-party libraries (`src/extlibs`). This
directory holds TLA+ models of the parts of it that keep state over many steps,
the TLC runs that check them and the TLAPS proofs about them.
`PROJECT.json` maps every definition to the lines it translates.

## 1. Inventory

### The system's parts

**DM, the data management library** (`gemlib/dm`). Every grid, surface and
sounding file is a DM file: a direct-access file of 128-word records with a
label, a *data management record* (next free word and a list of at most 62 free
blocks), key and part descriptions, row and column headers, a table of data
pointers indexed by row, column and part, and a data area of blocks, each a
length word followed by data. State: common blocks (`dmcmn.cmn`) for up to
MMFILE open files, with a cache of eight records shared by all files; the file
itself. Operations: create, open, close, change access; write, overwrite, delete
data; write, delete, search headers; delete by search conditions. Callers: GD
(grids), SF (surface), SN (soundings), through which all programs go. Hard
behaviour: space is reused, so that a mistake shows as corruption of *another*
slot much later; a program may die between any two record writes; files may be
shared; the cache may be stale.

**FL** (`gemlib/fl`): units, opening, direct-access reads and writes. A pool of
ten unit numbers.

**DC, the decoder bridge** (`bridge/dc`). Decoders read bulletins from a pipe
that the LDM writes. `dcb.c` is a ring buffer, `dcgbul.c` a state machine that
finds WMO and AFOS bulletins in it, the `dcf*`/`dcos*` routines keep the output
files open, `maxfil` of them at a time. Hard behaviour: bulletins are cut anywhere
by reads, wrap around the ring, and meet time-outs, the end of data and a full
ring; the list of output files is full, a file does not open when another was
closed for it, or is not of the kind expected and gets another name.

**The format decoders** (`bridge/??`): text to numbers, one bulletin at a time.

**The plot subsystem**: `appl` (the calls programs make), `gplt` (a process or
linked library that clips and transforms), `gpltdev`, `device` and `driver`
(device processes). They exchange buffers over System V message queues
(`syslib`). Hard behaviour: start-up handshake, lost or leftover messages,
processes that die.

**VGF and product generation** (`cgemlib/cvg`, `crg`, `cds`, `cap`, `cmd`;
`programs/gui/nmap2`): a file of variable-length elements with delete flags, an
in-memory range table by element, layers and undo. Hard behaviour: the undo steps
share a ring whose bookkeeping is spread over a dozen editing functions.

**Analysis and computation** (`diaglib`, `prmcnvlib`, `oalib`, `griblib`,
`gridlib`, `textlib`, `awlib`, `vflib`, ...): mostly functions of their input.

### What would make each correct

| part | correct when |
|---|---|
| DM space | no word has two uses; the free list is exactly the unused runs, largest first; only the smallest block is ever dropped |
| DM data | the file is a map from slots to data; a write shows when its pointer is written and touches no other slot; a crash leaves at worst the slot being written damaged |
| DM headers, searches | a search visits each matching row/column once; nothing remains under a deleted header |
| DM access, cache | a file number is free or the program's; a record is in the cache once, and is on file or marked; a program reads what it wrote, whatever the cache holds and whatever failed |
| DC ring and scanner | the bulletins delivered are those in the byte stream, whatever the sizes of the reads; no byte is overwritten before it is scanned; the decoder waits no longer than its time-out |
| DC output files | a decoder writes to the file it asked for; the file opened first gives way; no unit is lost |
| plot processes | each request gets its own reply; a program finds out that `gplt` is dead and replaces it; every program ends |
| undo, redo | they walk along the states the drawing has had, in order, and never outside the ring |
| VGF, CRG | the range table agrees with the file |

## 2. Modules

| module | models |
|---|---|
| `DMSpace` | the lists of blocks and the routines on them, as pure operators |
| `DMPool` | allocation and freeing in any order, against the set of blocks in use |
| `DMStore` | what a DM file promises: a map from slots to data (abstract) |
| `DMFile` | one file: every routine that writes data, deletes data or changes headers, one action per record written, with crashes |
| `DMFileCut` | `DMFile` with a history variable, for crashes in replacements |
| `DMWords` | what a program may rely on of the words of its files (abstract) |
| `DMCache` | the cache of records and the file numbers of one program, with failures and crashes |
| `DCBuffer` | the ring buffer of a decoder, as operators and the actions on its pointers |
| `DCBulletin` | `DCBuffer` composed with the feed, the reads and the search of `dc_gbul` |
| `DCOpenFiles` | a decoder's output files as a queue (abstract) |
| `DCFiles` | the list of open output files with its ages, `dcfcyl.f`, and the routines that open them |
| `PlotQueue` | programs run one after the other, `gplt`, the queue and the semaphore between them |
| `PGHistory` | what UNDO and REDO promise: a walk along the states of the drawing (abstract) |
| `PGUndo` | the ring of undo steps, `nmap_pgundo.c`, and the ways the editing functions use it |
| `DMSpaceProofs`, `DMPoolProofs`, `DMFileProofs` | lemmas and theorems about space, the pool and files |
| `DMCacheProofs` | the invariant of the cache; that `DMCache` implements `DMWords` |
| `DCBulletinProofs` | lemmas and theorems about the ring and the scanner |
| `DCFilesProofs` | the invariant of the list of files; that `DCFiles` implements `DCOpenFiles` |
| `PlotQueueProofs` | the invariant of the queue, the semaphore and the processes; what they wait for and that they come to rest |
| `PGUndoProofs` | the invariant of the ring of steps; that `PGUndo` implements `PGHistory` |
| `MC*` | small instances for TLC |

`DMFile` and `DMPool` extend `DMSpace`; `DMFile` implements `DMStore` through
`Store == INSTANCE DMStore WITH ...`, and so do `DMCache` (`DMWords`), `DCFiles`
(`DCOpenFiles`) and `PGUndo` (`PGHistory`). `DCBulletin` extends `DCBuffer`. Each
`*Proofs` module extends the module it is about, and no module with a theorem
reaches a recursive operator: recursion is written as a function.

An operator whose name begins with `Bug` is the definition after it with a
mistake that the code could have had. Nothing uses it: put in its place, it
breaks the property named in section 6, which shows that the property can see
that mistake.

## 3. How the models correspond to the code

### DM

| in the model | in the code |
|---|---|
| `mem.next`, `mem.free` | `kpnext`, `knfree` and `kfreew` of `DMDMGT` in memory |
| `disk` | the same words in the data management record of the file |
| `ptr[s]` | the word of the data pointer table for (row, column, part) |
| `word` | the words of the data area |
| `rows`, `cols` | the headers whose first word is not `IMISSD` |
| `pc`, `cur` | the call under way and its locals `istart`, `length`, the data |
| `dels`, `scratch` | the search of `DM_DALL`, and `kscrch` with `msspce` |

A list `[n, b]` is an array with its counter. `AddBlock` is `DM_AFRE` and, word
for word the same code, `DM_ASPC`: find the neighbours, eliminate them, the later
one first, put the sum in its place by length, and let a full list lose its
last entry. `GetSpace` is `DM_GSPC`.

Each action ends with at most one record written, and what a routine changes in
memory before a write changes in the same action:

| actions | routine |
|---|---|
| `Overwrite`, `Allocate`, `WriteLength`, `WriteBody`, `WritePointer` | `DM_WDTR`, `DM_WDTI`, `DM_WDTC`, `DM_WGB2` with `DM_WINT` |
| `Unlink`, `FreeBlock` | `DM_DDAT` |
| `DeleteAll`, `UnlinkNext`, `DeleteHeader`, `FreeScratch`, `WriteSpace` | `DM_DALL`, `DM_DELT`, `DM_DRWH`, `DM_DCLH`, `DM_WSPC` |
| `WriteRowHeader`, `WriteColHeader`, `DeleteColHeader` | `DM_WRWH`, `DM_WCLH`, `DM_DCLH` from `GD_DGRD` |
| `Crash` | the program dies; the next one runs `DM_OPEN`, `DM_RDMG` |

Reading (`DM_RDTR`) changes nothing and is the operator `Content`, which is also
the refinement mapping. Abstracted: which key values a header holds; what data
says (every word of a datum is one value, so that words of two data show as
`Torn`); the data header, which is part of the data. A record reaches the file
whole and in the order of the writes.

`DMCache` is the layer below: where the words are before they are on file.

| in the model | in the code |
|---|---|
| `kcflno`, `kcrecn`, `kcdata`, `kwrite`, `kclast` | the same names: file number, record, content, write flag of each place; the place taken last |
| `lundm`, `wflag` | the same names; `lundm[f]` is the file instead of its unit |
| `disk` | the files, record by record; `Absent` is a record beyond the end |
| `held` | the file numbers the program was given and did not close |
| `got` | what the last call read |
| `hurt` | not in the code: the records on which a call failed, and those that waited when `DM_CHNG` took the access away |

| actions | routine |
|---|---|
| `Read` | `DM_RINT`, `DM_RFLT` through `DM_RREC` and `DM_NXTC` (`Fetch`, `Evict`) |
| `WriteInt`, `WriteFlt` | `DM_WINT`, which writes the record at once; `DM_WFLT`, which marks it |
| `Flush`, `Close`, `Change` | `DM_FWRT`, `DM_CLOS`, `DM_CHNG` |
| `Open`, `Create` | `DM_OPEN` with `DM_GETF`, `DM_RLBL`; `DM_CRET` up to its first write |

`FL_READ` (`Hurt`) and `FL_WRIT` (`Put`) may fail at any call. Of the program the
model assumes what its callers do: it uses only file numbers it was given, and
opens no file twice. A call for several words is a sequence of calls for one.
Abstracted: the words (a set of those written as integers and one of those
written as reals, which may overlap), translation from other machines.

### DC

| in the model | in the code |
|---|---|
| `ring`, `nxtfeed`, `nxtpeek`, `bhead` | `sbuf` and the pointers of `dcb`, as offsets |
| `Size` | `DCMXBF` |
| `fed` | how many bytes have been read; a byte in `ring` is its number in the input |
| `feed`, `sent`, `closed` | external: what the LDM writes, and has written |
| `fstate`, `ifdtyp` | the static `finite_state`; `ifdtyp` of the caller |
| `nline`, `nchar` | the local counters of `dc_gbul` |
| `pc` | where `dc_gbul` is: out of a call, before the read, before the second read, scanning |
| `bulls` | the bulletins returned, each as the numbers of its bytes |

`Put`, `PutMore`, `Timeout`, `ReadFails` and `Overflow` are the exits of
`dcb_put`; a read is a step of its own, so that the feed may write between two.
`SeekHeader`, `FindHeader`, `InBulletin` and `Deliver` are the cases of the
switch in `dc_gbul`, each together with the `dcb_peekc` before it and the
`dcb_sbhd`, `dcb_sbtl` and `dcb_getb` it calls. `nline` and `nchar` are not
initialised by a call: `nline` starts below or above the number it is compared
with, `nchar` as zero or not. `HeadLines` is 3 in the code; the
runs use 1, which shortens the bulletins and changes nothing else.

`DCFiles` has the list of `dcfcyl.cmn` as it is (`filopn`, `lunopn`, `numopn`),
and the file open on each unit (`unit`); `lost` are the units that `DM_OPEN` has
left open, `iftype` the kind of files, one for the life of a decoder. `Match`,
`OpenUnused` and `ReplaceOldest` are the three ways through `DC_FCYL`, `CloseAll`
is `DC_FCLS`.

| operator | routine |
|---|---|
| `OpenSurface` | `DC_OSFC`, `DC_OSHP`, `DC_OSFR`: open the file, or create it |
| `OpenUnmerged` | `DC_OSND`: the same, but a merged file is closed and the file with an A at the end of its name (`Plus`) is created |
| `OpenMerged` | `DC_OSNM`: the same, but an unmerged file is closed, and its unit returned, closed, under the name with the A |
| `Success`, `Failure` | `SF_OFIL`, `SN_OFIL` with `DM_OPEN`: the lowest free unit; or no file, with its unit given back or, for a file of a foreign machine, left open |
| `Closed` | `SF_CLOS`, `SN_CLOS`, which do not know the units in `lost` |

Each gives the set of what an opening may come to (`Result`), since the files on
the disk are not the decoder's alone: what is found under a name, and whether
another can be created, is any choice. `DC_FCYL` lists the name as the routine
has changed it. `stale` is not in the code: `DC_OSNM` has given a closed unit.

### Plot processes

| in the model | in the code |
|---|---|
| `mq`, `sem`, `free` | the message queue and semaphore found by the key of the terminal, and whether the semaphore is 1 |
| `toGplt`, `toApp` | the messages of type 1 and 2 on each queue, in order |
| `pc`, `mbchan`, `smchan`, `req` | the program: where it is in CCHECK, CSPROC, GPUT and GGET; its channels; what it asked last |
| `gplt[g]` | the process `gplt` that program `g` started: where it is in its main loop, its channels, the request in hand |
| `taken` | not in the code: what was taken for the last answer |
| `upset` | not in the code: a death, or impatience of `ccheck`, did harm of a kind listed at `KillHarms` |

| actions | routine |
|---|---|
| `Queue`, `Lock`, `Test`, `Poll`, `GiveUp` | `ccheck`, with `cgetmq`, `csfree` |
| `Install`, `Fork` | `csproc` |
| `Ask`, `AskMore`, `Receive`, `End`, `NothingToEnd` | GINITP, GPUT, GGET, GENDP, GPEND |
| `Attach`, `Lookup`, `Grab`, `Stop` | `ciproc` and `csgrab` in `gplt` |
| `ReadFirst`, `ReadMore`, `Serve`, `Leave` | GGETB, GPUTB and the main loop of GPLT |
| `Begin`, `Kill`, `Die` | the user runs a program; a program or a `gplt` dies |

A message carries who asked and for what, which the code's messages do not: the
processes in the model look at it only where the code looks at the function code.
Nothing bounds how long `ccheck` waits against how long `gplt` works, so
`GiveUp` may happen whenever no message is there.

### Undo

`undoAddItms`, `undoDelItms`, `curStep`, `totalUndo`, `totalRedo` are the statics
of `nmap_pgundo.c`, with the names they have there; `undoBtn`, `redoBtn` whether
the palette lets the user undo or redo. An element is its place in the file, so
that a set of elements is a list of locations; `shown` are the elements not
marked deleted. `Edit` is an editing function that calls `pgundo_newStep`,
`pgundo_storeThisLoc` and `pgundo_endStep`, with any elements deleted and added;
`Unfinished` and `EndAlone` are those that leave out one of the calls; `Undo`,
`Redo`, `Reset` are `pgundo_undo`, `pgundo_redo`, `pgundo_initUndo`. `EndAlone`
may be the first edit of all: UNDO is then on though no step is done, and
`pgundo_undo` uses -9999 as an index (`UndoNothing`). What memory it reads and
writes then depends on the build; the program is not followed further (`astray`)
until the undo steps are begun anew. `loose` is not in the code: the elements that
a full list, or a missing call, has kept off the record.

## 4. What the runs check

**file_crash** (`MCDMFile`; one row, two columns, seven words, records of two
words, lists of two pairs; crashes, no replacement by another length). Does any sequence of writes, overwrites,
deletions and mass deletions, cut off anywhere, give one word two uses?
`NoOverlap` looks at the blocks in place, the block in hand and both lists, in
memory and on file; `PointersBelowNext` at the order of the space record and the
pointer; `ListsWellFormed` at what `DM_GSPC` relies on; `Refinement` at what a
reader gets. Two slots, blocks of two and three words and a hole between them are
enough for every way in which a block can touch, split or fill a free one; seven
words leave room for a block lost by a crash. The data values 1 and 4 are also
lengths, so that a pointer to a wrong word is read as a length.

**file_resize** (`MCDMFile`; two rows, two columns, lists of *one* pair, no
crash, fairness). Data is also replaced by data of another length; with one pair
per list nearly every free meets a full list. `LostIsSmallest` states that what
is dropped is no larger than anything kept; `NoOrphans` relates data to headers
through mass deletions by row and by column; `CallsReturn` is liveness.

**file_cut** (`MCDMFileCut`). Crashes and replacements together. A crash between
the freeing of the old block (which `DM_GSPC` puts on file) and the new pointer
does leave a pointer to free words. `SoundUntilCut` states that this is the only
such place: until a crash falls there, everything in `NoOverlap` and
`ListsWellFormed` holds. States after such a crash are not explored further
(CONSTRAINT `Uncut`), nothing being claimed of them.

**pool** (`MCDMPool`; eleven words, blocks of one to three, room in the list).
Is the free list exactly the set of maximal runs of unused words (`ListIsRuns`),
and does an allocation take the tightest run and grow the file only when none
fits (`TakesTightest`)? Up to six runs at a time, in every order.

**bulletins** (`MCDCBulletin`; a buffer of 14 bytes, feeds of two bulletins with
junk, an empty line, a third CR, a ^C in the header, a false header before a true
one, an AFOS bulletin with a line end followed by text, and text that overflows the
buffer; every way of cutting the feed into writes). The second bulletin always lies
across the end of the ring. `RingIntact`: no byte that is still wanted is
overwritten. `Faithful`: the bulletins are those that lie in the feed, told without
a scanner: each begins at the first header after the end of the one before it, so
that none is passed over, and goes up to its first end. Of an AFOS bulletin this is
said as far as the states allow: it does not go past a plain end (`ClearEnd`), and
one in which nothing makes them swallow an N or take a ^C for the end (`Clean`)
ends at its NNNN. `WholeBulletins`: each is one stretch of the input from a header
to an end, and none has a byte of another, whatever the feed holds. `NothingLeft`: a
decoder that stops for want of input has had every bulletin that is complete in
what it has read. `Stops`: it ends after the feed has.

**output_files** (`MCDCFiles`; a list of three, four units, four files; surface
files, unmerged and merged soundings). `Ages`: the ages are a numbering without gap
or repetition, on which the search for the oldest relies. `ListIsUnits`: no unit is
open that is neither in the list nor left by `DM_OPEN`; and each entry has its file
open on a unit of its own. `WritesToItsFile`: the unit given is that of the file,
or of the one `DC_OSND` made in its place. `OldestGivesWay` (refinement of
`DCOpenFiles`): which name is taken off the list, and when. The second part of
`ListIsUnits` and `WritesToItsFile` are claimed until `DC_OSNM` gives a closed unit
(section 7 tells what may follow); the run goes on after it, with the ages and the
queue still checked. Four files make every file come back after it was closed for
another; a fourth unit is there to be lost, or to show that the entry and the unit
are not the same thing. The files are interchangeable (SYMMETRY).

**record_cache** (`MCDMCache`; two files of two records and one, a cache of two
places, one word that is written both as an integer and as a real). With three
records for two places each record pushes out each other. The second file is of a
foreign machine, so that an opening is refused. `OneCopy`, `CleanIsWritten` and
`WaitsWithAccess` are what `DM_RREC`, `DM_NXTC` and `DM_FWRT` take for granted;
`NumbersReturn` is about `DM_GETF`; `ReadsWhatItWrote` (refinement of `DMWords`)
is the purpose of it all. `MaxHurt` is 1: one record spoiled at a time is enough
to ask whether the harm spreads; the theorems of section 5 have no such bound.

**plot_queue** (`MCPlotQueue`; four programs one after the other, requests of one
or two packets, two deaths). One program leaves something behind, the second
meets it, the third what these two left. `OwnReplies`: no reply is taken for
another, though messages have no number. `OneReader`: one `gplt` reads a queue.
`DeadIsFound`: a semaphore held by nobody is not taken for a living `gplt`.
`Returns` and `QuitLeavesNothing` are liveness. The deaths after which the code
does go wrong are listed in the module at `KillHarms`, `DeathHarms` and `GiveUp`;
the model stops there, and the properties say that there are no others. Deadlock
is not checked: the number of programs is bounded, and a program whose `gplt`
dies under it waits in GGET for ever, which `Returns` states.

**undo** (`MCPGUndo`; a ring of three steps, lists of two, up to three elements).
Enough to go round the ring, to undo some steps and overwrite them, and for a
list to overflow. `RingHolds`: undo and redo steps never overlap, the buttons tell
what the counters say, and REDO is on only with a step done last; of UNDO this is
not so (`EndAlone`). The refinement `WalksTheHistory`: UNDO and REDO go through the
states the drawing has had, up to an undo with no step done.

Three runs each check one statement of the documentation or a comment, and find
it violated by what the code does:

- **bulletins_silence** (`TimesOut`): `dcb_put` calls `select` once and may read
  twice. When the first read ends exactly at the end of the buffer and had all
  there was, the second waits without the time limit of `-t`.
- **bulletins_fourn** (`EndsAtFourN`): after CR CR LF the state is the one that
  waits for ^C, where an N is any other byte. A line NNNN counts as three N and
  the bulletin goes on through the next one.
- **bulletins_long** (`EndIsEnd`): with the head at the beginning of the buffer a
  full buffer is not recognised; the read asks for 0 bytes and its 0 is reported
  as the end of the input (-9), not as an overflow (-7).

**Fairness.** In `DMFile`, weak fairness of `Step`: nothing in DM waits for
another party, so a call under way runs on; requests and crashes are never
required. In `DCBulletin`, weak fairness of `Running`: the decoder takes a step
whenever it can. A read that waits on an empty open pipe cannot, the feed need
never write or close, and no read has to fail. In `PlotQueue`, weak fairness of
the program under way and of each `gplt`: they are processes, and the operating
system lets each run on when it can. It cannot while it waits for a message or
the semaphore. No user need run a program, and nothing need die. The runs of the
scanner do not look for deadlock, because the decoder really stops (after any
error of `dc_gbul`), nor does `plot_queue`; the others do.

## 5. What is proved

Every theorem holds for every value of the constants that satisfies the named
assumption of its module (`DMFileAssumption`: positive sizes, `First =< MaxWord`;
`DMPoolAssumption`: positive sizes and lengths, and a free list that is longer
than the file has data words, so that it never loses a block;
`NamesAssumption`: the names for no data, spoiled data and no call are no data;
`DMCacheAssumption`: positive sizes, 0 among the values, `Absent` and `Closed`
told apart from the rest; `DCBufferAssumption`: `Size >= 4`, a buffer that can
hold the four bytes of a header; `DCBulletinAssumption`: feeds are
finite, the seven bytes that mean something to the search differ, a header has a
line;
`DCFilesAssumption`: at least one entry, any number of units, and no file asked
for whose name is blank or that of another with an A at its end;
`PlotQueueAssumption`: at least one program and one packet, any number of deaths;
`PGUndoAssumption`: a ring and lists of at least one place).

**Space and files.** The theorems of `DMSpaceProofs` are about one call on any
list; those of `DMFileProofs` about a file of any shape. Where nothing else is
said, they hold with and without crashes and replacements.

- **`TypeCorrect`** (`DMFileProofs`): `Spec => []TypeOK`. `TypeOK` says more than
  types: every list fits its array, every pointer is a word of the data area,
  the write under way stays inside its block. Inductive invariant: `TypeInv`,
  that is `TypeOK` and the order of the three lists. The part that needs an
  argument is that the loops find an entry where one exists: a least element of a
  set of naturals (`LeastNat`), obtained from the well-founded order on the
  subsets of a finite set, not by induction over a list.
- **`ListsInOrder`**: the lists stay in order of decreasing length through every
  merge, split and drop. It rests on **`AddBlockList`** and **`GetSpaceList`**
  (`DMSpaceProofs`), which say this of one call, for any list.
- **`BestFitSmallest`**: in such a list the last entry that fits, which the code
  takes, is the smallest that fits.
- **`AddBlockWords`**, **`GetSpaceWords`**: the routines on a list of entries that
  do not touch (`Separate`) return such a list, with no words but those of the
  list and the block. The argument is about `Follower` and `Preceder`: at most one
  entry ends where the block begins and one begins where it ends (`Neighbours`),
  the merged block spans exactly the three (`MergedSpan`) and touches no other
  entry (`MergedApart`).
- **`AddBlockLoses`**, **`GetSpaceLoses`**: no words are lost but from a full list,
  and then those of one block, no longer than any entry that was in the list.
- **`SoundUnlessCut`**: `CutSpec => []SoundUntilCut`. Programs may die at any write,
  as often as they like; until a replacement is cut off no word has two uses,
  the lists are well formed and the pointers below `kpnext`. Inductive invariant:
  `TypeInv /\ (cut \/ Sound)`. `Sound` adds to the three properties what ties
  memory to file between the writes of a call: the two spaces differ only while
  the scratch list is freed, and never in `kpnext`; the scratch list is empty but
  in a mass deletion and its entries do not touch; blocks in hand are below
  `kpnext`; and the length word of the block in hand is on file once it is
  written. Without the last, a pointer could be written to a block of another
  length. `NoOverlap` is not inductive without the others. One lemma per action.
- **`NoWordUsedTwice`**, **`ListsAreWellFormed`**, **`BlocksBelowNext`**: the three
  properties for `DMFile` itself, if programs do not die or data keeps its length
  (`~(CanCrash /\ CanResize)`, as in the runs). The assumption is needed: a
  replacement frees the old block on file while its pointer still stands, and
  a crash then leaves a block that is both free and pointed to.
- **`FileIsStore`**: `Spec => Refinement`, under the same assumption. `DataInv` says
  what has been written of the block in hand: every word up to `cur.at` is that
  of the call. The slots that are held show the same data after a write
  (`HeldShown`), because what is written is in hand and nothing in hand is held.
- **`NothingLeftBehind`**: `Spec => []NoOrphans`. The invariant adds that data is
  being written under defined headers.
- **`LossIsSmallest`**: `Spec => LostIsSmallest` if programs do not die. Besides
  `Sound` it needs `LenInv`: data in place has a length that is not zero, or a
  replacement, which takes a length of zero for no data, would drop its block.
- **`CallsAreFinite`** (`DMFileProofs`): the steps left of a call are a number that
  every step makes smaller and that is zero just between calls, and in a call there
  is always a step to take: what `CallsReturn` rests on. `CallInv` adds that a mass
  deletion that goes on has a header to delete.
- **`InUseApart`** (`DMPoolProofs`): `Spec => []BlocksApart`, for blocks taken and
  given back in any order. Alone it is not inductive: a block is taken from the
  list, which must not hold words in use. `PoolInv` says that the words in use
  and those in the list are apart and together all words below `kpnext`
  (`Partition`), and that the list is well formed and in order.
- **`ListIsTheRuns`**: `Spec => []ListIsRuns`. Entries that do not touch are no more
  than the words they lie among (`ListShort`, by an injection), so that the list of
  `DMPoolAssumption` has room; then a maximal run of unused words is one entry,
  and an entry a maximal run.
- **`TakesTheTightest`**: `Spec => TakesTightest`, an action property: it joins
  `ListIsTheRuns` and `BestFitSmallest`.

**Decoders, cache, output files.**

- **`NothingOverwritten`** (`DCBulletinProofs`): `Spec => []RingIntact`. The
  distance from one place to another going round is `Span`; what is wanted is the
  stretch of `Wanted` bytes after the head. Each operation on the ring has one
  lemma (`FillKeeps`, `ScanKeeps`, `ScanHeadKeeps`,
  `ScanTailKeeps`). `RingIntact` alone is not inductive: when a header is found
  the head goes back three bytes, and they must still be there. The invariant
  `Inv` therefore says that the search, when it is `Depth` bytes into a header,
  has scanned at least as many since the head; and that a second read is made
  only with the head past the beginning, where it stops short of it.
- **`BulletinsAreWhole`**: `Spec => []WholeBulletins`, for every feed, with whatever
  in it. On top of `Inv` (which gives **`BulletinsConsecutive`**: `BulletinBytes`
  shows that the copy of `dcb_getb`, in one part or in two, is the stretch of input
  from the head to the tail, and all delivered bytes lie before the head), `ScanOK`
  says what the state of the search tells of the bytes before it: which part of a
  header (`SeenHead`) or of an end (`SeenTail`) they are. In a WMO bulletin the
  converse is needed too, since its end must be the first: `Counted` ties `nline`,
  up to where it stops counting, to the number of lines with text, `nchar` to
  whether there is text in this one, and says that no end has come yet.
  `TextStep`, `LinesStep` and `CountStep` are about sequences of bytes and say how
  these grow with one more. Nothing is said of `nline` outside a WMO bulletin, where
  it is whatever was on the stack.
- **`BulletinsAreThose`**: `Spec => []Faithful`, for every feed. To what is
  delivered, `FaithInv` adds what is not: as long as the decoder looks for a header
  (`PlaceInv`), its state says which header the last bytes are the beginning of and
  that no header has begun before them (`Search`, read both ways round: a state
  that forgets one, or remembers one that is not there, would miss the next); in a
  bulletin, that it began at the first header and has not met its end. Which ^A are
  headers is the recursive function `Taken`; that it is what its equation says is
  shown by the least place where it would not be (`LeastNat`).
- **`NoneIsLeft`**: `Spec => []NothingLeft`. `ReadInv` says that the decoder reads,
  and stops for want of input, only when every byte has been scanned; what the
  search says of the bytes before its place then holds of all that was read.
- **`StepsAreNumbered`**: what the decoder still has to do, `StepsLeft` (five for
  each byte not read, two for each not scanned, and the place in the loop), is a
  number that every step of the decoder makes smaller and no step of the feed makes
  larger: what `Stops` rests on. It needs that nothing scanned is kept between two
  bulletins (`LeftInv`): `dc_gbul` then reads only into an empty buffer, and with
  scanned bytes left in it would go round in its loop without reading.
- **`DecoderTypes`**: `Spec => []TypeOK` for the decoder.
- **`CacheIsTransparent`** (`DMCacheProofs`): `Spec => ReadsWhatItWrote`, the
  refinement of `DMWords` by `DMCache`: a program reads what it wrote, for any
  number of files, records and places. What a program sees of a record is its copy
  in the cache or, without one, the record on file (`SeenFacts`). The core is
  `OthersStay`: when `DM_RREC` takes a place, the record that loses it shows as
  before, because it was on file or is written now, or is spoiled. Then one lemma
  per routine maps its step to a step of `DMWords` (`ReadWords`, `WriteWords`,
  `FlushWords`, `CloseWords`, `OpenWords`, `CreateWords`, `ChangeWords`,
  `CrashWords`).
- **`RecordsHaveOneCopy`**, **`CleanPlacesAreWritten`**, **`WaitingHasAccess`**,
  **`NumbersComeBack`**, **`CacheTypes`**, the invariants it
  rests on, proved together: `CleanIsWritten` alone is not inductive, since a
  second copy of a record could be the newer one, and a record could be written
  under a number that is not its file's. `Inv` adds that a file has one number
  (`OneNumber`) and that a cached record is within its file (`InFile`).
  `FetchFacts` says once what a fetch leaves behind; `AccessInv` takes reading and
  both kinds of writing together as one step.
- **`ListIsQueue`** (`DCFilesProofs`): `Spec => OldestGivesWay`, the refinement of
  the queue `DCOpenFiles` by the list with ages, for all types of files and whatever
  their opening comes to: a listed name is that asked for or the one made of it.
  That a free entry has a free age, and that a full list has a file of age 1, are
  counting arguments (`RoomForAge`, `FullList`). **`AgesNumberFiles`** and
  **`FilesTypes`** are part of the invariant.
- **`UnitsAreListed`**, **`GivenUnitIsFile`**: `Spec => []ListIsUnits`,
  `Spec => []WritesToItsFile`. That no unit but a lost one is open without an entry
  needs that the entry whose file is closed is the only one of age 1; that each
  entry has its file open, until `stale`, that an opening takes a free unit and
  changes no other.

**Plot processes.** For any number of programs run one after the other, requests
of any number of packets, and any number of deaths at any point.

- **`RepliesAreOwn`** (`PlotQueueProofs`): `Spec => []OwnReplies`; **`ReadsAlone`**:
  `Spec => []OneReader`; **`FindsTheDead`**: `Spec => []DeadIsFound`; **`TypesPlot`**:
  `Spec => []TypeOK`. Messages bear no sender, so that none of the first three is
  inductive. The invariant is `PlotInv == TypeOK /\ (~upset => Core)`: what `Core`
  says is claimed until one of the five harms of `upset` is done. It rests on
  three thoughts.
  - The semaphore tells which `gplt` serves: its number is that of the only one
    that reads the queue or is about to, it is free as long as that one starts and
    held as long as it reads (`GpltOK`, `SemOK`).
  - What a program has asked and not read the answer of is in exactly one place: on
    the queue, in the hands of the `gplt` that serves, or among the answers. There
    is one formula for each place a program waits at (`FoundOK`, `MoreOK`, `AckOK`,
    `WaitOK`, `NextOK`).
  - What programs that were killed have left is cleared by `CCHECK`, which does so
    only when the semaphore is held; so when it is free, or its `gplt` has ended,
    there must be nothing (`OutsideOK`).
- From the same invariant, one lemma per action: `CSGRAB` does not fail while
  nothing is upset.
- **`NoEndlessTalk`**: every step brings the program nearer to its end (`Program`), or
  leaves it where it is and brings the `gplt` processes and the queue nearer to rest
  (`Plot`), or begins the next program. A packet counts three and a reply one, which
  pays for what `gplt` does with a packet; the places of all processes are counted
  as the members of one set (`Ladder`), for which `LadderStep` says what a step of
  one process does to the sum.
- **`NobodyStuck`**: `Spec => []WaitsForTheDead`. When neither the program nor any
  `gplt` can go on, no `gplt` lives: GGET waits for ever only for a process that has
  died. It is `AckOK` and `WaitOK` that say so: what is not answered is still on the
  queue or in the hands of the one that serves.
- **`LeavesNothing`**: `Spec => []EndsClean`. When `gplt` has been ended and all has
  come to rest, queue and processes are gone, and the semaphore unless something
  died. `RestInv` adds that without a death the semaphore is that of a living
  `gplt`, and that the queue of a program that has ended is gone or its own.
- These three are what `Returns` and `QuitLeavesNothing` rest on.

**Undo.** For a ring of any length, lists of any length and any number of elements.

- **`RingNeverOverlaps`** (`PGUndoProofs`): `Spec => []RingHolds`, though
  `pgundo_undo`, `pgundo_redo` and the functions that leave out a call never look
  at the size of the ring; also where the first edit ends a step that was not
  begun, since what comes next is then a step or `UndoNothing`; and **`UndoTypes`**, which needs that every element on
  record is in the file.
- **`UndoIsHistory`**: `Spec => WalksTheHistory`, the refinement of `PGHistory` by
  `PGUndo`. The states UNDO and REDO would lead to are recursive functions, `Back`
  and `Ahead`. That they are what their equations say, and that those of two
  states agree, is shown by the least place where they would not (`LeastNat`,
  `WalkExists`, `SameWalk`). `BackOn`, `AheadOn`, `BackOff` and `AheadOff` say how a
  walk changes when a step is put before it or taken from it, `Around` and
  `RoundAndBack` that places of the ring that differ stay apart. `Inv` is not
  enough: a step undone and redone leads back only if it really added what it
  lists as added and took away what it lists as taken away. `Fits` says so of
  every step in the ring, at the state it was or will be done in, but for the
  elements in `loose`, that were not recorded rightly. One lemma per action.

Only model-checked: the four liveness properties, `CallsReturn`, `Stops`, `Returns`
and `QuitLeavesNothing`. What they rest on is proved: that the steps of a call, of
the decoder, of programs and `gplt` are bounded by a number that falls
(`CallsAreFinite`, `StepsAreNumbered`, `NoEndlessTalk`), and what is so where none
can be taken (`CallsAreFinite`, `NobodyStuck`, `LeavesNothing`). The step from there
to liveness is about ENABLED and weak fairness, which is out of the prover's reach:
that the conditions under which the theorems let a process go on (`GoesOn`,
`AppGoes`, `GpltGoes`) are those under which its action is enabled can be read off
the guards, and is not a theorem.

## 6. The mistakes the properties can see

| run | property | is broken by |
|---|---|---|
| file_crash | `TypeOK` | `BugRecordEnd`: the record of a word ends one record early |
| | `NoOverlap` | `BugAllocate`: the space record is not written with the allocation |
| | `PointersBelowNext` | `BugGetSpace`: `kpnext` is one word low |
| | `ListsWellFormed` | `BugPreceder`: a block is not merged with the one before |
| | `Refinement` | `BugWriteLength`: the pointer is written before the data |
| file_resize | `NoOverlap` | `BugUnlinkNext`: mass deletion does not blank the pointer |
| | `NoOrphans` | `BugVictims`: the loop over columns stops one short |
| | `LostIsSmallest` | `BugAddBlock`: a full list takes nothing |
| | `Refinement` | `BugWriteBody`: only the first record of the data is written |
| | `CallsReturn` | `BugDeleteHeader`: the same header is taken again |
| file_cut | `SoundUntilCut` | `BugAllocate` |
| pool | `ListIsRuns` | `BugPreceder` |
| | `BlocksApart` | `BugGetSpace` |
| | `TakesTightest` | `BugBestFit`: the first entry that fits is taken |
| bulletins | `TypeOK` | `BugSucc`: the pointer is not brought round |
| | `RingIntact` | `BugTryRead`: the place kept empty is forgotten |
| | `Faithful` | `BugBulletin`: the second part is copied one byte late |
| | `WholeBulletins` | `BugFindHeader`: the counters are not reset |
| | `NothingLeft` | `BugRestart`: a ^A within a false ZCZC is not taken |
| | `Stops` | `BugTop`: the pipe is read only when the buffer is empty |
| output_files | `TypeOK`, `Ages` | `BugReplaceCounts`: the others grow older only when the new file opens |
| | `ListIsUnits` | `BugOpenUnmerged`: the merged file stays open when another is made in its place |
| | `WritesToItsFile` | `BugReplaceKeeps`: the entry keeps name and unit when the new file does not open |
| | `OldestGivesWay` | `BugMatch`: a file used again becomes the youngest |
| record_cache | `TypeOK` | `BugForget`: the places of a closed file are marked as its number is |
| | `OneCopy` | `BugKeep`: they stay under the number |
| | `CleanIsWritten`, `WaitsWithAccess` | `BugWriteFlt`: the place taken last is marked, not that of the record |
| | `NumbersReturn` | `BugOpen`: a file whose label cannot be read keeps its number |
| | `ReadsWhatItWrote` | `BugEvict`: a place is taken without being written |
| plot_queue | `TypeOK` | `BugReceive`: one packet too many is sent |
| | `OwnReplies` | `BugPoll`: any message is taken for a sign of life |
| | `OneReader` | `BugServe`: `gplt` ends with every program |
| | `DeadIsFound`, `QuitLeavesNothing` | `BugLeave`: the semaphore is released, not removed |
| | `Returns` | `BugGiveUp`: the semaphore of a dead `gplt` stays |
| undo | `TypeOK` | `BugAfter`: the step does not wrap around |
| | `RingHolds` | `BugEndStep`: the steps that can be redone stay when there is a new one |
| | `WalksTheHistory` | `BugSwap`: only one of the two lists is swapped |

## 7. Seen in the code while modelling

Besides the three runs above: what a model takes into account (said there), or
what lies outside the models.

DM:

- `dmopen.f:129`: the return with -32 keeps the file number. `NumbersReturn`
  states this exception.
- `dmrrec.f:61`: a record that cannot be read stays in the cache as blanks,
  valid: the next call reads them without an error. `hurt` records it.
- `dmrrec.f:46` drops the return code of DM_NXTC and `dmclos.f:34` that of
  DM_FWRT: a record lost there is reported on the terminal only.
- `dmwflt.f:161`: reals wait in memory, and only DM_CLOS, DM_CRET and the space
  routines flush them, so that the pointer to a block may be on file before the
  block (`dmwdtr.f:148`). The line that would make DM_WINT wait too is commented
  out (`dmwint.f:80`).
- `dmchng.f`: access is given up without a flush. The only caller that does so is
  `gdswrt.f:45`, which has no caller itself. After that and a closing, a record
  would be written for file number 0; the model lets it go to no file.
- `dmchng.f:64`: `.and.` binds before `.eqv.`, so that a request for shared write
  access to a file opened for reading is taken for one already granted.
- `dmdclh.f:41`, `dmdrwh.f:41`: position 0 passes the check for -9.
- `dmwdtr.f:128`: the return code of `DM_GSPC` is not looked at; `dmwdtr.f:133`:
  a failed write returns after the old block was freed.
- `dmnext.f:60`: a search in progress keeps its position while rows go and come.
- Shared files: neither the space record nor the cache is read again.

DC:

- `dcgbul.c:79`: the retry at the end of the data tests `(ier == EBEND) < 0`,
  which is never true. The model has no retry either.
- `dcgbul.c`: in the states of a header of the first kind a ^A does not begin a
  new one, so that the header in ^A CR ^A CR CR LF is missed, and its bulletin
  with it. The reference definition states this exception (`Taken`), and two of
  the junk texts of the run make it happen.
- The head only moves when a header is found, so that text before the first
  header stays in the buffer and counts against its size.
- `dcfcyl.f:84`, `:126`: for file type 6 the return code of FL_APND overwrites
  that of FL_SWOP, so that a file that did not open is listed with unit 0, and
  DC_FCLS leaves it there. Hence `DCFiles` is about the types 1 to 5.
- `dcosnm.f:65`: for file type 4, a file found to be unmerged is closed and the
  name given an A, but no file is made, as the comment above says and `dcosnd.f`
  does: the return code is 0 and the unit is closed. What may follow, with a list
  that gets full: f1 is found unmerged and listed as f1A with unit 1, which is
  closed; f2 is opened, on unit 1; f3 finds the list full and f1A the oldest, so
  that unit 1 is closed, which is that of f2, and f3 is opened on it; the next
  report for f2 finds f2 in the list with unit 1 and goes to f3. `dcprof` and `dcncprof` ask
  for this type, with a list of two. `ListIsUnits` and `WritesToItsFile` are claimed
  until this happens (`stale`).
- `dcosnd.f:59`: `mrgdat` has no value when SN_OPNR failed, so that another file
  may be tried in place of one that is bad (`OpenUnmerged`). `dcosnd.f:64` changes
  the name before it is listed: the next request for the merged file does not find
  it in the list, opens that file once more and tries to create the one with the A,
  which is there by then. That fails and the reports are dropped.
- `sfofil.f:48`, `snofil.f:53`: after the -32 of `dmopen.f:129` the file is open and
  its number known to nobody. A decoder that is asked for such a file again and
  again runs out of file numbers (`lost`).
- `dcfcyl.f:103`: the oldest file is closed by the routine for the type of the
  new one. When the file is in the list, the number of parameters is not set, and
  the callers keep the one before (`rddcod.f:310`, `scdcod.f:244`).

Plot processes:

- `ccheck.c:126` calls a `gplt` that does not answer dead; one that is busy for
  longer than the wait (some 1.3 s) does not answer either. It is one of the five
  harms at which `PlotQueue` stops.
- `ggetb.f:38`: on a queue that was removed `gplt` returns at once with the old
  request, for ever.
- `csproc.c:162`: if the program cannot be executed only the child knows, and the
  semaphore stays free with no process to take it.
- `ccheck.c` polls the semaphore by taking and releasing it, in two calls and
  without SEM_UNDO; `csend.c:62` drops a packet when the queue is full. Neither
  is in the model.

Undo:

- `nmap_pgfrom.c`: `_undoStep` is never given another value than IMISSD, so that
  the cases for it in `nmap_pgundo.c` are dead, and `pglayrw.c:638` resets the
  undo steps always, though the comment above it says otherwise.
- `nmap_pggfaw.c:2013`, `nmap_pggfawp.c:2377`, `nmap_pgccfw.c:851`,
  `nmap_pgaddpt.c:115`, `nmap_pgmdfy.c:449`: a new step is not ended, and the
  steps that could be redone are shifted by one (`Unfinished`).
- `nmap_pgconn.c:387`: a step is ended that was not begun (`EndAlone`). When this
  is the first edit, UNDO is on with `_totalUndoSteps` 1 and `_curStep` -9999, and
  `pgundo_undo` uses that as an index (`nmap_pgundo.c:335`). The model goes up to
  that undo (`UndoNothing`).
- `pgsymb.c:2314` undoes without asking whether there is anything to undo.
- The -1 of `pgundo_storeThisLoc` is ignored by all callers: an element too many
  is deleted for good (`Stored`, `loose`).

## 8. Not modelled, and what is left

Each component of `PROJECT.json` that is not modelled says why. Within the
modelled ones, left out are: in `DCBulletin` the failure of `malloc` in `dcb_init`
and `dcb_isfull`, which nothing calls; in `DMCache` words of other machines, the
key and part descriptions and a second program on the same file; in `DCFiles` file
type 6; in `PlotQueue` the device driver, programs that share a terminal at the
same time, full queues and replies of several packets; in `PGUndo` the range
records, the display and the button of the symbol window.

What would come next, in this order:

1. `DMSearch`: headers with positions, `klstrw`/`klstcl`, searches in progress
   while headers come and go; abstract specification: a search visits each
   matching header once.
2. `DMCache` under `DMFile`: the order in which records reach the file when reals
   wait in memory, and what a crash then leaves of a block.
3. A second program on a shared file, with the rule for callers that would make
   it safe.
4. `VGFile`: elements, delete flags and the range table.
5. Proofs: `ListIsRuns` for a list that may be full, where what was dropped has to
   be left out of the runs.
