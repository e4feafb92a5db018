# A verification project for DragonStub

DragonStub is the UEFI stub that boots the DragonOS kernel on RISC-V: an EFI
application with the kernel's ELF file linked into it. It runs once, on one
hart, as a guest of the firmware: it takes memory from boot services, puts the
kernel there, builds the kernel's device tree, leaves boot services with
`ExitBootServices` and jumps. What makes that hard is not concurrency of its
own threads (there are none) but the firmware: every call can fail, every call
can change the memory map, timer callbacks of the firmware run between any two
calls, and after `ExitBootServices` was called there is no way back and almost
nothing may be called any more.

The repository brings two vendored libraries along, libfdt and gnu-efi, and a
small C library for formatting and parsing. Their code is sequential too, but
it keeps state by hand (offsets into blocks that move, buffers that grow while
the firmware's answer changes, events, notifications that interrupt), so most
of it is modelled here as well.

This directory holds TLA+ modules translated from `src/apps`, `src/lib` and
`src/gnuefi`, TLC runs over small instances of them, and TLAPS proofs of the
results that matter most for every instance. `PROJECT.json` maps each definition to the lines it models.

## 1. Inventory

| Part | Source | State | Operations | What makes it correct |
|---|---|---|---|---|
| Boot path | `apps/dragon_stub-main.c`, `stub.c`, `fdt.c`, `helper.c` | where the boot is, the options, the device tree, the maps | `efi_main`, `efi_stub_common`, `efi_boot_kernel`, `allocate_new_fdt_and_exit_boot` | the kernel is entered with live memory and the final map, or the firmware gets control back; no boot service behind the point of no return |
| Memory map and exit | `apps/mem.c`, `helper.c` | the boot map buffer, its key, the configuration table | `efi_get_memory_map`, `efi_exit_boot_services`, `exit_boot_func` | a stale key is retried with everything redone; no table names freed memory |
| Runtime services map | `apps/stub.c` | runtime map, count, next virtual address | `efi_alloc_virtmap`, `efi_get_virtmap` | disjoint 64K-congruent ranges; runtime map = runtime part of the boot map |
| Page allocator | `apps/mem.c`, `alignedmem.c` | pages owned, blocks held | `efi_allocate_pages`, `efi_allocate_pages_aligned`, `efi_free` | nothing lost or freed too much; aligned; below the bound |
| ELF loader | `apps/elf.c` | extent, allocation, memory | `load_elf`, `parse_phdrs`, `efi_allocate_kernel_memory`, `load_program` | the image is the file's; writes stay inside; right entry address |
| Device tree | `apps/fdt.c` | the new tree | `update_fdt`, `update_fdt_memmap`, `get_fdt` | the placeholders are there when the map is written over them |
| libfdt | `apps/lib/libfdt` (vendored) | the tree's blocks, their offsets and sizes in the header | reading and walking, edits that make room, edits in place, the sequential writer, overlays | blocks stay ordered and inside the buffer; each edit is the one a reader sees; references of an overlay lead where they led |
| Command line | `apps/helper.c`, `apps/lib/cmdline.c` | the options | `efi_convert_cmdline`, `efi_parse_options`, `next_arg`, `get_options` | the first pass counts what the text has in UTF-8, and cuts it between arguments; the options are those that were given; no write behind an array |
| Strings, formatting | `apps/lib/vsprintf.c`, `string.c` | a buffer | `vsnprintf` and what it calls | never past the buffer; the length returned is the room that is needed |
| Secure boot | `apps/secureboot.c` | none | `efi_get_secureboot` | "enabled" unless known otherwise |
| RISC-V part | `apps/riscv-stub.c` | `hartid` | `check_platform_features`, `efi_enter_kernel` | a hart id before the jump |
| Random numbers | `apps/random.c` | none | `efi_get_random_bytes` | compiled out by default |
| gnu-efi: questions of unknown size | `lib/misc.c`, `hand.c` | a buffer, its size, the status | `GrowBuffer` and its callers (`LibMemoryMap`, `LibFileInfo`, `LibGetVariable`, `LibLocateHandle...`) | one whole answer with its true size, or no buffer |
| gnu-efi: handles | `lib/hand.c` | the handle database | `LibLocateProtocol`, `LibInstallProtocolInterfaces` and its inverse | a handle that vanished stops nothing; a list is installed as a whole, or taken back |
| gnu-efi: events, input | `lib/event.c`, `console.c` | events, a timer, the line | `WaitForSingleEvent`, `IInput` | no signal is lost; the line is what was typed |
| gnu-efi: files, disks, paths | `lib/sread.c`, `misc.c`, `dpath.c` | open files, pools, nodes of a path | `OpenSimpleReadFile`, `ReadSimpleReadFile`, `ValidMBR`, `AppendDevicePath` ... | nothing left open; the bytes asked for; blocks big enough |
| gnu-efi: text | `lib/print.c`, `cmdline.c`, `str.c` | a short buffer, its sink | `_Print` and its users, `GetShellArgcArgv`, `MetaMatch` | the whole text arrives; arguments join to the options |
| gnu-efi: locks | `lib/lock.c`, `runtime/rtlock.c` | task priority, owner's level | `RtAcquireLock`, `RtReleaseLock` | one owner, and the right level restored |
| gnu-efi: tables | `lib/smbios.c` | none | `LibGetSmbiosSystemGuidAndSerialNumber` | stays at the beginning of structures |
| Start-up | `gnuefi/reloc_riscv64.c`, `crt0` | the image's own words | `_relocate` | exactly the named words are moved |

The parts interact by direct calls. Shared state is the boot map buffer (the
firmware fills it, `efi_get_virtmap` rewrites it, `update_fdt_memmap` describes
it, the kernel reads it through a configuration table), the runtime map (sized
in `efi_alloc_virtmap`, filled in a callback of `efi_exit_boot_services`, given
to `SetVirtualAddressMap`), and the firmware's own tables. Of libfdt the boot
path calls the functions `UpdateFdt` names, of gnu-efi `InitializeLib` and the
console output; the rest is there for whoever extends the stub.

The hard behaviours, each with its line in `PROJECT.json` under `hazards`: the
map changing between `GetMemoryMap` and `ExitBootServices`; the retry that has
to redo every copy of the map in the old buffers; overlapping failure exits;
half-done allocations; rounding at both ends of memory; a status nobody looks
at; offsets into a tree that a call moves; a string added to the tree and left
behind when the property it is for does not fit; an answer that changes while
the buffer for it grows; a handle that is gone when it is asked; the undoing of
half of a list; a notification between any two steps of a lock; texts cut at the
end of a short buffer; the length a call reports when it has cut the text.

## 2. Modules

`A -> B` reads "A extends B".

    DragonStub   -> BootServices                    DragonStub => BootHandoff
                    DragonStubProofs -> DragonStub
                    PageAlloc  -> Align             PageAllocProofs -> PageAlloc, NumberTheorems
    MCVirtmap    -> Virtmap    -> Align             VirtmapProofs   -> Virtmap, NumberTheorems
    MCElfLoader  -> ElfLoader  -> Align             ElfLoaderProofs -> ElfLoader, NumberTheorems
    MCDeviceTree -> UpdateFdt  -> Fdt -> Align      UpdateFdt => DeviceTree
                    FdtEdit    -> FdtRead -> Fdt    FdtEdit   => NodeTree
                    FdtSw      -> Fdt               FdtSw     => TagStream
                    FdtOverlay -> FdtRead           FdtProofs -> UpdateFdt, FdtSw, NumberTheorems
    MCText       -> Cmdline, EfiOptions,            CmdlineProofs -> Cmdline, EfiOptions,
                    GetOptions, Vsprintf                GetOptions, NumberTheorems
    MCGnuEfi     -> LibHandles -> GrowBuffer        GnuEfiProofs -> LibLock, LibProtocols, LibHandles,
                    LibProtocols, LibEvents,            SimpleRead, LibEvents, Mbr,
                    SimpleRead, Mbr, DevicePath,        SelfRelocation, EfiPrint,
                    EfiPrint, ShellArgs, LibLock,       NumberTheorems
                    MetaMatch, SelfRelocation,      NumberTheorems -> Align
                    Smbios

`MCDeviceTree`, `MCText` and `MCGnuEfi` put modules side by side that share no
state: their variable `user` says in the first state which of them runs, and
the others rest in an initial state. Every behaviour is one of one module, so
that a run checks each of them as if it were alone.

`DragonStub` composes the components by their outcomes: its one step
`UpdateFdt` has the results the module `UpdateFdt` works out in detail, and the
same holds for the page allocator, the loader, the runtime map and the command
line.

**`BootServices`** is the environment: the firmware is not in the repository,
so its services are modelled from how `src/apps` uses them. The memory map is
abstracted to a key and a number of descriptors; every service that allocates,
frees or installs may change it, and so may `FirmwareEvent`, between any two
steps. `keyOut` says whether the current key has been handed out: a key nobody
knows can be reused, which keeps the state space finite. `ConformingExit`
selects what the comment in `helper.c:386-398` says of the firmware (a stale
key is the only failure, and the map is quiet from the first
`ExitBootServices` on) or no such promise. `frees` is a history variable.

**`DragonStub`** is the whole path from `efi_main` to the jump. `pc` names the
firmware call about to be made, one action is one call with the code up to the
next one, and each action has a disjunct for every outcome the code
distinguishes. Sequences without a firmware call that matters
(`efi_parse_options`, `update_fdt`) are one action. `buf` is
`struct efi_boot_memmap` (key, length, capacity), `fdtSize` the
`linux,uefi-mmap-size` property with its placeholder, `vmKey` the map the
runtime map was copied from, `va` what the `VirtualStart` fields hold.

**`BootHandoff`** is the abstract specification: the machine belongs to the
firmware until one atomic `Commit`, which fixes the final map and tells the
kernel of exactly that map; then the kernel is entered, with runtime entries
that are identity mapped, installed, or marked unusable. `DragonStub` defines
the refinement mapping (`Handoff`) and implements it with its liveness.

**`Virtmap`** is `efi_get_virtmap`, one action per descriptor, started up to
twice (the call and the retry) over arbitrary maps into the same runtime map.
Addresses are in pages. `flat_va_mapping` is constant false and
`EFI_RT_VIRTUAL_OFFSET` zero on this architecture, so both are folded in.

**`PageAlloc`** is the allocator over a memory of numbered pages. The firmware
picks any free run below the bound; the head and the tail of an aligned
allocation go back in separate calls. `Top` is the first number an
`unsigned long` does not hold: the bound is computed modulo `Top`, as in C.

**`ElfLoader`** is `load_elf` up to the entry address. A byte of the file is
named by its offset and memory maps an address to such a byte, to `Zero` or to
`Junk`, so that "the image is right" can be said byte by byte. The two walks
over the program headers are loops of one action per header. Where the
allocation ends up is the firmware's choice. The truncation of the header count
to 16 bits and the logical not in the alignment check are modelled as they are.

**`Fdt`** holds the functions of libfdt that `update_fdt` calls, as operators
from a tree in a buffer to an error and the tree it leaves. The structure block
is a sequence of tags, the strings block a sequence of strings, and the header
has the offsets and sizes libfdt keeps by hand. The operators set exactly the
header fields the C functions set; what the blocks hold changes on its own, so
that a header that is wrong shows. `fdt_rw_probe_` is left out: it answers only
when the blocks are out of order, and `HeaderSound` shows they never are. A
property's name is the string it points to, or the end of a longer one
(`EndsWith`), as `fdt_find_string_` shares them. Node names are compared without
unit addresses.

**`UpdateFdt`** is `update_fdt` and `update_fdt_memmap` over `Fdt`, one action
per call of libfdt, in a buffer of any size. The tree of the firmware can be
absent, in order with gaps, out of order, of version 16 or too old; it can have
a `/chosen` of another boot loader whose properties have other lengths.
**`DeviceTree`** is what a tree is to its reader, a set of paths and a set of
property values, and says which of them may change: `/chosen` may be added, and
properties of it and the cell sizes of the root may be set. `UpdateFdt`
implements it, with the reader's view as the refinement mapping. Which node a
reader means by a path is only settled if the tree is one: `NestedAssumption`
says that the firmware's nodes are closed in order, all below one root, and that
no two have the same path, as the format asks and `dtc` writes.

**`FdtRead`** has the questions: walks from node to node with a depth, parents
by walking from the root again, paths and aliases, phandles. `fdt_get_path`
drops a name that does not fit the buffer and finds out at the end.

**`FdtEdit`** is a caller that edits a tree in any order, with the functions
that make and take room and with those that write in place and leave `NOP`
tags. Each call is shown to be one edit of **`NodeTree`**: a node added, removed
or renamed with all below it, a property set or removed, or nothing. The
readers are shown to agree with each other on every tree that comes out.

**`FdtSw`** is the sequential writer: the structure block grows from the front
of the buffer, the names from its end, with negative offsets that `fdt_finish`
turns round; `fdt_resize` moves both into another buffer, to the left or to the
right or over itself. It implements **`TagStream`**, to which every accepted
call appends and nothing else happens.

**`FdtOverlay`** is `fdt_overlay_apply`, one action per stage and one per
fragment, and a caller that applies several overlays to one base. It moves the
phandles of the overlay, follows them in its local references, fills the others
in from the symbols of the base, merges the fragments and adds the symbols. A
value is cells, a path or fix-ups; the texts of fix-ups are triples. The places
where the code looks a node up again since the tree has moved are modelled as
such, as are those where it keeps the offset.

**`Cmdline`** is `efi_convert_cmdline`: one action per character of the load
options, the cut, the allocation and the copy. Units are 16-bit numbers, for
the code compares ranges of them; the alphabet of the run has one of every
range. The copy is what `snprintf` of this repository does with `"%.*ls"`.

**`EfiOptions`** is `efi_parse_options` with `next_arg`, which writes NULs into
its copy of the line. Words are single characters of the model. Every line is
possible, although the conversion lets only one character of an ASCII line
through (see Findings): load options that are bytes instead of UTF-16 units
arrive as they are.

**`GetOptions`** is `get_options` with `get_option` and `get_range`: one action
per number, into an array with room for a few, or none, when it only counts.

**`Vsprintf`** is `vsnprintf` called twice, as C99 has it: into a buffer that
may be too short, then into one of the size that was returned. `format_decode`
is one action per directive. Every character goes through `Put`, which writes
inside the buffer and moves on outside it; numbers pass through the digits in
reverse order and the padding as `number` has it. Bit-fields have few bits in
the run (`WidthBits`, `PrecisionBits`) and so have the integer types (`Bits`):
what the code truncates is truncated.

**`GrowBuffer`** is the loop around a firmware service that says `BUFFER_TOO_SMALL`
with the size it wants. What is asked for may change between two questions, and
asking for the memory map changes it, since the pool that is allocated for the
answer is part of it. **`LibHandles`** goes on with the handles that were read,
of which any may be gone. **`LibProtocols`** installs, replaces and
removes lists of interfaces, one call each. Any call may be refused, those that
undo as well, whose status the code drops; `refused` keeps which interfaces the
firmware has not taken back. `LibReinstallProtocolInterfaces` passes its
parameter, an `EFI_HANDLE *`, where the service takes the handle (`hand.c:606`,
`628`): in the model that is `HandleVariable`, no handle of the database, so that
the service finds nothing to replace. The firmware's database is external.

**`LibEvents`** has the events, of which waiting consumes one, and the line
editor that waits for keys; the timer of `WaitForSingleEvent` is an event of its
own, behind the one that is waited for. **`SimpleRead`** opens a file along a
path and reads from it, offsets near the end of a `UINTN` included. **`Mbr`** is
`ValidMBR` with LBAs of a few bits, whose sums wrap around. **`DevicePath`** has
nodes with lengths, so that the size of the block and the size of what is
written can be compared.

**`EfiPrint`** is `_Print` over its three sinks: the console with its colours,
a caller's buffer, a pool that grows. The text is collected in a buffer of
`PRINT_STRING_LEN` units and handed on when it is full. An argument is the word
that is passed and, where it is a pointer, the text it points to; `StringRoom`
is how much of the caller's memory is looked at. A format that ends inside a
directive (after its `%`, a flag, a width, a field's colour or, where the text
does not go to the console, `%N`, `%H`, `%E`) consumes its NUL and is read on
behind it: `ItemEnds` and `ReadOn`, with `BehindFormats` for what may lie there, in
memory and on the stack. `base` is the attribute outside of fields, and `twice`
remembers that a field was given two. Of `%f` the digits behind the point are the
argument's text. **`ShellArgs`** is
`GetShellArgcArgv` called again and again over its static buffers.
**`MetaMatch`** is the recursion of the pattern matcher, as a recursive function.

**`LibLock`** is the lock that only raises the task priority. `contexts` is the
stack of what runs: the program, and the notifications that interrupt it and
each other whenever their level is above the current one, also between the two
halves of acquiring and releasing. Code takes only locks of its own level or
above, and leaves them in reverse order, as the boot services demand.

**`SelfRelocation`** is `_relocate`, one action per entry of the table.
**`Smbios`** is the walk over the SMBIOS table, in bytes of formatted parts and
strings, with tables that are longer or shorter than they say.

**`Align`** holds the rounding macros, `NumberTheorems` what they do for every
argument.

## 3. Runs

| Run | Module, cfg | Question | Bounds |
|---|---|---|---|
| `boot_any_firmware` | `DragonStub`, `BootAny.cfg` | whatever fails and however the map changes: types, final map everywhere, live tables and memory, live frees, no boot service after exit, implements `BootHandoff` | map of 1 to 4 descriptors, 2 slack, 2 events |
| `boot_conforming_firmware` | `DragonStub`, `BootConforming.cfg` | is one retry enough | map up to 6, 4 slack, 1 event |
| `page_alloc` | `PageAlloc`, `PageAlloc.cfg` | nothing lost (`Conserved`); disjoint, aligned, below the bound (`BlocksAsPromised`) | 8 pages of 2 bytes, sizes 0, 1, 3, 4, alignments 1, 2, 4, two blocks |
| `virtmap` | `MCVirtmap`, `Virtmap.cfg` | layout (`LayoutAsPromised`) and agreement of the maps, on both calls | 3 descriptors of which 2 runtime; 64K = 2, 2M = 4 pages |
| `elf_loader` | `MCElfLoader`, `ElfLoader.cfg` | image, writes, entry address, memory held | up to 3 headers of 10 kinds, 12 bytes of memory |
| `device_tree` | `MCDeviceTree`, `DeviceTree.cfg` | `update_fdt`: `BlobSound`, `KernelIsTold`, `TreeSpec`. Edits: `EditsKept`, `ReadersAgree`. Writer: `WriterSound`, `SwSpec`. Overlays: `OverlayApplied` | 18 trees, 19 sizes of the buffer, two maps; 4 trees with up to three edits; 5 buffers, 3 tags; 16 bases, 6 sequences of up to three overlays, cells of 4 bits |
| `text` | `MCText`, `Text.cfg` | the length of the command line is measured as its UTF-8, cut between arguments, and fits (what is then written is not compared: see `ascii_arrives`); the options are those given; a list fills its array; a text is printed as asked | up to 5 units of 9; lines of up to 5 characters of 7, and arguments in every quoting; lists of 5; about every flag, width, precision and type, buffers of 0 to 7 |
| `gnu_efi` | `MCGnuEfi`, `GnuEfi.cfg` | one property for each part of the library, see below | answers of 3 elements that change twice, lists of 3 interfaces, 4 keys, files of 3 bytes, 3 locks and notifications in notifications, ... |
| `free_after_exit` | `DragonStub`, `FreeAfterExit.cfg` | violated: failure exits free after `ExitBootServices` was called | |
| `frees_firmware_fdt` | `DragonStub`, `FreesFirmwareFdt.cfg` | violated: the firmware's tree is freed | |
| `payload_not_loaded` | `DragonStub`, `PayloadNotLoaded.cfg` | violated: a kernel that was not loaded is announced | |
| `ascii_arrives` | `MCText`, `AsciiArrives.cfg` | violated: a command line of ASCII does not arrive | |

Many properties are conjunctions of named parts, at the end of their module,
each part with a comment of its own:

| Property | Its parts |
|---|---|
| `BlocksAsPromised`, `LayoutAsPromised` | disjoint, aligned, below the bound; separate, congruent, sections at section boundaries |
| `BlobSound` | the header tells the truth after every call; values of the map fit their placeholders; no failure while there is room; no string without a property, also after a property that did not fit |
| `ReadersAgree` | `fdt_get_path` and `fdt_path_offset` are inverse; children, depths and ends agree; no phandle twice |
| `EditsKept` | each call is its edit of `NodeTree`; what writes in place moves no node |
| `WriterSound` | the blocks never meet; a finished tree is sound; no string without a property |
| `OverlayApplied` | merged exactly; phandles distinct; references and symbols lead where they led |
| `OptionsParsed`, `ListParsed`, `PrintedAsAsked` | inside the copy or the array; and the result is the one a reader of the text would name. The count of a range that does not fit and widths beyond their bit-field are left out |
| `LengthMeasured` | the first pass counts the bytes of the UTF-8, or those in front of the last space outside quotes that fits; not what the second pass writes |
| `AnswersWhole`, `QuestionsEnd` | one whole answer, its size, no buffer left over, the boot order only extended or, when it could not be read, replaced; the questions end |
| `HandlesFound`, `AllOrNothing` | the first interface, the disks of the signature, of which a handle that lost its path meanwhile may be one or not; all of a list is installed, or none of it but what the firmware does not take back; reinstalling replaces nothing |
| `InputKept`, `FilesRead` | no signal lost, the line as typed; the bytes asked for, nothing left open |
| `VerdictSound`, `RelocatedWhereNamed` | partitions apart, a table refused for a reason; relocated where named |
| `PathsAndTextsAsMeant`, `PrintArrives` | paths, matches, arguments and the serial number as meant, paths in blocks that hold them, numbers that read back, but for what section 6 names; the text arrives whole, within its room; a field with one attribute ends with it; nothing behind the NUL is read but for a format that ends inside a directive |
| `LocksKept` | one owner per lock; the level is that of the locks held |

Why the bounds are enough. *Boot path:* the interesting map histories are
"unchanged", "grew within the slack", "outgrew the slack" and "shrank", each
before the first and before the second `ExitBootServices`; four descriptors,
two of slack and two events reach all of them, and the services themselves
change the map beyond the events. *Allocator:* a size that is a multiple of the
page, one that is not and zero; alignments of one, two and four pages, so that
head and tail are each empty and not empty; two blocks so that one may damage
the other. *Runtime map:* a start that is off 64K, on 64K and on 2M, lengths
below and above 2M, in every order; a boot map longer than the runtime map.
*Loader:* one header for every case the loader distinguishes, in every order.
*Device tree:* sizes from less than an empty tree to more than the largest
tree with all additions, in steps smaller than a property, so that every call
is the one that runs out of space in some run. *Edits:* names that occur at
other depths, shared strings, NOPs in every place; buffers with no room, with
room for one property, and with enough. *Overlays:* a base whose phandles leave
room for the overlay's, leave exactly none, or leave too little in cells of four
bits; an overlay upon an overlay that uses the same phandles and the label the
first has added. *Printing:* a buffer that cuts the text at its first, a middle
and its last character; a width and a precision that do not fit their
bit-fields. *gnu-efi:* an answer that grows, shrinks and stays between two
questions; every call of a list failing, and every call
that undoes it; formats that end inside a directive, in front of nothing, of a
character and of another directive; every key behind every key; a request
behind the end of a file and of a `UINTN`; partitions in front of, in and behind
one another. *Command line:* five units put
every pair of cases next to each other, at the end and across the limit.

Each property of a passing run has a mutant in `PROJECT.json`: a definition of
the module that differs as a plausible bug would, and breaks the property.

## 4. Fairness

`DragonStub` has weak fairness of `StubNext`: the stub is a single thread whose
calls return. Firmware events are not fair; nothing forces the map to change.
Two properties need it: `Terminates` of `BootHandoff` (the stub never hangs)
and `ExitReachesKernel`.

`MCGnuEfi` has weak fairness of `Asking`, the steps of `GrowBuffer` and of the
service it asks, for `QuestionsEnd`: the loop runs in one thread, and a call of
the firmware returns. What the firmware changes in between is not fair, and
bounded by `MaxChanges`: a firmware that makes the answer longer between every
two questions keeps the loop going, and no code could help. That asking for
the memory map itself changes the map is not counted; there an answer is bounded
by `MaxLength` alone, since the code asks for more each time and there is a
longest map.
The other modules have no liveness property.

`ExitReachesKernel` holds under `ConformingExit` only, as `helper.c:390-398`
argues: the callbacks run once, and the slack absorbs what they add. With an
arbitrary firmware the second `ExitBootServices` may fail, and `BootHandoff`
then allows nothing but giving up.

## 5. Proofs

Each component's proofs are in a module of their own. All are for every value
of the constants that satisfies the named assumption of the module.

* `NumberTheorems`: `RoundUp` and `RoundDown` return the nearest multiple above
  and below; monotonicity; multiples of multiples. Everything non-linear is
  confined to this module. `LeastNat`, `AllNat` and `AllUpTo` are the least-number
  principle and induction for a set of numbers that is given, not for an
  operator; `RecursionExists` says that the values of a step applied again and
  again exist. With them the modules below prove that a recursive function
  exists and what it returns, by induction over its length (`SumOf` of libfdt,
  `LengthOf` of the command line, `Numbers` of a list of integers, `LineOf` of
  the line editor, `Left` of the handles).
* `DragonStubProofs`: `TypeCorrect`, `HandoffMapCorrect`, `TablesCorrect`,
  `FreesCorrect`, `HandoffMemoryCorrect`, `PointOfNoReturn`,
  `ImplementsHandoff` (the initial states and the steps; liveness stays with
  TLC). The safety properties speak of states at the end of the boot, so the
  inductive invariant has to say for each `pc` what has been done by then:
  `MapInv` (what the buffer, the runtime map and the device tree know of the
  current map), `ResourceInv` (which pools, pages and tables are live) and
  `RuntimeInv` (what the runtime entries hold).
* `VirtmapProofs`: `TypeCorrect`, `LayoutTheorem`, `MapsAgreeTheorem`. The
  invariant says that the entries written so far end below `virtBase`
  (`LayoutInv`), that they are the runtime descriptors passed so far
  (`LoopInv`), and that there are as many (`RoomInv`); with the assumption that
  the runtime descriptors of a map fit into the buffer, which is what the
  comment in `stub.c:189-193` relies on, no call writes behind the buffer even
  when the boot map has outgrown it.
* `ElfLoaderProofs`: `TypeCorrect`, `OutsideUntouchedTheorem`,
  `ImageCorrectTheorem`, `EntryCorrectTheorem`, `HeldIfLoadedTheorem`. The
  invariant says that the extent covers every segment measured so far and that
  its ends are ends of segments (`ExtentInv`), that an allocation has room for
  the extent (`RegionInv`), and what each byte of the allocation holds while
  the first headers are copied (`ImageInv`); the image is the file's when the
  last one is. The entry address follows because the file's segments have one
  distance between virtual and physical addresses.
* `CmdlineProofs`: `TypeCorrect`, `FitsKernelBufferTheorem`,
  `LengthMeasuredTheorem`, for all load options and buffer sizes. The last is about
  the count of the first pass only: what the second writes is not what was
  measured (section 6). `CountInv` ties
  the running count to the text passed so far: the bytes counted are the UTF-8
  length of the units passed, and the count never stops between the two units
  of a surrogate pair; the flag for quotes is the parity of the quotes passed, and the cut
  remembered is the last space outside of them up to which the text fits
  (`CutInv`). The measured length and the cut follow when the loop ends.
  `OptionsParsedHolds`, for any lines in any quoting (`LinesAssumption`: a line
  ends at its first NUL): `OptionsInv` says that `str` is where an argument of
  the line begins (`AtArgument`: an even number of quotes in front of it, so that
  the quotes `next_arg` counts from there end it where those of the whole line
  do, `StopIs`); that the copy is still the line from there on (`IsCopy`,
  `CutsIn`); and that the options are those of the arguments passed (`Passed`,
  `AsPassed`, `ReadGrows`). `ArgumentRead` is the lemma on quotes: the name and
  value that are read are the two parts of the argument without the quotes
  around them (`IsRead`). Where "--" or the end is met, the arguments passed are
  those in front of the first "--" (`PassedBefore`, `AllPassed`).
  `ListParsedHolds`, for any list, numbers and size of the array
  (`IntsAssumption`): `Expanding` says that the array has the numbers of the list
  up to the one that is read next, ranges expanded, as far as there is room, and
  that the count is theirs; a range leaves its end to be read as the next number.
* `PageAllocProofs`: `TypeCorrect`, `ConservedTheorem`, `BlocksTheorem`. The
  invariant describes the allocation under way: what is still owned in front of
  and behind the aligned run.

* `FdtProofs`: `TreeInvariant`, `BlobSoundHolds`, `KernelIsToldHolds`, for
  every tree a firmware may hand over (`TreesAssumption`: its blocks do not
  overlap, its values have lengths) and every size of the buffer. First come
  lemmas on what each function of libfdt does to a tree that is in order
  (`Good`): the sizes in the header are those of the blocks, nodes are closed,
  every property has its name. The sizes are sums over blocks, so replacing a
  part of a block by another needs `SumOf` of a concatenation, by induction.
  `IInv` then follows the calls of `update_fdt`: `Progress` says how far it is,
  `Tells` what `/chosen` has by then, and `Room` that what is used and what is
  still to be written is no more than the original tree and the additions. Only
  with `Room` is `NOSPACE` known to mean that the buffer was too small from the
  beginning (`EnoughRoom`). `InPlaceFits` needs `Tells`: the placeholders written
  before the exit have the lengths of the values written behind it.
  `ImplementsDeviceTree` is the refinement: `Spec => TreeSpec`, with
  `NestedAssumption` in addition. `TidyInv` strengthens `IInv` by what keeps the
  mapping stable: the tree of each moment is nested and has one path for each
  node. The path of a tag is a recursive function of the tags in front of it
  (`PathsExist`), so tags that are put in and close what they open leave the
  paths of all others alone (`PathsInFront`, `PathsBehind`). Each call of libfdt
  is then a map from the nodes before to the nodes after it (`Maps`) that keeps
  paths, and keeps the first property of each name except the one that was set;
  what a reader finds follows from the map (`PathsMapped`, `PropertiesMapped`).
  Two things the code relies on come out as lemmas. `ChosenFound`: the node that
  `fdt_subnode_offset` finds, by counting depths, is the one with the path of
  `/chosen`, which needs that the depth is the length of the path (`DepthIs`).
  And adding `/chosen` adds a path that was not there, because the same search
  had found none (`AddRefines`).
  `WriterSoundHolds` and `WriterAppends` are about the sequential writer, for any
  tags, buffers and moves between them (`SwNamesFit`). `SwInv` says that structure
  and names, which grow towards each other, have no more than the buffer between
  them, also after `fdt_resize` has moved them over one another; `WriterAppends`
  is the refinement of `TagStream`, a step for each call.

* `GnuEfiProofs`, first the locks: `LocksExcludeTheorem`,
  `LevelFollowsLocksTheorem`, `LocksKeptTheorem`, for any locks, levels and depth
  of notifications. A lock has no test and no wait; it works because of the
  levels alone. `LockInv` says why: each context on the stack runs above the
  level of every one below it (`Stacked`), the locks of one context rise
  (`WellHeld`), and each lock has saved the level of the one before it
  (`SavedIn`). So a lock that is held is out of reach of everything that may
  interrupt (`HeldByOne`), and the counter is 1 exactly while somebody owns it
  (`Counted`).
  `AllOrNothingHolds`, for lists of any length (`InstallAssumption`) and whatever
  the firmware refuses: `InstallInv` says which part of the list the handle has at
  each step of the walk forward and of the walk back (`Installing`): the
  interfaces there were at first, with those done and not yet undone, and those
  the firmware has not taken back. The undoing is right because the protocols
  done so far differ (`Differ`) and what was installed was not there before; a
  list that names a protocol twice fails at the second. `Reinstalling` says that
  no call of `LibReinstallProtocolInterfaces` has succeeded, as nothing is
  installed on the address it passes; so there is nothing to undo either.
  `AnswersWholeHolds`, for any answers and changes (`GrowAssumption`): `GrowInv`
  relates the size the firmware is told to the pool that is live, and the boot
  order written to the one read. `HandlesFoundHolds` and `AnswersWholeInScan`, for
  any handles and device paths of one instance (`ScanAssumption`): `HandleInv`
  adds to it that the handles of an answer differ (`HandlesDiffer`) and what the
  scan has found so far (`Scanning`, `Sifted`), up to the handles that lost their
  interface in between; `LeftIs` says what the compaction at the end of the scan
  keeps, by induction over the handles (`RecursionExists`).
  `FilesReadHolds`, for any path, file and width of `UINTN`
  (`SimpleReadAssumption`): `ReadInv` says which files are open at each step of
  the path and which pools belong to whom (`ReadFiles`, `ReadPools`), and that
  the path is the caller's as long as nothing was opened along it (`ReadPath`).
  `InputKeptHolds`, for any events, keys and lengths of the line
  (`LibEventsAssumption`): `EventInv` says that the event is signalled while there
  is a key to read, except where waiting has just consumed the signal
  (`Signalled`), and that the buffer holds, place by place, the line of the keys
  so far (`LineInBuffer`).
  `VerdictSoundHolds`, for any partition tables (`MbrAssumption`): `MbrInv` says
  that every partition that was compared is on the device and has no end of a
  later one inside of it. `RelocatedWhereNamedHolds`, for any image the linker has
  laid out in order (`RelocAssumption`): `Relocating` says what the memory holds
  when some entries have been applied (`AppliedAt`); the entry read next is still
  the linker's because no entry names a word of the table (`TableKept`).
  `PrintArrivesHolds`, for any formats, arguments, widths of the integers, sizes
  of the caller's buffer and lengths of the print buffer (`PrintAssumption`):
  `PrintInv` says that what was put is what was sent and what the buffer still
  holds, and that each sink has what was sent, by its own rule (`Arrived`): a
  string has it up to its limit with a zero behind it (`InString`), a pool that
  could not grow has the end of it (`InPool`). `OutputArrives` is that rule for
  every piece that is sent, and does not depend on where the text is cut; nor on
  what is behind the format (`BehindFormats` is any set). `InFormat` says that the
  NUL is passed only where the format ends inside a directive. A field keeps the attribute from before it in `RestoreAttr` (`AttributeKept`), which
  needs that the attribute of a console is never zero, zero being "none kept".
  That the digits of a number, its groups and the lines are texts at all is a
  lemma each, by induction over a recursive function (`DigitsAre`, `FlattenIs`).

Only model-checked: liveness (`Terminates`, `ExitReachesKernel`,
`QuestionsEnd`), which is out of the prover's reach; and properties whose
operators are folds, filters or sorts of sequences, of which nothing can be
proved without an induction over an operator: `ReadersAgree`, `EditsKept`,
`OverlayApplied`, `PrintedAsAsked`, `PathsAndTextsAsMeant` (the
strings of SMBIOS are flattened, patterns are matched by recursion, and what a
number reads back as is a fold over its digits).

## 6. Findings

`PROJECT.json` lists four places where the code does not do what a comment of
the repository says, each with a run that shows it: frees after
`ExitBootServices` was called; the firmware's device tree is freed; the status
of `load_program` is dropped; only the first character of an ASCII command line
arrives.

Modelled as they are, without a run of their own: the count of program headers
is kept in 16 bits (`elf.c:139`); the alignment check of segments takes a
logical for a bitwise not and never refuses (`elf.c:283`); a bound below one
alignment wraps and bounds nothing (`alignedmem.c:35`); the comment above
`allocate_new_fdt_and_exit_boot` promises growing allocations where there is
one attempt (`fdt.c:215`); the precision of the command line counts bytes of
UTF-8 while the copy reads two-byte units (`helper.c:209`); `efi_main` reports
success when the boot has failed (`dragon_stub-main.c:54`); the size of a block
for an append to several instances counts the second path once (`dpath.c:166`);
a structure of the system that is too short is looked at again and again
(`smbios.c:54`). The properties of `DevicePath` and `Smbios` leave those two
inputs out, and the comment above each says so.

In the same way, in gnu-efi: `LibReinstallProtocolInterfaces` passes the address
of the handle for the handle (`hand.c:606`, `628`; `efiapi.h:702` takes an
`EFI_HANDLE`, and `hand.c:504` passes `*Handle`), so that it replaces nothing;
`NothingReinstalled` states that. A format that ends inside a directive is read
on behind its NUL (`print.c:1115`, then `1095`), also where it ends with `%N`,
`%H` or `%E`, which the table in front of `_Print` documents, and goes to a pool
or a string: there attributes are zero and do not end the directive
(`print.c:1310`). The comment at `print.c:1050` says that a field's attribute is
for this field only; but of two in one field the second saves the first, which then
stays on. A number between -1 and 0 loses its sign in `%f`, as the sign is that
of its integer part (`print.c:1406`). `StopsAtEnd` and `FieldAttribute` hold with
exactly these exceptions.

Met while reading and not modelled: the search of `LibGetUiString` never moves
on (`lib/misc.c:557`); `WaitForEventWithTimeout` never counts its timeout down,
which `LibEvents` leaves to the timer.

## 7. Not modelled, and what could follow

Left out of the parts that are modelled: the unreadable trees libfdt defends
itself against, and address cells (`fdt_addresses.c`), for no function of the
stub calls them; `%pU` and the pointers of a kernel's subsystems; the text of
device paths and the names of GUIDs and errors, which are tables; the CRC of a
table header, a pure function of its bytes; port and PCI access and the one-line
wrappers of firmware calls; the assembly in front of `_relocate`. Secure boot is
a table over three variables whose answer is only printed; random numbers are
two firmware calls in a row and compiled out. The texts printed, the attribute
protocol calls (they change nothing the stub reads) and functions without a
caller (`efi_allocate_pages_exact`, `check_image_region`, `memparse`) are left
out for good.

The header files (`src/inc`, `libfdt.h`) declare the interfaces of the UEFI, of
ELF and of Linux. They are the larger part of the lines no definition stands
for, and have nothing to model but the constants the modules take from them.

What could follow:

1. The parts of the properties only model-checked that are about sizes: writes
   inside the copy of the options, the array of `get_options`, the blocks of
   device paths and the buffer of `vsnprintf`, each with the recursive functions
   in place of folds where the rest of the property is to follow.
2. `ReadersAgree`, from the lemmas on paths, with a recursive function in place of
   the walk of `fdt_get_path`.
3. Damaged trees: `fdt_check_full` and what each reader answers to one.
