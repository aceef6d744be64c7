# A TLA+ model of my_wine

my_wine runs a Windows executable as a Linux process: it maps the PE image, binds
the imports to its own implementations of ntdll, kernel32, user32, ddraw, dsound and
winmm, and jumps to the entry point. The modules in this directory model the way into
the guest and the services it then calls, wherever correctness depends on state: tables
shared by threads, locks and waits, life cycles of objects, callbacks that re-enter,
and steps that fail half way. TLC checks them on small instances; TLAPS proves the main
results about the handle manager, the critical sections, the kernel objects and the start
of a process for every instance.

Paths below are relative to the repository; the lines every definition stands for are in
`PROJECT.json` under `map`, and what can go wrong where, with the properties that would
notice, under `hazards`.

## The system

| part | source | model |
|---|---|---|
| handle manager: the table every handle goes through | `src/msvcrt/handle_manager*.c` | `HandleTable`, `HandleStore`, `HandleManager` |
| events, mutexes, semaphores in `g_ko`; timed waits | `src/msvcrt/ntdll_synchronization.c`, `ntdll_objects.c`, `kernel32_sync.c` | `KernelObjects`, `TimedWait` |
| critical sections | `src/msvcrt/kernel32_sync.c` | `CriticalSection` |
| process start-up | `src/main.c`, `src/wrapper_main.c`, `src/loader/*` | `Startup` |
| image mapping and relocation | `src/loader/image_mapper.c`, `relocations.c`, `src/pe_headers.c` | `ImageMapper` |
| imports and exports | `src/loader/import_*.c`, `export_table.c`, `src/pe_rip_scan.c` | `ImportBinding` |
| library search, module registry, LoadLibraryA | `src/loader/dll_*.c`, `module_list.c`, `peb_ldr.c` | `DllSearch`, `DllLoader` |
| C runtime detection and patching | `src/crt/*`, `src/pe_symbols.c`, `src/msvcrt/crt_*` | `CrtPatch` |
| system calls | `src/syscall/*`, `include/nt_syscalls.def`, `scripts/gen_dispatcher.py` | `Dispatcher` |
| heap | `src/heap/*` | `MuslHeap`, `WineHeap` |
| virtual memory, sections, views | `src/msvcrt/kernel32_memory.c`, `ntdll_memory.c` | `VirtualMemory` |
| files, searches, registry; paths | `src/msvcrt/kernel32_file.c`, `kernel32_path.c`, `advapi32_registry.c`, ... | `GuestFiles`, `GuestPaths` |
| windows and messages | `src/msvcrt/user32_*.c` | `Windows`, `MessageLoop` |
| dialogs and their controls | `src/msvcrt/user32_dialog_*.c` | `Dialogs`, `DialogControls` |
| SDL backend | `src/backend/sdl2/*` | `RenderBackend`, `RenderSurfaces` |
| DirectDraw | `src/msvcrt/ddraw_*.c` | `DirectDraw` |
| DirectSound and the mixer | `src/msvcrt/dsound_*.c`, `src/backend/sdl2/rb_audio*.c` | `DirectSound` |
| MIDI streams | `src/msvcrt/winmm_doom95*.c` | `MidiStream` |

**Who runs concurrently.** Guest threads come from `NtCreateThreadEx`, which clones a
process that shares memory with the first one; the spinlock of the handle manager, the
lock field of `g_ko` and the atomic operations of the critical sections are there for
them (`CreateThread` of kernel32 only allocates a handle). Two more threads belong to the
implementation: the MIDI worker and SDL's audio callback. Signals and X11 errors arrive
at any time, and SDL calls the event watch when it queues an event. Everything else runs
on the guest's one thread, where the difficulty is re-entry: window procedures and DllMain
are guest code and call back.

**How the parts fit.** Everything that has a handle takes it from the handle manager.
`HandleManager` is proved to implement `HandleStore`, in which a call is one step, and the
other modules rely on that. `KernelObjects` extends `HandleTable`; the modules of windows
and surfaces have the handle table with the slots they use. A critical section uses an
event; `CriticalSection` abstracts it to what `KernelObjects` makes of it. `TimedWait`
counts the time that `KernelObjects` leaves open. `Windows` extends `RenderBackend`,
`MessageLoop` and `Dialogs` extend `Windows`, `DirectDraw` extends `RenderSurfaces`,
`WineHeap` extends `MuslHeap`. Parts that share no state are put side by side in one MC
module whose variable `half` (`load` for windows and messages, where it is the calls that
differ) says which of them a behaviour follows, so that their states add up instead of
multiplying.

## Modules

**HandleTable, HandleStore, HandleManager.** The data of `wine_handle_t table[]`, with an
operator for what each call does to it; what the handle manager promises (a call takes
effect in one step); and `handle_manager.c` as threads run it, a step for each access.
`MAX_REF` stands for 255, where `wine_handle_add_ref` saturates. `refs` and `bound` are
history: the references handed out and what each live handle was allocated with.

**KernelObjects.** The creation handlers in the order of the source (check the limit, read
the count, write it back, allocate a handle, undo or fill the entry), set, reset, release,
the wait loop and NtClose. No handler takes `g_ko.lock`, so each access is a step. A mutex
is never locked by any handler, so NtReleaseMutex always fails, in the model as in the
code. `made`, `successes` and `recycled` are history.

**TimedWait.** The relative-timeout loop of NtWaitForSingleObject in units of 100 ns.
nanosleep may return early with the time left, which the loop adds to `elapsed`.

**CriticalSection.** Enter, Leave and Delete with a step for each field access; only the
exchange on `LockCount` is atomic. The event behind `LockSemaphore` is a notification
event; closing it frees its handle, not its entry. Threads are told apart by `getpid()`,
which differs between guest threads because they are cloned without CLONE_THREAD.

**Startup.** The wrapper, then my_wine32 or my_wine64, step by step to the first guest
instruction. my_wine32 uses fixed addresses, so the address space is a set of page
intervals and a MAP_FIXED mapping replaces what was there; `lost` records what. Every
mapping and every system call the code checks may fail.

**ImageMapper.** `map_image_at` with every early return. Memory is counted in half-words,
so that a 32-bit word is two and a 64-bit word four of them and relocations carry from one
to the next. Headers are records of what the checks look at.

**ImportBinding.** The built-in table is filled in and sorted, pass 1 binds the address
tables, pass 2 follows the jump thunks in the code. Names are numbered in alphabetical
order; the binary searches are those of the source, and `Promised` is the plain search
they are compared with.

**DllSearch, DllLoader.** Where a library is looked for, with the two globals the search
shares with the loading; and `load_dll` and `resolve_module_imports` as a stack of calls in
progress, with the registry, the PEB lists and the clean-up of every failure. What is on
disk, whether mapping succeeds and what DllMain answers are choices.

**CrtPatch.** Which runtime a program was linked with, where its argc, argv and envp are,
which words are patched and where it starts, from its symbol table. The parsers skip the
string table's length word although offsets count from it, so four characters of a long
name are lost; `ReadAs` is that.

**Dispatcher.** A guest calls a thunk, the assembly saves its registers and changes stacks,
the generated switch fetches and checks arguments, writes results back, and all of it
unwinds. `Def` is `nt_syscalls.def`. Registers and words of the stack are followed for both
architectures.

**MuslHeap, WineHeap.** malloc, realloc, free and aligned_alloc on chunk headers, bins and
mappings, and the 32-bit backend with a mapping for each block, as operators on one record;
above them the heap handles, Local and Global functions and the C library's. Sizes are those
of the source, except the mapping threshold.

**VirtualMemory, GuestFiles, GuestPaths.** The tables of VirtualAlloc, sections and views
over a page map; files, directory searches and registry keys over descriptors and both
handle tables; and path resolution over small host trees, with both wildcard matchers.

**RenderBackend, Windows, MessageLoop.** The backend's windows, routes and queues as
operators on a record; user32's windows, with a stack of the calls that wait for a window
procedure and the callbacks each still makes; and the message loop over the posted, the
translated and the backend's queue, with the host producing events, signals and X11 errors
meanwhile. The guest is the loop of `samples/sdl2_two_window_close_chain`, which makes any
other call in between. `hist` is history.

**Dialogs, DialogControls.** Modeless and modal dialogs over `Windows` and the table of
dialog procedures; and the table of controls with rows, selections and texts.

**RenderSurfaces, DirectDraw.** Backend surfaces, flip chains and palettes, one colour to a
buffer; and the COM objects above them with their reference counts, attachments and
descriptors, in both layouts. GDI objects take slots of the same table.

**DirectSound.** Objects and buffers against `rb_audio_callback`. The callback holds the
device lock that every access to a mixer buffer takes, so it is one step. Positions are
fixed-point; samples are left out.

**MidiStream.** The stream calls against the worker thread; a step is one atomic access or
one critical section of `midi_lock`. The host's synthesizer works, fails or has no driver.

The `MC*` modules give the constants their values. A definition named in a comment as a
mutant is a wrong version of the definition after it; replacing the one by the other must
break the property `PROJECT.json` pairs it with, which shows that the property depends on
the code.

## Runs

| run | what is explored | properties |
|---|---|---|
| `handle_manager` | two threads in any `wine_handle_*` calls; apart from them a timed wait | RefCountExact, AllocFresh, AtomicCalls (implements `HandleStore`), LockProgress; SlicesAddUp, UncutWaitReturns |
| `load` | start-up, mapping, binding, library search, loading and freeing, runtime patches, system calls, each on its own | GuestStarts, LayoutKept; ImageReady; ImportsResolved; NearestDirectory; RegistryMatchesMemory, ImportsBoundAtAttach, KeptWhileHeld, LoadReturns; RuntimePrepared; CallRoundTrip |
| `messages` | the guest's loop and whatever happens meanwhile; two windows, filtered fetches and a signal; more posts than the ring holds | PostsKept, MessagesTaken, ShutdownCloses |
| `dialogs` | all calls on windows; dialogs and windows from inside each other's callbacks; controls | WindowsInStep, DiesAfterNcDestroy, BoxClosesDialog; ControlsConsistent |
| `guest_services` | heap, virtual memory, files, paths, kernel objects, a critical section, each on its own | HeapIntact, ContentsKept; RegionsKept; HandlesKeepMeaning; PathsResolve; AllOrNothing, OwnEntryUnlessRecycled; OneThreadInside, RecursionExact |
| `media` | DirectSound against the callback; MIDI calls against the worker; DirectDraw objects over backend surfaces, windows destroyed underneath, full tables, no memory | SoundConsistent, PlaybackEnds; EventsHandedOver, WorkerAnswers; SurfacesConsistent, NothingShared, FlipShows |
| `critical_section_wakeup`, `event_race`, `event_recycled`, `dll_lookup`, `dispatch_stack_args`, `dispatch_registers` | a sentence of the repository each | violated: see below |

A property such as WindowsInStep is the conjunction of several that its module states and
comments on one by one. The passing runs explore between 320,000 and 1,050,000 states each,
in one to three and a half minutes on two cores.

**Bounds.** Tables are small enough to run out, because the code's behaviour at the limit is
part of what is checked, and large enough for an entry to be freed and reused while another
is live. Two dynamic handles and a count of two do this for the handle manager, with two
threads, the fewest that contend; three threads in a critical section let two wait for one.
Slices of three microseconds divide some waits of one to ten and not others. The library
graphs are a chain that meets the depth limit, a shared import and a cycle. Image sizes and
stack commits lie on both sides of the addresses at which fixed mappings meet. Image files
vary section sizes, raw data and relocation blocks one at a time around a well-formed file,
import directories the kinds of thunk and the shape of the tables. Heap sizes reach the
smallest chunk, a page and a mapping of its own; calls that fail and calls on a second heap
are among the first two of a behaviour (`MaxRareOps`). A region of virtual memory is one
page or two, so that one may be put where a larger or a smaller one was.

`messages` has three loads, because all calls at once are too many states. "events" has two
calls of the guest and all that the host does, "shutdown" four calls with which the guest
makes two windows and fetches with filters, and a signal, "posts" four calls and three
posts to a ring of two. The synthetic queue holds two messages, the translated queue one,
and each gets full. A guest procedure may call again from inside a call (`MaxDepth` 2).

`dialogs` makes two windows in a behaviour, dialogs or not, nested in each other or one
after the other (`MaxCreates` 2, `MaxDepth` 3). It begins with nothing, after two earlier
windows, so that the route table, which doubles for every window, has no room for the
second one, or after a dialog that left its entry behind in a table of two. Some handles
are the guest's and can be closed, so that the handle table is full in some behaviours and
numbers are reused in others. There are three SDL windows, for a change to full screen to
make new ones.

Bounds on the number of calls (`MaxCalls`, `MaxOps`, `MaxDraw`, `Max...Ops`) are the ones
that cut behaviours short. `MaxDraw` is seven where a flip chain is made, drawn on, flipped
and drawn on again, and `ObjectCalls` five where all calls of DirectDraw are made; the others
are between two and five calls, with the callbacks, failures and threads in between not
counted.

**Fairness.** `handle_manager` assumes weak fairness of each thread's steps: the operating
system does not stop a thread for ever. It assumes nothing about who wins the test-and-set,
so LockProgress claims only that somebody gets the lock. The waiting thread keeps running
and nanosleep returns. `load` assumes that the loader runs on and DllMain returns;
`messages` that the guest keeps running its loop and its window procedures return; `media`
that SDL calls the callback while a device is open, that the worker thread runs and that a
call the guest has begun goes on. `critical_section_wakeup` assumes that threads run and a
guest that is in a section leaves it. No run assumes that a guest makes a further call.

**Deadlock.** The deadlock check is off in every run: a guest may wait for ever for an event
nobody sets or a message nobody sends, start-up ends, and the bounded numbers of calls run
out. What must not stop is stated as liveness instead: LockProgress, UncutWaitReturns,
LoadReturns, ShutdownCloses, PlaybackEnds, WorkerAnswers.

**What the guest is assumed to do.** The guest of the heap frees each block once and stays
within it; that of virtual memory and files releases what it was given, once, keeps a
section's file open while it maps views, gives the high part of a distance when it moves
back, and on 32 bit opens files with CreateFileA and has no other handles that CloseHandle
closes (32-bit file handles and the handle table's have the same values). The guest of
DirectDraw keeps the rules of COM. A window procedure does not destroy a window that a call
further out still works on (`Pinned`). The library search and the dispatcher have one
thread: `g_dll_path`, `pe_path`, the register block and the Unix stack are single, and
`docs/quickstart.md` calls threading partial.

## What the runs found

Each violated run checks one sentence of the repository and fails; the quotations are in
`PROJECT.json` under `findings`.

* `event_race`: `g_ko.lock` is never taken, so two threads in NtCreateEvent get one entry.
* `event_recycled`: closing an event leaves its entry; a new event on the same number is
  looked up as the old one.
* `critical_section_wakeup`: a release between a waiter's failed exchange and its reset of
  the event is lost, and the waiter sleeps while the section is free.
* `dll_lookup`: freeing a library leaves a hole below others and lowers `module_count`,
  where every lookup stops; the last library can then be neither found nor freed.
* `dispatch_stack_args`: a 64-bit system call with more than four arguments reads its fifth
  from the word where the thunk saved a register.
* `dispatch_registers`: the thunk saves r15 where it is said to save rdi, so a 64-bit system
  call returns with r15's value in rdi, which the guest's compiler takes to be preserved.

Some properties hold only with an exception, which their definitions and comments state.
Each of these is something the code does, in the model and in the runs.

* Loading. `load_dll` restores the main image's base, width and path, but not
  `image_size` (MainImageKept). An image above 0x00500000 or a stack commit above 512 KB
  overlaps fixed mappings of my_wine32 (LayoutKept). In a cycle of imports, or when DllMain
  loads a library, some imports are not bound (ImportsBoundAtAttach). A search of exports
  gives up at a name outside the image, so a module that has one is not held to its exports
  (BoundAsPromised).
* System calls. A 64-bit call does not preserve rdi (GuestResumes; see
  `dispatch_registers`), arguments from the fifth on are read from the wrong words
  (FirstFourArguments; see `dispatch_stack_args`), and on i386 a result is written back with
  64 bits and clears the next word (WritesWhereAsked).
* Waiting. A slice of a timed wait that a signal cuts short counts the time left, not the
  time slept (SlicesAddUp). Timeouts are whole microseconds, as kernel32's are; with a
  remainder below one the loop of NtWaitForSingleObject would not end (UncutWaitReturns).
* Memory and files. VirtualFree never finds the entry it means to remove, so with a size
  of 0 it uses the size of the first region that was at the address (`misfreed` in
  RegionsKept). NtCreateSection leaves its memory mapped when it fails half way (`leaked`). RegCreateKeyA loses the key it
  made when the handle table is full (`lostKeys` in HandlesOwnObjects).
* Paths. From the current directory "." names are looked up in their own case only, and a
  relative path that was found means something else after a change of directory
  (FoundPathStands). With a "*" before the end of a pattern, FindFirstFileA and FindNextFileA
  choose different names (MatchersAgree).
* Messages. A full translated queue loses the message and makes GetMessageA return 0 without
  a WM_QUIT (EndsOnQuit). A signal does not close a window whose WM_CLOSE was lost so, or
  for whose list there was no memory, or while the guest waits for ever in a GetMessageA
  other than its loop's (ShutdownCloses).
* Windows. A window procedure that refuses a window it has focused leaves the focus on a
  dead window (FocusAlive). A window put on full screen whose new SDL id cannot be read
  keeps a route to the old one (RoutesMatchWindows). A dialog box that found no room in the
  table of dialogs, or the entry of an earlier dialog with its handle, may return with its
  window open (BoxClosesDialog). In a list whose selection was removed, the next string
  added becomes the text while the first row becomes the selection (TextFollowsSelection).
* Sound. Play on a buffer that has reached its end, before the mixer has noticed, gives no
  sound, although `docs/architecture/backend.md` says that the cursor is reset (PlayStarts).
  After SetFormat has refused a format, a buffer's frequency and the mixer's may differ
  (ControlsAgree). One MIDI event may sound after a reset or a pause (OneLateEvent), and a
  volume set while the worker applies the one before may be undone (VolumeApplied). On a
  host with no audio driver, opening the synthesizer never gives up (JoinReturns).
* Pictures. A primary surface that is freed because there is no memory for its back buffer
  stays in its owner's list (OwnersListed). Two DirectDraw surfaces may name one backend
  surface when the handle of one is stale, after a window was destroyed or a chain replaced
  (SharedWhenStale). A flip exchanges buffers but not `own_buf_low32`, so a buffer of malloc
  may be given to munmap and the other way round (FreedAsMade).

## Proofs

`HandleManagerProofs` proves, for all sets of threads, table sizes and saturation points
that satisfy `TableAssumption` and `ManagerAssumption`:

* `Safety`: MutualExclusion, RefCountExact, LiveBinding and StandardStreams always hold;
* `AllocIsFresh`: `wine_handle_alloc` never returns a handle that is still referred to;
* `Atomicity`: the handle manager implements `HandleStore` (AtomicCalls).

The inductive invariant adds to these what makes them inductive: the lock is taken exactly
when some thread is between lock and unlock; a thread about to store holds in `local` what
the table holds now (the slot the scan chose is still the first free one, the count it
loaded is still the count), because nobody else can have stored since; and a thread past its
range check has a handle in the table. `StepInv` shows each action preserves it.
`AllocIsFresh` follows at the store, and `StepSimulation` maps each step to a step of
`HandleStore` or a stutter: the store (for the getters the load, for an early return the
entry) is where a call takes effect. The operators of `HandleStore` are an instance's own
copies; `SameOperators` identifies them. `LeastNatural` gives the scan its least free slot.

`CriticalSectionProofs` proves, under `SectionAssumption`, for all sets of threads, nesting
depths and sizes of the event table:

* `Exclusion`: OneThreadInside and RecursionExact always hold.

Its inductive invariant calls a thread the holder from the exchange that succeeds to the one
that gives LockCount back. There is at most one, LockCount is 0 while there is one,
RecursionCount follows the holder's entries from its first store on, and OwningThread names
the holder, a thread that has just released, or nobody. The last is what makes the unlocked
test `OwningThread == self` safe: a thread that finds itself there, and is not on its way
out, is the holder. The opposite does not hold: a late clear by the previous holder can
erase the present one.

`KernelObjectsProofs` has three theorems:

* `WaitLength`: for every timeout and slice length (`WaitAssumption`), SlicesAddUp. The
  invariant adds that the slice about to be slept fits into what is left of the timeout.
* `CreationAllOrNothing` and `OpenEventsFound`: for all table sizes, AllOrNothing and
  OwnEntryUnlessRecycled, with one caller at a time; `event_race` shows that with two they
  fail. The invariant says that the count of each table is the number of successful
  creations and the one under way, that exactly the entries below carry a handle, and that
  an open event has an entry of its number, only one if the number was never closed.

`StartupProofs` proves for every program that satisfies `ProgramsAssumption` (a PE32 and
its stack end below the pages that the kernel chooses from), and whatever fails:

* `LayoutSafe`: LayoutKept; and `GuestsStartSafely`: GuestStarts.

Its invariant says for every step of both loaders what is mapped before it and where, which
fields of the TEB, the PEB and the processor are set, and that what the kernel placed lies
above the fixed mappings. One lemma for each step shows that it is kept; `MapFixedEffect`
and the lemmas on free pages say what a mapping adds.

`NumberLemmas` has the facts about sets of numbers that the scans rest on.

Everything else is model-checked only: liveness and fairness, which are out of the prover's
reach; what recursive functions and folds over sequences compute (relocation, the heap's
lists, import tables, paths, MIDI buffers), which would need induction over data; and the
invariants of the other modules.

## Not modelled

* Thread creation and the context calls: the models take threads as given; the set-up of a
  cloned thread's stack is assembly and address arithmetic.
* Thread-local storage: a bitmap and an array, used by one thread.
* Resources, dialog templates and strings: reading of data in the mapped image.
* Time, environment, system information, string and code page functions, the C runtime's
  forwarding functions, DirectPlay and the stubs of common dialogs: conversions, queries of
  the host and fixed answers, with no state that another call depends on.
* Pixels beyond one colour to a buffer, samples, window geometry, titles, menus, cursors,
  painting and the choice of SDL drivers: data that no modelled decision depends on.
* The reports of the crash handlers, debug output and trace messages.
* Page protection after loading (VirtualProtect, VirtualQuery) and console modes.
* Inline fallbacks that only run without a runtime module, and functions that only the
  tests call (`parse_imports`).
* The patch of `__acrt_iob_func` in 64-bit programs: fifteen bytes of machine code.

Within modelled parts, `PROJECT.json` says under `components` which calls are left out.
