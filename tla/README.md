# A TLA+ verification of abyss

abyss runs inside Android applications and intercepts the system calls they
make. Its library is a trimmed PRoot: one process, the *tracer*, attaches the
application's processes with `ptrace`, a seccomp filter loaded in each of them
makes only the interesting system calls stop, and the tracer calls
`on_sysenter` and `on_sysexit` around those. A second, independent library
(`svcer`) does the same inside the process with `SECCOMP_RET_TRAP` and a
`SIGSYS` handler.

Paths below are relative to `src/library/src/main/jni/` unless they start with
`src/`.

## 1. Inventory

| part | state it keeps | operations | module |
|---|---|---|---|
| event loop (`tracee/event.c`) | the list of `Tracee`, `s_seccomp_enabled`, signal handlers | one iteration of `event_loop` per event of `waitpid`: `handle_tracee_event`, `restart_tracee` | `EventLoop` |
| tracees (`tracee/tracee.c`) | per process: `status`, `seccomp`, `sysexit_pending`, `restart_how`, `sigstop`, `parent`, `as_ptracer`, `as_ptracee` | `get_tracee`, `new_child`, `terminate_tracee`, `free_terminated_tracees`, `remove_tracee` | `EventLoop`, `PtraceEmulation` |
| stages (`syscall/syscall.c`, `enter.c`, `exit.c`) | `Tracee.status`, three register copies | `translate_syscall`, dispatch on the number | `EventLoop`; `PtraceEmulation` for ptrace and the waits |
| launching (`library.c`, `cmn/cmn_pthread_cond.c`, `Nativee.java`, `MTSTCProvider.java`) | `snew_attach_pid`, `s_work_thread_doing`, two condition variables | `tracer_init`, `trace_new_pid`, the helper process, the helper branch of `event_loop` | `Launch` |
| ptrace emulation (`ptrace/ptrace.c`, `wait.c`) | `waits_in`, `wait_pid`, `nb_ptracees`, zombies; `event4.{proot,ptracer}`, `tracing_started`, `options` | `ptrace(2)` and `wait4(2)` of a tracee that traces another, `handle_ptracee_event` | `PtraceEmulation` |
| seccomp filter (`syscall/seccomp.c`) | the BPF program being built | `find_libc_exec_maps`, `merge_filtered_sysnums`, `set_seccomp_filters`, one section per architecture | `SeccompFilter`, `Bpf` |
| call numbers (`syscall/sysnum.c`, `sysnums-*.h`, `arch.h`) | a table per ABI | `translate_sysnum`, `detranslate_sysnum` | `Sysnum` |
| callbacks, registers, calls made again (`library.c`, `tracee/reg.c`, `syscall/chain.c`) | CURRENT, ORIGINAL, MODIFIED registers; the queue of `chain.c`, which nothing fills | `peek_reg`, `poke_reg`, `push_regs`, `set_sysarg_data`, `restart_original_syscall` | `TracedCall` |
| tracee memory (`tracee/mem.c`) | | `write_data`, `read_data`, `read_string`, `peek_word`, `poke_word`, `alloc_mem` | `TraceeMemory`; `TracedCall` for `alloc_mem` |
| execve (`execve/*.c`), loader (`loader/loader.c`) | `LoadInfo`, the load script | `translate_execve_enter` and `_exit`, `expand_shebang`, `extract_load_info`, `add_mapping`, `transfer_load_script`, `_start` | `TracedCall`, `Execve`, `LoadScript` |
| ptrace requests (`ptrace/ptrace.c`, `user.c`) | the user area of a ptracee | GETREGS ... SETREGSET, PEEKUSER, POKEDATA, their 32-bit forms | `PtraceRequests` |
| paths (`path/path.c`, `canon.c`, `proc.c`) | | `join_paths`, `compare_paths`, `translate_path`, `canonicalize`, `readlink_proc`, `which` | `Paths`, `Names` |
| bindings (`path/binding.c`) | three lists | `new_binding`, `initialize_bindings`, `insort_binding`, `substitute_binding` | `Bindings` |
| arrays of pointers, linker environment (`execve/aoxp.c`, `ldso.c`) | the array with its local copies; `host_ldso_paths`, `guest_ldso_paths` | fetch, resize, write, push; `ldso_env_passthru`, `rebuild_host_ldso_paths` | `Xpointers`, `LdSo` |
| heap, sockets, limits (`syscall/heap.c`, `socket.c`, `rlimit.c`) | `Heap`, the tracer's limit | `translate_brk_*`, `translate_socketcall_*`, `translate_setrlimit_exit` | `Heap`, `Names` |
| svcer (`src/svcer/`) | lists of callbacks per call, saved SIGSYS action, BPF program | `init`, `registerCallback`, `unregisterCallback`, `handleSyscall`, `doSyscall`, the dumper | `SvcerHooker`, `SvcerFilter` |
| helpers (`cmn/`, `note.c`), application (`src/app`), test programs (`test/`) | | logging, arrays, use of the library | not modelled |

`build.h` defines HAVE_PROCESS_VM, HAVE_SECCOMP_FILTER and HANDLE_SYSCALL and
leaves USE_LOADER_EXE out. CMake compiles neither `heap.c`, `socket.c`,
`rlimit.c`, `user.c`, `aoxp.c`, `ldso.c`, `binding.c`, `canon.c`, `proc.c` and
`glue.c` nor the loader; they are part of the repository, and the modules on
them say so.

### How the parts interact

* The **tracer** is single-threaded: a work thread runs `event_loop`, which
  blocks in `waitpid(-1)` and handles one event after the other. Everything in
  `Tracee` is touched by that thread only. What is concurrent with it is the
  traced processes, which the kernel may kill at any instant, even while their
  event is being handled.
* **Binder threads** of the tracer's process run `trace_new_pid` for other
  processes. They share `snew_attach_pid` with the work thread, and the only
  thing that wakes the work thread is a helper process they fork and that
  exits at once; the work thread wakes them through a condition variable.
* The **kernel** decides the order of the events, in particular whether a
  child's first SIGSTOP or its parent's `PTRACE_EVENT_FORK` is reported first,
  and whether a system call stops, from how the process was last resumed
  (`PTRACE_CONT` or `PTRACE_SYSCALL`) and from the filter.
* A tracee may itself call `ptrace` (many applications and crash dumpers do).
  The tracer then **emulates** it: an event of a ptracee goes to
  `handle_ptracee_event` first, and the ptracee stays stopped until its
  ptracer's own `ptrace` call restarts it.

### Behaviours that are hard

1. *One stop, two meanings.* A syscall stop does not say whether it is an
   entry or an exit; `Tracee.status` does, and it must follow what the kernel
   does through acceleration (`seccomp` = ENABLED, DISABLING, DISABLED),
   through events between the two stages and through fork, where a child
   starts in the exit of its parent's call.
2. *Order of birth.* SIGSTOP before the fork event or after it; a child that
   dies before it is announced; a pid used again.
3. *Death in the middle.* Every ptrace request may fail with ESRCH.
4. *Two threads and a process* in `trace_new_pid`, with unprotected globals.
5. *Emulated waits.* A ptracer may wait in the kernel or in the tracer, and be
   woken by an event, by the death of its last ptracee or by its child's
   TRACEME.
6. *Generated code*: jump offsets of the BPF programs, order of statements of
   the load script.

The hazards of each part, with the line where they bite and the properties
that cover them, are in `PROJECT.json`.

### What makes each part correct

* Event loop and stages: the remembered stage is the real one (`StageAgrees`);
  a filtered call never executes before its `on_sysenter` (`NeverUnseen`) and,
  when filtered with `FILTER_SYSEXIT`, has both callbacks once, in order,
  around it (`BothStagesSeen`, and `Interception` as the abstract promise).
* Tracees: one live structure for each attached process that has been
  announced, none that survives its process (part of `IInv`); ptracees are
  never accelerated (`PtraceeStopsAtEachCall`); the tracer never ends with
  tracees left to run by themselves (`NobodyLeftUntraced`, refuted).
* Launching: a call that returns had its process attached
  (`ReturnMeansTraced`, with conditions that `ZeroMeansTraced`, refuted, does
  not make), nothing is attached but on behalf of a call in progress
  (`AttachInProgress`), every call returns (`CallReturns`, refuted;
  `WaiterIsWoken` is what holds).
* Ptrace emulation: a ptracer that waits is woken when there is something to
  say or nothing left to wait for (`NoLostWakeup`); the number of ptracees is
  right whoever dies first (`CountAgrees`); events handled late, on behalf of
  another process, lose no stage (`StagesKept`); only its ptracer resumes a
  ptracee (`ResumedByPtracer`); no tracee is left stopped for a ptracer that is
  gone (`PtraceesAreFreed`, refuted).
* Seccomp filter: with libc excluded or not, on every host, the program reports
  each call of the merged list, with the caller's flags where the caller names it
  (`NativeCallsReported`, `ForeignCallsReported`).
* A traced call: the program gets its registers back whatever was done to them
  (`RegistersKept`), a refused call never reaches the kernel and its error
  survives (`ErrorIsResult`), a new program has its own stack and word size
  (`NewStackKept`, `ModeKnown`).
* Memory: exactly the bytes asked for, whichever mechanism serves
  (`WriteExact`, `ReadExact`, `StringExact`, `WordExact`).
* Execve: the memory the loader builds is that of the segments (`LoadExact`),
  the right program starts with a corrected vector (`StartExact`, `AuxvExact`).
* Paths and bindings: each helper agrees with its meaning on lists of
  components; both lists stay sorted and the deepest binding is the one used.
* svcer: a trapped call reaches the kernel once with its own arguments
  (`KernelAskedOnce`), calls from the ignored libraries never trap
  (`FilterExact`, `NoReentry`); while the filter covers every thread and the
  dumper has the calls that matter, the handler stays installed and is not what
  the app is shown (`HookIntact`, `HookHidden`); a freed item is touched only
  if it was removed from inside a list or from one in use
  (`FreedOnlyIfCareless`).

The run `tracer` checks the properties of its modules as conjunctions, one for
each concern, of the parts named above and in the modules: `CallsReported`
(filter and numbers), `NewProgramKnown`, `MemoryExact`,
`ProgramFileExact`, `ProgramLoaded`, `PathsExact`, `BindingsExact`,
`NamesExact`, `RequestsExact`, `ArrayPushed`, `HeapHonest`, `LinkerPaths`. When
one fails, the parts, each an operator of its own, tell which it was.

## 2. The modules

### `EventLoop` - tracer and kernel

Variables in three groups. *Kernel*, per process: `at` (absent, untraced, in
user mode, at the syscall-entry stop, at the filter, in the call, after it, at
the exit stop, dying, dead), `ev` (the event `waitpid` would report), `sys`
(the kind of call), `tif` (resumed with PTRACE_SYSCALL), `opts`, `filter`,
`msg` (the pid of a fork event). *Tracer*: `T`, the list of structures with
the fields of `struct tracee` that decide control flow, and `tracer`.
*History*: `birth`, `enters`, `exits`; no action's guard reads them.

| action | code |
|---|---|
| `EnterKernel`, `MeetFilter`, `Execute`, `Exec`, `Fork`, `Exit`, `Die`, `Leave`, `GetSignal`, `Killed` | the kernel (external), as `event.c` relies on it |
| `Attach` | the helper branch, once the pid is published: `event_loop` 350-375 |
| `OnSigtrap`, `OnSigtrapFails` | bare SIGTRAP: options set at the first stop of a root, or `exit()` |
| `OnSysgood`, `OnSeccomp` | `SIGTRAP\|0x80` and the seccomp event: `CommonFlow`, `SeccompFlow`, `TranslateSyscall` |
| `OnClone`, `OnCloneAsserts` | fork events: `new_child` and its sanity checks |
| `OnSigstop`, `OnSignal`, `OnNote`, `OnGone` | the other events; `OnGone` is `terminate_tracee` |
| `OnOrphanTraceme` | `attach_to_ptracer` with a NULL parent: SIGSEGV |

Each iteration is one action and includes the freeing of terminated tracees
that precedes `waitpid` (`FreeTerminated`), the look-up or allocation of the
structure (`Lookup`), the default restart (`Default`), the handler and
`restart_tracee` (`Restart`). The parameter `alive` says whether the process
still existed when the handler's requests reached it: if not, register and
message requests fail, the handler takes its error path, and the restart
fails.

Data is abstracted to kinds of system calls: `plain` (not in the filter),
`enter` (filtered, flags 0), `both` (FILTER_SYSEXIT), and those the loop or
the kernel treats specially (`execve`, `traceme`, `fork`, `install`, `exit`).

### `Interception` and `EventLoopRefinement`

`Interception` is the promise made to the code hooked to a call: Enter,
Execute, Return in this order, the second callback guaranteed if it was asked
for; processes may vanish. `EventLoopRefinement` maps the event loop to it
(`Hooks`), for every process that has the filter and was announced in time.

### `Launch`

Three kinds of actors: the work thread (`work`), one call per app process
(`pc`), its helper process (`helper`), and the app processes (`app`). Each
access to a shared variable is a step: `Publish` writes `snew_attach_pid`,
`Attach`, `Record`, `Notify` and `Clear` are the four steps of the helper
branch, `WaitHelper` and `Notify` the two sides of the condition variable
without the predicate the code does not test. `WakesByItself` is the return of
`pthread_cond_wait` that nobody signalled, `AttachFails` also an EPERM for a
process that is alive and not traced; two history variables, `unsignalled` and
`refused`, remember for whom these happened.

### `PtraceEmulation`

The part of the tracer that `EventLoop` has only the effect on acceleration
of: tracees that trace tracees. *Kernel*: `at`, `stop` (an event `waitpid` has
still to report, or one that was *taken* and of which the process was not
resumed), `call`, `void` (was the number of the call replaced with PR_void?),
`poked` (a pending SIGSTOP), `father`. *Tracer*: `T`, with the fields of
`as_ptracer` and `as_ptracee`, the `zombies`, and `tracer`, which may have
*crashed* (an assertion, a NULL parent) or be *traced* (`restart_tracee` with
a `restart_how` of 0 is PTRACE_TRACEME). *History*: `twice`.

Handlers call each other across processes here: the exit stage of a ptracer's
`ptrace` call handles the pending event of its ptracee and restarts it; the
death of a ptracer does so for all of its ptracees; a ptracee's event restarts
the ptracer. Each function of the code is an operator from world to world (a
record of the variables it may write), and one iteration of `event_loop` is
one action that composes them: `HandleTracee` (nobody's ptracee, or an event
`handle_ptracee_event` returns false for at once), `HandlePtracee` (kept until
the ptracer asks) and `HandleAwaited` (the ptracer sleeps in a wait for it).

| operator | code |
|---|---|
| `EnterStage`, `ExitStage` | `translate_syscall` and the dispatch of ptrace and wait |
| `WaitEnter`, `WaitExit`, `UpdateWaitStatus` | `wait.c` |
| `Traceme`, `Attach`, `Request`, `Configure` | `translate_ptrace_exit` |
| `Unexpected`, `Notified`, `Awaited`, `Woken` | `handle_ptracee_event` |
| `NewChild` | what `new_child` does for ptracees, with its sanity checks |
| `Release`, `ReleaseAll`, `LeavePtracer` | `remove_tracee` |

Events kept pending are only entries and signals (the others are handled
first), so `HandlePending` is `handle_tracee_event` without its exit stage.
No process is accelerated, SIGCHLD is left out, the options are all set or
none, and the order of a list is the parameter `first`. SINGLESTEP and
SINGLEBLOCK are left out.

### `SvcerHooker`, `SvcerFilter` and `Bpf`

`Bpf` is the kernel's side of a filter: the check of an installed program (no
jump leaves it) and its execution; `SeccompFilter` uses it too. `SvcerFilter`
has the search of libraries in `/proc/self/maps`, the filter built from them,
and the assembly that makes the original call, as the moves between registers
it consists of.

`SvcerHooker` has the threads of the app, those that run (`running`) and those
the installed filter applies to (`covered`): prctl(PR_SET_SECCOMP) covers the
thread that calls `init`, and a thread has the filters of the one that started
it (`Spawn`). The handler of SIGSYS is the process's. `init` is three steps,
`initChecks`, `initHandles` (up to `sigaction`) and `initFilters`, between which
other threads run. The lists are items of `items`, linked by `next`, with a head
in `g_callbacks`. Nothing locks them, so each read or write of them is a step,
and `op[t]` says where the operation of a thread is:

| actions | code |
|---|---|
| `registerCallback`, `addAll`, then `makesArray` | `registerCallback` finds `g_callbacks`, or allocates it |
| `readsHead`, then `putsFirst` or `creates` | it reads the head; the new item becomes the head, or is made for `addNext` of the head, read again |
| `addNext`, `linksLast` | one level of the recursion; the write of `mNext` |
| `unregisterCallback`, `compares`, `unlinks`, `putsHead`, `deletes` | the removal of a head: it is read, compared, its `next` read, written to the head, the item deleted |
| `seeks`, `matches`, `deletes` | the search behind the head, which deletes an item and leaves it linked |

A callback may register and remove, too. The handler (`frame`) is a stack of
activations that goes from item to item: `AppCall`, `Dispatch` (the next callback
is called), `Pass` (it calls `doSyscall`), `Finish` (it returns).

The calls are those that concern SIGSYS and seccomp, to set and to ask, and one
other: a `rt_sigaction` that asks for the action, `prctl(PR_GET_SECCOMP)`, and
`seccomp(2)`, which the filter does not have. What is not trapped, because the
thread is not covered, the caller is in an ignored library, or `init` has not
come so far, reaches the kernel (`Kernel`), and so does what no dumper answers.

A world gathers what differs between phones and apps: the architecture, the
layout of the libraries, what can fail, the calls and callbacks there are, and
the bounds. Restrictions: threads call `init` one at a time (two at once would
install two filters), no thread ends, and a write is seen by every thread at
once, in the order of the program.

### `TracedCall`

One process on arm64 and its calls. `phase` and `cpu` are the process; `tracee`
is what the tracer keeps: the banks `cur` and `orig`, `how`, `status`, `mode`
(`is_aarch32`). `SysEnter` and `SysExit` are `translate_syscall` at
either stage, whole: `save_current_regs`, the callback with any sequence of
operations of `Callbacks` (those of `library.h:50-64` that change a register),
the dispatch on the number (prctl, execve, others), refusal, `push_regs`. The
filter may report a call with its exit, without it, or not at all, whatever the
call is. The kernel executes what the registers ask for, and an execve of a file
of `Files` replaces the program, with its class and stack. `chain.syscalls` is
always NULL here: nothing in the repository registers a chained call.

### Functions that keep no state

`Trial` has one variable. A module on such functions has an action that calls
one of them on any small input and leaves input and output there, and its
properties relate the two:

| module | functions | the reference they are compared with |
|---|---|---|
| `Sysnum` | both look-ups, five tables | each is the inverse of the other |
| `SeccompFilter` | the filter of four hosts, libc excluded or not | the calls of the merged list |
| `Paths` | `path.c`, `canonicalize` | lists of components |
| `Bindings` | configuration and look-up | the deepest path among the bindings |
| `Names` | socket addresses, `/proc` links, `which` | the names they stand for |
| `TraceeMemory` | `mem.c` in worlds of protected pages with or without process_vm | the bytes before and after |
| `Execve` | scripts, chains of scripts, ELF headers | the words of the first line, the program at the end |
| `LoadScript` | mappings, script, loader, auxiliary vector | the segments of the file, byte by byte |
| `PtraceRequests` | register and memory requests, 32-bit ptracers | the registers of the same name |

The memory of `LoadScript` and `TraceeMemory` is a function of small addresses
with small pages; sizes that matter only relative to one another (pages, words,
PATH_MAX, sun_path) are CONSTANTS.

### `Xpointers`, `Heap`, `LdSo`

Small state machines. `Xpointers`: one array fetched, edited in any order and
pushed; `want` is the list it should stand for, `words` the array the tracee's register
points to, through which the kernel reads (`Given`). `Heap`: calls of brk with any
outcome of the mmap or mremap made for it, `mapped` being the kernel's pages
(and, as a trial, the tracer's stack limit). `LdSo`: programs of the host and
of the guest that execute one another and set LD_LIBRARY_PATH.

`MCTracer` extends all of these: from the initial state a behaviour makes calls,
or tries one function, or edits one array, or moves the break, or runs
programs. One run is enough since nothing is shared between them.

### What the sources say of themselves

`EventLoopClaims`, `LaunchClaims` and `PtraceClaims` state what comments and
documentation of the repository say and the code does not do. They
are properties of the same specifications, checked by the runs of section 4.

### Proofs

`EventLoopProofs` (with the refinement), `LaunchProofs`, `PtraceProofs`,
`SvcerHookerProofs` and `TracedCallProofs` each extend the module they are about,
`PathsProofs` and `TracerProofs` those of the parts that `MCTracer` checks one by
one. `Lemmas` has what they share: induction over numbers, and what the programs of
both filters say.
See section 5.

## 3. The runs

| run | question | bounds | result |
|---|---|---|---|
| `one_tree` | does the tracer's memory agree with the kernel, and is no call missed? | one root and one child pid used again and again, all kinds of calls, both kernels | passes, 2.5 million states |
| `generations` | what does a grandchild inherit, and does the loop keep `Interception`? | three processes in a row or side by side, symmetric; none dies, gets a signal or is late | passes |
| `late_child` | is `status` always the stage? | root and child | violated: finding 1 |
| `tracer_aborts` | is nobody left untraced when the tracer ends? | root and child, forks only | violated: finding 2 |
| `serial_calls` | is a call answered, by the right process? | three calls one after the other, deaths, refused attachments, waits that end by themselves | passes, 350,000 states |
| `overlapping_calls` | is anything attached for nobody? | three overlapping calls, fork failures and all of the above | passes, 6.3 million states |
| `lost_wakeup` | does a call return? | one call | violated: finding 3 |
| `overlapping_return` | does 0 mean traced? | two overlapping calls | violated: finding 4 |
| `ptracers` | does any wait sleep over an event, is any stage lost, does only a ptracer resume its ptracees? | three menus: a parent that traces its child and grandchild with `wait4` for any, for one, with WNOHANG, CONT, SYSCALL, SETOPTIONS, KILL; a parent that may DETACH its child, whose fork it may trace too; and a child that traces the grandchild, which the parent may ATTACH first. All may be killed | passes, 900,000 states |
| `ptracer_dies` | are the ptracees of a dead ptracer free? | the first of these menus | violated: finding 5 |
| `svcer_hook` | is the filter exact, and does each trapped call reach the kernel once, in its registers? | fifteen worlds of `MCSvcer`: one thread, whose callbacks may register and remove, with every call; two threads that race for lists of three items, that race for a list with a handler in it, and that race with `init`; up to two calls of `init` | passes, 1.9 million states |
| `tracer` | are the registers and the error of a call right; is each function right on every small input? | two calls of the program, two restarts, six sequences of a callback, four filters; paths of up to four characters out of `/`, `a`, `.`; maps of the tracee with libc within one window of addresses, across two, or without it; transfers of up to five bytes, from up to three buffers, over two pages of four; scripts of six characters; three program headers, segments of five bytes; two bindings besides `/`; arrays of three; four executions | passes, 174,000 states |

Why the bounds are enough. In `EventLoop` processes interact in pairs only: a
parent with its child (inheritance, TRACEME, orphaning) and a pid with its
next user. A root and one more pid show both; the child's child, which
inherits what was inherited, is what `generations` adds. System calls do not
interact, one of each kind is enough. Deadlock is not checked
(`CHECK_DEADLOCK FALSE`): when all processes are dead, when the tracer has
ended or when every call has returned nothing more happens, and that is right.
`generations` leaves out, by the constraint of `MCEventLoop`, deaths, signals
and late processes, which `one_tree` has.

The runs of `PtraceEmulation` take three processes because the interesting
cases have a ptracer, a ptracee and a third that is a second ptracee of the
one or the ptracee of the other. Each process has a menu of calls (`Menus`,
one of which is chosen at first) that it makes in any order, any number of times.

The inputs of `tracer` are small and complete: what these functions can get
wrong is where a separator, an end, a page or a word begins, and the constants
are chosen so that each boundary lies inside the inputs: a transfer can start
and end anywhere in a word and a page, with every protection of each page; a
path can be longer than sun_path (4), and one component as long as its buffer (NAME_MAX, 4), not than PATH_MAX (12), but for
`TooLong`; a list of directories fits, just does not, or is too long;
addresses of the filter have two words of radix 4, so that libc can cross from
one high word to the next. Deadlock is not checked: a trial ends the behaviour.
`CHECK_DEADLOCK FALSE` in `svcer_hook` for the same reason: an app may have
nothing more to call.

Restrictions that stand for what the code does not promise:

* `birth # "late"`. A child that is resumed before its parent's fork event is
  handled takes its parent's acceleration in the middle of a call (finding 1);
  likewise one whose pid was already known from somebody else. The properties
  of `EventLoop` are about all the others, including those of which the
  SIGSTOP came first but whose event never came, because the parent died.
* `tracer = "running"`: nothing is promised after the tracer has ended.
* `Guarded` in `HookIntact` and `HookHidden`: `init` has succeeded with no library
  to ignore, every thread that runs is covered, and each list had a dumper
  before any callback that retries, since when no write has replaced a pointer
  that was there. Without one of these the kernel answers the app. What `prctl`
  cannot do `seccomp(2)` can: the property promises nothing of it.
* `careless` in `FreedOnlyIfCareless`: a removal of an item that is not the head, or
  one from a list that another operation or a handler is at work on.
* `Concurrent = FALSE`, `ForkFails = FALSE` in `serial_calls`, and
  `unsignalled = {}` in `ReturnMeansTraced` and `RootIsTarget`: finding 4
  shows what happens when calls overlap; after a failed fork, and after a wait that
  ended by itself (section 4), the call returns 0 with nothing attached.
  `AttachInProgress` needs none of them.
* `c \notin refused` in `WaiterIsWoken`: a call whose process PTRACE_ATTACH was
  refused for is never answered (section 4).
* `q \notin twice` in `StagesKept`. When a ptracer is killed in its emulated
  wait and the event of its ptracee comes before its death, `wait.c:361-362`
  gives the event back to `event_loop` although it was handled already.
* `tracee.mode = class` in `RegistersKept`: a refused execve of a program of the
  other class (below).
* `Cardinality(story.forged) <= 1` in `GuestPathKept`, `clear` in `RpathExact`:
  what `ldso.c` does otherwise is below.

Fairness. Only `Launch` has liveness: weak fairness of the work thread, of
each call and of each helper (threads and processes that can run do), none of
`Call`, `Dies` or `WakesByItself`. `WaiterIsWoken` is the liveness that holds: a
call that waits before its helper is handled returns, unless its process died or
PTRACE_ATTACH was refused for it. `CallReturns`, without this condition,
is refuted under the same fairness. The event loop has no liveness property of
its own: what a traced process does next is its own affair.

## 4. Findings

1. `late_child`: `event.c:643-650` says a new child stays stopped until its
   fork event is handled; the code that does it is commented out. The child's
   `status` can then be wrong for the rest of its life.
2. `tracer_aborts`: `event.c:285-287` says no process is left untraced when
   the tracer gets a fatal signal; the handler does not kill them. The tracer
   itself can raise one: the sanity check of `new_child` fails when a pid is
   used again after its first user died unannounced.
3. `lost_wakeup`: `trace_new_pid_internal` waits on a condition variable
   without testing anything, and the signal may have come before.
4. `overlapping_return`: two calls share one `snew_attach_pid` and one
   condition variable.
5. `ptracer_dies`: `tracee.c:109` says of the ptracees of a dead process that
   they are now free; one that was stopped for an event of which its ptracer
   had been told, and that PRoot had handled first, is never restarted.

Seen while modelling, with no run of their own; the properties exempt them, in
the words quoted in their comments, or hold in spite of them:

* *Launching.* The wait of `cmn_pthread_cond.c:22` may return by itself; the call
  then erases the pid and returns 0 (`Nativee.java:42`: success) with nothing
  attached. When PTRACE_ATTACH is refused for a live process (`event.c:351-354`)
  the helper branch leaves without a signal, and the call, which should return
  something other than 0, never does.
* *Registers.* The comment of `mem.c:499-503` says the stack pointer is
  restored by the exit stage; `push_regs` does so also after a successful
  execve whenever a register was changed, with the pointer of the old program.
  A refused execve of a program of the other class leaves `is_aarch32` set for
  it (`execve/exit.c:470`).
  `prctl(PR_SET_DUMPABLE)` is voided without a result: the program gets its
  first argument, 4. `chain.c` would not do for a client that used it: it
  allocates the size of the list's head for each of the larger calls (`67`), and
  frees the list and keeps the pointer (`101`).
* *Memory.* `read_string` returns `max_size + 1` for a string without an end,
  and `syscall_get_sysarg_str` (`library.c:252`) writes one byte behind that.
  After a failed process_vm call, `write_data` and `read_data` test an errno
  that the fallback has not cleared and report `-EFAULT`.
* *Filter.* The comment at `seccomp.c:293-306` describes the program without
  libc excluded only. `translate_sysnum` reads the entry behind its table.
  `seccomp.c:521` says that flags are merged and `630` that the calls required by
  PRoot are added; one that the caller names too is left out of the internal list,
  with its FILTER_SYSEXIT (`620-627`). A program started by an execve without an
  exit stage is then read with the registers of the old one's class: the first
  exception of `ModeKnown`. `execveat` is in the internal list and in no table of
  numbers: it is never filtered.
* *Execve.* `extract_shebang` at the end of the file overwrites the last
  character of the path and drops an argument under way. `add_mapping` maps one
  page too many when the file part of a segment ends with a page, and with a
  bss the loader then clears a page past the end of the file, which is a
  SIGBUS. AT_BASE of a program without interpreter is its own base. `raw_path`
  dangles after an error, and is read only with USE_LOADER_EXE. The loader
  assumes a PT_LOAD.
* *Paths.* `translate_path` does not canonicalize (`389`) though its comment says
  so, and takes a relative path from the tracer's working directory (`363-366`)
  where the comment (`323-326`) means the tracee's; `belongs_to_guestfs` is always true and `detranslate_path`
  does nothing. `canonicalize` never follows a link, since the status it tests
  is that of `join_paths`; it follows that `glue.c` is never reached. A binding
  of which the path cannot be canonicalized still induces bindings under "/";
  of "/a" and "/a!" either may win. `which` says it always returns -1 on an
  error (`path.c:119`) and returns -EACCES for a file that is not executable. A
  socket's binding stays when its address cannot be pushed; the stub of
  `create_temp_directory` returns its own name. The assertion of
  `readlink_proc2` fails for referrers directly in `/proc`. `getcwd2` writes
  nothing over an earlier configuration (`path.c:262-268`), and a relative guest
  path is then joined to what was on the stack (`binding.c:495-505`): the model
  takes several bases, and `DeepestBinding` is about a first configuration only.
* *Ptrace requests.* GETREGSET and SETREGSET return -1 and not -errno, and leak
  their buffer, when the kernel refuses. SETREGS of a 32-bit ptracer fills the
  ten registers it has no name for (r8 to r15, fs_base, gs_base) with what was in
  the buffer and on the stack (`ptrace.c:424-428`): the property promises nothing of
  them; offsets of debug
  registers are rounded down. On hosts other than x86-64 the 32-bit forms are
  `assert(0)`.
* *aoxp and ldso.* `aoxp.c:349` says that a push copies the array into the tracee and
  `409` that nothing is written when nothing changed; an array that only lost or
  gained entries counts as unchanged (`410`), and the kernel reads the old one.
  A push asserts when every entry of an array without NULL was
  read. `host_ldso_paths` and `guest_ldso_paths` are remembered the first time
  only: a host program with other run paths, or a guest that began without
  LD_LIBRARY_PATH, makes the guest see a path of the host.
  `find_program_header` takes the address behind a segment for a part of it,
  and the last segment when none has the address.
* *svcer.* On arm a jump of the filter leaves the program, the kernel refuses
  it, and `init` returns -14 with the handler installed. A libc or linker that
  is not a symbolic link fails with -10 or -11. Unregistering an item that is
  not the head leaves a dangling pointer. A callback that asks for a retry
  before the dumper lets `rt_sigaction` through; the dumper takes getcwd's
  result for a pointer. The filter is installed without
  `SECCOMP_FILTER_FLAG_TSYNC`: a thread that ran before `init` is not covered, can
  replace the handler and sees the hook's. `seccomp(2)` is not in the filter:
  the app may add a filter of its own. A read of the action of SIGSYS that comes
  before `addAll`, or without the dumper, returns the hook's handler. The lists
  are changed with no lock: of two registrations at once one may be lost, the
  array of the heads may be made twice, and an item may be freed under a walk.

## 5. What is proved

With TLAPS (SMT, Zenon, LS4), for every value of the constants that the named
assumption of the module allows:

| module | theorems | assumption |
|---|---|---|
| `EventLoopProofs` | `EventLoopTypeOK`, `TracerMirrorsKernel`, `StagesAgree`, `NoneUnseen`, `BothStagesAreSeen`, `PtraceesStop`; `LoopImplementsInterception`, the refinement | `EventLoopAssumption`: the roots are processes, NULL is not one |
| `LaunchProofs` | `LaunchTypeOK`, `AttachOnlyInProgress`; `SerialReturnMeansTraced`, `SerialRootIsTarget` when calls do not overlap and fork succeeds, as in `serial_calls` | `LaunchAssumption` |
| `PtraceProofs` | `SpecSound`, `PtraceTypeOK`, `CountsAgree`, `StagesAreKept`, `ResumedByItsPtracer`, `NoWakeupIsLost` | `PtraceAssumption`: finitely many processes, nobody its own father |
| `SvcerHookerProofs` | `HookerSound`, `HookerTyped`, `FreedOnlyIfCarelessHolds`, `KernelAskedOnceHolds`, `HookHiddenHolds`, `HookerInstalled`, `FilterExactHolds`, `NoReentryHolds`, `HookIntactHolds` | `HookerAssumption`, below; `WordAssumption`: a machine word has at least two values |
| `TracedCallProofs` | `TracedSound`, `TracedTyped`, `RegistersKeptHolds`, `ErrorIsResultHolds`, `NewProgramKnownHolds` | `TracedCallAssumption`, below |
| `TracerProofs` | `HeapSound`, `HeapHonestHolds` | `HeapAssumption`: the program ends at the end of a page, a page is larger than a byte, and the values of an int are whole pages |
| | `FilterReportsCalls` | `FilterRequestsAssumption`, `WordAssumption`: below |
| | `ArrayPushedHolds` | `XpointersAssumption`: strings are not empty, and two markers are not strings |
| | `MemoryExactHolds` | `MemoryAssumption`: a word has an even number of bytes, a page any number |
| | `RequestsExactHolds` | `RequestsAssumption`: a set of registers is not empty |
| | `ProgramFileHolds` | `ExecveAssumption`: the kernel's buffer holds more than `#!` and an end, a path may have a symbolic link, and there is a file |
| `PathsProofs` | `PathsExactHolds` | `PathsAssumption`: neither the separator nor the zero that ends a string is a character of a name, and NAME_MAX has room for `..` |

*The event loop.* The inductive invariant is `IInv`. `StageAgrees` is not
inductive: that an entry stop finds `status = 0` depends on how the process
was resumed at its previous stop, on whether it had the filter then, and, for
a child, on its parent. `Mirrors(p)` states for each place of the kernel what
the structure of a process there holds (`InUser`, `InEntry`, `InFilter`,
`InBody`, `InLeave`), `Listing` that it has one, `Unset` what a root is before
its options are set; `Linked` ties a pending fork event to the child it
announces, and `Optioned`, `Untouched` and `Placed` exclude places a process
cannot be in. The proof goes by process: a step of the kernel or an iteration
for *p* disturbs `Mirrors(p)`, which is proved stage by stage (`EntryStage`,
`ExitStage`, `FilterStage`, `EntrySound`, `SysgoodSound`, `SeccompSound`,
`SigtrapSound`), and leaves the others sound (`OtherStaysSound`,
`PassedOnSound`) except the child of a fork event, which inherits a sound
structure (`ChildSound`, `CloneKeeps`). The four property theorems follow from
`IInv` without induction. TLC checks `IInv` in `one_tree`.

*The refinement.* Each step of the kernel or the loop is shown to be, through
`Hooks`, one step of `Interception` for one process, or a `Vanish` of some
processes (of none, when it is a stutter). It needs `IInv`: that a process at
its exit stop was entered exactly once, for instance, is `Mirrors`.

*Launch.* `Published` (a published pid belongs to a call in progress) is
inductive with no hypothesis. `SerialInv` adds `OneCall` and, until a wait ends by
itself, `Answered` and `Answering`: the call the work thread answers is the only
one.

*Ptrace emulation.* `CountAgrees` is about lists that a handler changes for
several processes at once: the death of a ptracer frees all of its ptracees and
zombies, an attach moves one from nobody to a ptracer. `Sound` adds to it that
a pointer to a ptracer leads to a process that is there (`Linked`), that a
process that is absent, dead or not listed has nothing attached (`Steady`),
and which process a fork event announces and what it inherits (`Ordered`,
`Forked`); without these `new_child` could attach a child twice. Every operator
from world to world has a lemma that says what it changes (`RestartEffect`,
`EnterEffect`, `PendingEffect`, ...), then one that it keeps a world `Good`, and
an iteration of the loop composes these. `ReleaseAll`, a loop over a list, is
proved with sums over finite sets.

`StagesKept` is about processes with an event to report; an event can be handled
when it is reported, or much later, by a request of the ptracer or its death,
and `InStage` says of each place and stop which stage is due: at an entry it is
0 while the event waits for the ptracer (`proot`) and 1 once it was handled. It
also says that a process that sleeps in an emulated wait is at the exit of it,
and that a ptracee that is not stopped cannot be restarted by its ptracer's
death though its news was not told. `Ready` and `Done` are what holds of the one
process between the start and the end of its iteration. For
`ResumedByPtracer`, an action property, `Held` is followed through the handlers
of another process: a stopped ptracee stays with its ptracer or is dead, and
`RestartTracee` is reached with it only from `Request`, where the ptracer gives
the order, and from `Release`, where the ptracer is dead.

`NoLostWakeup` needs, besides `Sound`, `AllRest`: a process that sleeps in an
emulated wait has something left to wait for and, while it lives, is stopped and
can be restarted (`Asleep`), nobody sleeps over a process kept for it, and a
dead process has still to be reported (`Calm`). The last part is what makes the
rest inductive: a ptracer that was killed in its wait cannot be restarted when
it is woken, and would be news its own ptracer has missed if its death were not
still to come. While the event of *r* is handled, `Calm` is required of
everybody but *r* (`Rest`), which has been stopped and not yet told: it is
restored when *r* is restarted, becomes a zombie, or is kept with nobody
sleeping for it (`Unwaited`). That a process is put to sleep only by the exit
of its own wait is followed through the handlers (`MayExit`, `Turn`), and the
steps that leave a sleeper what it sleeps for, or give a ptracer nothing new to
be told, are those of `Quiet` and `Unnewsed`.

*svcer.* `Sound` is the types, what an operation on a list holds at each of its
steps (`Ops`), and what an activation of the handler holds: where it is tells how
often the kernel was asked and with which registers (`Kept`).
`HookerAssumption`: finitely many types of callbacks, among them rt_sigaction
and prctl; three architectures; any behaviour of each callback out of the four;
any lines of `/proc/self/maps`, in any order, provided that no line of another
file begins within the library's own span, which the linker reserves as a whole
(`Mapped`); any number of threads, and worlds with any bounds.

`FreedOnlyIfCareless` holds by the invariant `Clean`: unless somebody was careless,
the lists are `Tidy`. That what a head, a live item, an operation and a handler
point to is live, and of the type of their list (`HeadsGood`, `NextsGood`, `OpsGood`,
`FramesGood`), is what the property is about, and it is not inductive: a removal
deletes an item that it has taken out of the list two steps before. The rest of
`Tidy` says that nobody has it any more by then: no item is behind two others
(`OnePrevious`), the removed one is behind none (`TakenFirst`), only one that is
about to be deleted is before a head (`HeadsFirst`), what follows it is behind it
alone (`PutNext`), a new item that is not linked yet is nowhere else
(`NewUnlinked`), there is one removal from a list at a time (`OneRemover`), and
the item that is about to be deleted is no head (`DeletedGone`). `TidyGoesOn` is
for the steps that move an operation and write nothing, `AppendTidy`, `HeadPut`,
`LinkPut`, `HeadTaken` and `HeadDeleted` for each kind of write. TLC has found
`Clean` to hold in every state of `svcer_hook`.

`FilterExact` and `NoReentry` are about the verdict of a program on every
address. `Verdict` is a recursive function over the positions of a program;
that it has values is `RunExists`, because a program only jumps forward, and
`VerdictRuns` lets it be followed one instruction at a time (both in `Lemmas`,
with what each instruction says). Each section of
the filter then has a lemma, whatever comes behind it: what the test of the
number leaves (`NumberSays`), when a library's section lets an address through
(`RangeSays`, `LibSays`), and from these the verdict of the whole (`VerdictIs`).
`ArmIsRefused` says that the kernel does not accept the program of arm, so that
an installed filter is one of the 64-bit ones. `FoundSpans` and `FoundCovers`
say of the search of the libraries that it returns the span of their lines.
`Installed`, an inductive invariant, has that the filter is the one built from
the world and never changes.

`HookIntact` and `HookHidden` hold by an invariant `Intact`: while the hook is on
guard there is a set of items (`Shield`) that contains the heads of the lists for
rt_sigaction and prctl, and that no handler of such a call leaves before a
dumper has answered it (`Behind`). `shielded` says that there was one when `init`
ended (`ShieldMade`), and `Fills` that no write of a pointer has replaced one
since, so that it is one still (`ListStaysIntact`, `linksLastIntact`). That such a
call is trapped at all is `SetIsTrapped`, that `doSyscall` goes from one item of
the set to another `PassedOn`, and that a thread which starts while the hook is on
guard is covered `SpawnIntact`.

*One traced call.* `Sound` says for each stage of a call what the registers are,
the kernel's and the cached ones: before the enter stage (`Asked`), between the
stages (`InKernel`), at the exit stage (`Leaving`). None of the properties is
inductive without it: that the program gets its registers back, for instance,
rests on the tracer having saved those that were asked, in the right class, and
on its knowing of every register it changed. `TracedCallAssumption`: a callback is
any finite sequence of operations; a filter may report any call with or without
its exit, execve included, and it names calls only (no voided number, none the
tables do not have).

*The tracer's filter.* `FilterRequests` is any set of requests: any of the four
hosts, libc excluded or not, any maps of the tracee and any list of calls of any
length. `TableRoundTrip` and `PastTable` say of the two look-ups that they are
inverse, and `NumbersApart` that no two calls of a table have one number.
`MergeExact` says of `merge_filtered_sysnums`, whatever the two lists, which calls
the merged list has and with which flags. The program is then taken apart as
`set_seccomp_filters` puts it together: a section tests its architecture and
passes to the next one (`SectionInsns`, `SectionParts`), goes through the calls of
its list (`TraceSays`), and, when libc is excluded, first through the addresses
(`PlainSays`, `ExcludeSays`, `SectionSays`); `ProgramSays` is the verdict of the
whole on every call of every architecture. `LibcFound` says that the two tests of
half a word each are right about the span found, or about -1. `FilterTried`, the inductive invariant, has that the
trial is the filter of a request.

*Arrays.* `ArrayHeld`, inductive while the array is edited, says of every entry what
it stands for: one that was not read, for the string behind its pointer (`Stands`). `OffsetsApart`,
by induction over the entries, has that the strings of a block are next to each
other and do not overlap, and `PushHolds` that what the kernel reads through the
words of the tracee is what was wanted; for an array that is not pushed `Unmoved`
has that the tracee's words are still those of the entries, unless it was resized
(section 4); `JoinedParts` is what an insertion or removal leaves.

*Memory.* A word-wise transfer is followed by its whole words and the rest
(`WholeParts`, `WriteSays`), several buffers by induction over them
(`WritevSays`): whichever mechanism serves and wherever it fails, memory is as if
the first *k* bytes had been stored. `read_string` reads chunks that end with a
page: `ChunksCover` has that they are next to each other, `BeforeLeaving` that
those before the first that ends the loop have no zero, and `StringSays` composes
the two.

*Ptrace requests.* One lemma for each request and each way it fails
(`GetExact`, ..., `PokeUserExact`). What needs more is the requests of a 32-bit ptracer
that go register by register (`FirstErrorSays`) and the layout of its user
area: `Places` and `PlacesApart` have that each offset has one register, so that a
poke at the place of one changes only this one. `OthersKept` has that a request
changes one part of the ptracee.

*Program files.* The loop over the characters of a script has as invariant
`SoFar`: three places mark where the interpreter begins and ends and where its
argument begins (`Marked`), and what was read is the text between them (`At`,
`Ended`, `Cut`); `OneMoreChar` follows one character, and `WordsAre` has that these
places are those of the property, which looks at the whole line. A chain of
scripts is followed by `Following`: after *n* rounds *n* scripts were met, or the
program or the file that ended it; since the property numbers the interpreters by
a function of its own, `InterpreterSays` first says how they follow one another.
For the headers, `Loaded` is what the first *n* say (`Fine`) or why the loop was
left (`Told`), and `InOrderGrows` keeps the mappings in the order of the headers.

*Paths.* The helpers are followed on the characters and what they did is read
off the components, which the properties cut with a recursive function: `Growth`
shows something of every path by adding one character at its end, and so what
cutting makes of two paths behind each other (`CutAnew`, `ComponentsApart`). A
canonical path is its components with a separator before each (`Spelled`,
`WholePath`), hence the comparison and the prefix of characters are those of
the lists of components (`PrefixIs`, `CompareSays`), and a path behind another's
stem can be moved (`BehindPrefix`, `SubstituteSays`). For `canonicalize`,
`NextComponentSays` has what one component is and how much of the path was
read, `PopSays` that a directory is left, and `Good`, the invariant of the walk, that the
path built is canonical and where the components read so far lead; each step
reads at least one character, so that the walk ends (`WalkEnds`).

*The heap.* `HeapMapped` needs to know that the heap begins on a page: then the
answer of mmap, as an int, can be negative but never in the range of errors
(`AlignedIsNoErrno`).

*Induction.* The library's theorems on induction take an operator as a
parameter, which no installed prover can instantiate. `InductionOverNat` says
the same of sets of numbers, from the well-foundedness of a relation on `Nat`,
and `LoopExists` that a recursive function over `0..m` has values: loops are written
that way in the modules that are proved about.

*Only model-checked*:

* `WaiterIsWoken`: liveness under fairness is out of the prover's reach.
* `BindingsExact`, `NamesExact`, `ProgramLoaded` and `LinkerPaths`: both sides
  of these compare what folds make of bindings, files and environments of any
  length. This is induction over data, and their inputs are small and complete in
  `tracer`.

## 6. What is not modelled

The wording of logs; groups of signals and stops (`SIGTSTP`); kernels before
4.8, which report the seccomp stop before the syscall stop; `clone` flags;
SINGLESTEP, SINGLEBLOCK and `__WCLONE`; the arguments of a call behind the
second, which are treated as the second is; failing allocations, but where a
function tests for them; i386 and MIPS in svcer, and SuperH, which no build
file selects; the halving of words of a load script for 32-bit programs; two
threads in brk at once. Most of `syscall/enter.c` and `exit.c`, the rewriting
of `argv` by `expand_shebang`, `detranslate_path` and the links of
`canonicalize` are commented out or unreachable in the sources, and are so in
the models.

Not modelled as components: `glue.c` (never reached) and the stubs of `temp.c`;
`cmn_back_call_stack.c`, which unwinds a tracee's stack into the log;
`cmn_vlarray.c`, `cmn_utils.c`, `cmn_proc.c` and `note.c`; the application, the
`jni` directory of which is a partial copy of the library's; the programs of
`test/`.

Two hazards of `PROJECT.json` have no property, with the reason there: a
TRACEME without a parent and a failing PTRACE_SETOPTIONS are modelled, and
nothing is promised of them.

## 7. Plan

1. SINGLESTEP in `PtraceEmulation`; an abstract mailbox of events per ptracer.

The modules write recursion as functions and keep their parameters CONSTANT so
that each can be proved about as well as checked.
