---------------------------- MODULE SvcerFilter ----------------------------
(***************************************************************************)
(* What the in-process hook decides before it is installed:                *)
(* svcer_finder.cpp, which looks in /proc/self/maps for the libraries      *)
(* whose calls are let through; the filter svcer_hooker.cpp builds from    *)
(* them; and the assembly of svcer_syscall.cpp, which makes the original   *)
(* call from inside the library.                                           *)
(***************************************************************************)
EXTENDS Bpf, Sysnum

Libs == {"self", "vdso", "libc", "linker"}

MaxAddr == Word * Word - 1

(***************************************************************************)
(* SvcerFinder: the range of a library is the span of its lines in         *)
(* /proc/self/maps; one that has no line keeps the empty range.            *)
(***************************************************************************)
NoRange == [start |-> MaxAddr, end |-> 0]

SvcerFinder == [lib \in Libs |-> NoRange]

\* Mutant: only the first line of a library is taken.
doSearchLineFirst(finder, line) ==
    IF line.name \in Libs /\ finder[line.name] = NoRange
    THEN [finder EXCEPT ![line.name] = [start |-> line.start, end |-> line.end]]
    ELSE finder

doSearchLine(finder, line) ==
    IF line.name \in Libs
    THEN [finder EXCEPT ![line.name] =
            [start |-> IF line.start < @.start THEN line.start ELSE @.start,
             end   |-> IF line.end > @.end THEN line.end ELSE @.end]]
    ELSE finder

isValid(finder) ==
    \A lib \in {"libc", "linker", "self"} : finder[lib].start < finder[lib].end

\* readlink fails on a file that is no link: what it returns is compared with
\* EINVAL, which it never is.
doInitSysLibPath(links) ==
    IF "libc" \notin links THEN -10 ELSE IF "linker" \notin links THEN -11 ELSE 0

found(maps) ==
    LET after[n \in 0..Len(maps)] ==
          IF n = 0 THEN SvcerFinder ELSE doSearchLine(after[n - 1], maps[n])
    IN  after[Len(maps)]

search(links, maps, opened) ==
    CASE doInitSysLibPath(links) # 0 -> doInitSysLibPath(links)
      [] doInitSysLibPath(links) = 0 /\ opened = "no" -> -20
      [] OTHER -> IF isValid(IF opened = "read" THEN found(maps) ELSE SvcerFinder) THEN 0 ELSE -29

(***************************************************************************)
(* The filter.  Jump distances are those of the source.                    *)
(***************************************************************************)
NR_arm == [open |-> 5, openat |-> 322, prctl |-> 172, rt_sigaction |-> 174, fcntl |-> 55,
           execve |-> 11, close |-> 6, seccomp |-> 383]
NR_arm64 == [openat |-> 56, prctl |-> 167, rt_sigaction |-> 134, fcntl |-> 25, execve |-> 221,
             close |-> 57, seccomp |-> 277]
NR_x86_64 == [open |-> 2, openat |-> 257, prctl |-> 157, rt_sigaction |-> 13, fcntl |-> 72,
              execve |-> 59, close |-> 3, seccomp |-> 317]

\* linux_syscalls.h: the numbers the library is compiled with.
NR(arch) ==
    CASE arch = "arm" -> NR_arm [] arch = "aarch64" -> NR_arm64 [] arch = "x86_64" -> NR_x86_64

doInitSyscallNumberFilter(arch) ==
    <<Load("nr")>>
    \o (IF arch = "arm" THEN <<Jump("jeq", NR(arch).open, 21, 1)>> ELSE <<>>)
    \o <<Jump("jeq", NR(arch).openat, 3, 0),
         Jump("jeq", NR(arch).prctl, 2, 0),
         Jump("jeq", NR(arch).rt_sigaction, 1, 0),
         Ret("allow")>>

\* Mutant: the bounds are tested with the jumps of one instruction less.
doInitSyscallLibFilterShortJump(arch, r) ==
    <<Load("ip_high"),
      Jump("jeq", High(r.start), 0, 3),
      Load("ip"),
      Jump("jge", Low(r.start), 0, 2),
      Jump("jge", Low(r.end), 1, 0),
      Ret("allow")>>

doInitSyscallLibFilterByAddr(arch, r) ==
    IF arch = "arm"
    THEN <<Load("ip"),
           Jump("jge", r.start, 0, 2),
           Jump("jge", r.end, 1, 0),
           Ret("allow")>>
    ELSE <<Load("ip_high"),
           Jump("jeq", High(r.start), 0, 4),
           Load("ip"),
           Jump("jge", Low(r.start), 0, 2),
           Jump("jge", Low(r.end), 1, 0),
           Ret("allow")>>

\* The library itself is always let through, another one if the mode, a set of
\* the ESvcerHookerMode_Ignore bits, says so and it was found.
LibFilter(arch, mode, finder, lib) ==
    IF lib \in mode /\ finder[lib].start < finder[lib].end
    THEN doInitSyscallLibFilterByAddr(arch, finder[lib]) ELSE <<>>

\* Mutant: the library itself is not among them.
doInitSyscallLibFilterNotSelf(arch, mode, finder) ==
    LibFilter(arch, mode, finder, "vdso")
    \o (LibFilter(arch, mode, finder, "libc")
    \o (LibFilter(arch, mode, finder, "linker") \o <<Ret("trap")>>))

doInitSyscallLibFilter(arch, mode, finder) ==
    doInitSyscallLibFilterByAddr(arch, finder["self"])
    \o (LibFilter(arch, mode, finder, "vdso")
    \o (LibFilter(arch, mode, finder, "libc")
    \o (LibFilter(arch, mode, finder, "linker") \o <<Ret("trap")>>)))

SvcerProgram(arch, mode, finder) ==
    doInitSyscallNumberFilter(arch) \o doInitSyscallLibFilter(arch, mode, finder)

SeccompData(nr, ip) == [nr |-> nr, ip |-> Low(ip), ip_high |-> High(ip)]

(***************************************************************************)
(* The registers of a context: the macros SECCOMP_SYSCALL, SECCOMP_RESULT  *)
(* and SECCOMP_PARM1 to 6 of seccomp_macro.h.                              *)
(***************************************************************************)
SECCOMP_aarch64 == [nr |-> "x8", result |-> "x0", parm |-> <<"x0", "x1", "x2", "x3", "x4", "x5">>]
SECCOMP_arm == [nr |-> "r7", result |-> "r0", parm |-> <<"r0", "r1", "r2", "r3", "r4", "r5">>]
SECCOMP_x86_64 ==
    [nr |-> "rax", result |-> "rax", parm |-> <<"rdi", "rsi", "rdx", "r10", "r8", "r9">>]

SECCOMP(arch) ==
    CASE arch = "aarch64" -> SECCOMP_aarch64
      [] arch = "arm"     -> SECCOMP_arm
      [] arch = "x86_64"  -> SECCOMP_x86_64

KernelRegs(arch) == {SECCOMP(arch).nr} \cup ToSet(SECCOMP(arch).parm)

(***************************************************************************)
(* SyscallAsm: the moves that load the registers the kernel reads, in the  *)
(* order of the source.  Ldr loads a word of the array of arguments, if    *)
(* the base still points to it.                                            *)
(***************************************************************************)
Mov(dst, src) == [dst |-> dst, src |-> src, word |-> 0]
Ldr(dst, base, word) == [dst |-> dst, src |-> base, word |-> word]

\* Mutant: x0 is loaded before the number it holds is saved in x8.
SyscallAsm_aarch64_clobbers ==
    [entry |-> [nr |-> "x0", args |-> "x6"],
     moves |-> <<Ldr("x5", "x6", 6), Ldr("x4", "x6", 5), Ldr("x3", "x6", 4), Ldr("x2", "x6", 3),
                 Ldr("x1", "x6", 2), Ldr("x0", "x6", 1), Mov("x8", "x0")>>]

SyscallAsm_aarch64 ==
    [entry |-> [nr |-> "x0", args |-> "x6"],
     moves |-> <<Ldr("x5", "x6", 6), Ldr("x4", "x6", 5), Ldr("x3", "x6", 4), Ldr("x2", "x6", 3),
                 Ldr("x1", "x6", 2), Mov("x8", "x0"), Ldr("x0", "x6", 1)>>]

SyscallAsm_arm ==
    [entry |-> [nr |-> "r0", args |-> "r6"],
     moves |-> <<Ldr("r5", "r6", 6), Ldr("r4", "r6", 5), Ldr("r3", "r6", 4), Ldr("r2", "r6", 3),
                 Ldr("r1", "r6", 2), Mov("r7", "r0"), Ldr("r0", "r6", 1)>>]

SyscallAsm_x86_64 ==
    [entry |-> [nr |-> "rdi", args |-> "rsi"],
     moves |-> <<Mov("rax", "rdi"), Ldr("rdi", "rsi", 1), Ldr("rdx", "rsi", 3),
                 Ldr("r10", "rsi", 4), Ldr("r8", "rsi", 5), Ldr("r9", "rsi", 6),
                 Ldr("rsi", "rsi", 2)>>]

SyscallAsm(arch) ==
    CASE arch = "aarch64" -> SyscallAsm_aarch64
      [] arch = "arm"     -> SyscallAsm_arm
      [] arch = "x86_64"  -> SyscallAsm_x86_64

Moved(regs, move, args) ==
    [regs EXCEPT ![move.dst] = CASE move.word = 0 -> regs[move.src]
                                 [] move.word > 0 /\ regs[move.src] = "args" -> args[move.word]
                                 [] OTHER -> "junk"]

\* What the kernel finds in its registers when Call is made.
Call(arch, nr, args) ==
    LET asm == SyscallAsm(arch)
        entry == [r \in KernelRegs(arch) \cup {asm.entry.nr, asm.entry.args} |->
                    CASE r = asm.entry.nr   -> nr
                      [] r = asm.entry.args -> "args"
                      [] OTHER -> "junk"]
        after[n \in 0..Len(asm.moves)] ==
          IF n = 0 THEN entry ELSE Moved(after[n - 1], asm.moves[n], args)
    IN  [r \in KernelRegs(arch) |-> after[Len(asm.moves)][r]]

=============================================================================
