------------------------------ MODULE Sysnum ------------------------------
(***************************************************************************)
(* System call numbers (syscall/sysnum.c, syscall/sysnums-*.h, arch.h,     *)
(* tracee/abi.h): each ABI of a host has a table from its own numbers to   *)
(* the neutral ones the tracer reasons with.  A table is given here by the *)
(* entries of the calls the other modules speak of and by its last index;  *)
(* every other entry is an opaque call.                                    *)
(***************************************************************************)
EXTENDS Integers, FiniteSets

PR_void == "void"
SYSCALL_AVOIDER == -1

Table(entries, last) == [entries |-> entries, length |-> last + 1]

sysnums_arm == Table(
    [open |-> 5, close |-> 6, execve |-> 11, ptrace |-> 26, brk |-> 45, fcntl |-> 55,
     wait4 |-> 114, prctl |-> 172, rt_sigaction |-> 174, mmap2 |-> 192, openat |-> 322, readlinkat |-> 332], 412)

sysnums_arm64 == Table(
    [fcntl |-> 25, openat |-> 56, close |-> 57, readlinkat |-> 78, ptrace |-> 117,
     rt_sigaction |-> 134, prctl |-> 167, brk |-> 214, execve |-> 221, mmap |-> 222, wait4 |-> 260], 291)

sysnums_i386 == Table(
    [open |-> 5, close |-> 6, waitpid |-> 7, execve |-> 11, ptrace |-> 26, brk |-> 45,
     mmap |-> 90, socketcall |-> 102, wait4 |-> 114, mmap2 |-> 192, openat |-> 295,
     readlinkat |-> 305], 412)

sysnums_x86_64 == Table(
    [open |-> 2, close |-> 3, mmap |-> 9, brk |-> 12, rt_sigaction |-> 13, execve |-> 59,
     wait4 |-> 61, fcntl |-> 72, ptrace |-> 101, prctl |-> 157, openat |-> 257,
     readlinkat |-> 267], 439)

sysnums_x32 == Table(
    [open |-> 2, close |-> 3, mmap |-> 9, brk |-> 12, wait4 |-> 61, openat |-> 257,
     readlinkat |-> 267, execve |-> 520, ptrace |-> 521], 542)

\* The calls a list may name: "opaque" is any other.
PR_calls == {"execveat", "opaque"} \cup UNION {DOMAIN t.entries :
                t \in {sysnums_arm, sysnums_arm64, sysnums_i386, sysnums_x86_64, sysnums_x32}}

\* The neutral numbers of a 64-bit ARM host, and what is read past a table.
Sysnums == {PR_void, "opaque", "past"} \cup DOMAIN sysnums_arm.entries \cup DOMAIN sysnums_arm64.entries

(***************************************************************************)
(* The hosts: the audit architectures their kernel reports and the ABIs of *)
(* each, and the table of each ABI.                                        *)
(***************************************************************************)
Hosts == {"x86_64", "arm64", "arm", "x86"}

SECCOMP_ARCHS(host) ==
    CASE host = "x86_64" -> <<[value |-> "X86_64", abis |-> <<"DEFAULT", "3">>],
                              [value |-> "I386", abis |-> <<"2">>]>>
      [] host = "arm64"  -> <<[value |-> "AARCH64", abis |-> <<"DEFAULT">>],
                              [value |-> "ARM", abis |-> <<"2">>]>>
      [] host = "arm"    -> <<[value |-> "ARM", abis |-> <<"DEFAULT">>]>>
      [] host = "x86"    -> <<[value |-> "I386", abis |-> <<"DEFAULT">>]>>

get_sysnums(host, abi) ==
    CASE host = "arm64" /\ abi = "DEFAULT"  -> [table |-> sysnums_arm64, offset |-> 0]
      [] host = "arm64" /\ abi = "2"        -> [table |-> sysnums_arm, offset |-> 0]
      [] host = "arm" /\ abi = "DEFAULT"    -> [table |-> sysnums_arm, offset |-> 0]
      [] host = "x86_64" /\ abi = "DEFAULT" -> [table |-> sysnums_x86_64, offset |-> 0]
      [] host = "x86_64" /\ abi = "2"       -> [table |-> sysnums_i386, offset |-> 0]
      [] host = "x86_64" /\ abi = "3"       -> [table |-> sysnums_x32, offset |-> 1073741824]
      [] host = "x86" /\ abi = "DEFAULT"    -> [table |-> sysnums_i386, offset |-> 0]

Abis(host) == UNION {{a.abis[i] : i \in DOMAIN a.abis} :
                     a \in {SECCOMP_ARCHS(host)[i] : i \in DOMAIN SECCOMP_ARCHS(host)}}

\* The neutral number; the entry after the last one is read past the table.
entry_of(s, sysnum) ==
    LET index == sysnum - s.offset
        named == {pr \in DOMAIN s.table.entries : s.table.entries[pr] = index}
    IN  IF sysnum < s.offset \/ index > s.table.length THEN PR_void
        ELSE IF index = s.table.length THEN "past"
        ELSE IF named = {} THEN "opaque"
        ELSE CHOOSE pr \in named : TRUE

translate_sysnum(host, abi, sysnum) == entry_of(get_sysnums(host, abi), sysnum)

\* The number of the ABI, or the avoider when the table has none.
index_of(s, pr) ==
    IF pr \in DOMAIN s.table.entries THEN s.table.entries[pr] + s.offset ELSE SYSCALL_AVOIDER

detranslate_sysnum(host, abi, pr) == index_of(get_sysnums(host, abi), pr)

=============================================================================
