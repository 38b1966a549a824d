--------------------------- MODULE SeccompFilter ---------------------------
(***************************************************************************)
(* The filter a traced process installs in itself (syscall/seccomp.c): the *)
(* list of calls to report, the program built from it, section after       *)
(* section, and the two calls that install it.                             *)
(***************************************************************************)
EXTENDS Bpf, Sysnum, Trial

CONSTANT FilterRequests  \* [host, exclude, maps, list]: where and what tracee_init asks for

Entry(pr, exit) == [value |-> pr, exit |-> exit]

Entries  == [value : PR_calls, exit : BOOLEAN]
MapLines == [name : STRING, exec : BOOLEAN, start : 0..(Word * Word - 1), end : 0..(Word * Word - 1)]

ASSUME FilterRequestsAssumption ==
    FilterRequests \subseteq [host : Hosts, exclude : BOOLEAN, maps : Seq(MapLines), list : Seq(Entries)]

\* The items of s at the positions in P, in the order of s.
Kept(s, P) ==
    LET kept[n \in 0..Len(s)] ==
            IF n = 0 THEN <<>> ELSE IF n \in P THEN Append(kept[n - 1], s[n]) ELSE kept[n - 1]
    IN  kept[Len(s)]

internal_sysnums ==
    <<Entry("ptrace", TRUE), Entry("wait4", TRUE), Entry("waitpid", TRUE),
      Entry("execve", TRUE), Entry("execveat", TRUE), Entry("readlinkat", TRUE)>>

\* The first executable mapping of libc; both ends are -1, the largest
\* address, when there is none.
find_libc_exec_maps(maps) ==
    LET hits == {n \in DOMAIN maps : maps[n].exec /\ maps[n].name = "libc"}
        n == CHOOSE k \in hits : \A l \in hits : k <= l
    IN  IF hits = {} THEN [start |-> Word * Word - 1, end |-> Word * Word - 1]
        ELSE [start |-> maps[n].start, end |-> maps[n].end]

\* The caller's list, and the internal calls it does not name.
with_internal(list) ==
    list \o Kept(internal_sysnums,
                 {i \in DOMAIN internal_sysnums :
                     \A n \in DOMAIN list : list[n].value # internal_sysnums[i].value})

merge_one(merged, e) ==
    IF \E n \in DOMAIN merged : merged[n].value = e.value
    THEN [n \in DOMAIN merged |->
            IF merged[n].value = e.value THEN Entry(e.value, merged[n].exit \/ e.exit) ELSE merged[n]]
    ELSE Append(merged, e)

merge_filtered_sysnums(list) ==
    LET merged[n \in 0..Len(list)] == IF n = 0 THEN <<>> ELSE merge_one(merged[n - 1], list[n])
    IN  merged[Len(list)]

(***************************************************************************)
(* The program.  LENGTH_END_SECTION is 1, LENGTH_TRACE_SYSCALL is 2.       *)
(***************************************************************************)
add_trace_syscall(nr, exit) ==
    <<Jump("jeq", nr, 0, 1), Ret(IF exit THEN "trace_exit" ELSE "trace")>>

trace_syscalls(calls) ==
    [i \in 1..(2 * Len(calls)) |->
        LET c == calls[(i + 1) \div 2]
        IN  add_trace_syscall(c.nr, c.exit)[IF i % 2 = 1 THEN 1 ELSE 2]]

end_arch_section == <<Ret("allow")>>

JA(k) == Jump("ja", 0, k, k)

\* Mutant: the jump over what libc does is one instruction short of the load.
start_arch_section_off_by_one(exclude, libc, arch, traced) ==
    <<Load("arch"), Jump("jeq", arch, 1, 0), JA(4),
      Load("ip"), Jump("jgt", Low(libc.end), 0, 1), JA(1),
      Jump("jge", Low(libc.start), 0, 1), JA(1 + 2 * traced), Load("nr")>>

start_arch_section(exclude, libc, arch, traced) ==
    LET section_length == 1 + 2 * traced
    IN  IF exclude
        THEN <<Load("arch"), Jump("jeq", arch, 1, 0), JA(4),
               Load("ip"), Jump("jgt", Low(libc.end), 0, 1), JA(2),
               Jump("jge", Low(libc.start), 0, 1), JA(section_length), Load("nr")>>
        ELSE <<Load("arch"), Jump("jeq", arch, 1, 0), JA(section_length + 1), Load("nr")>>

finalize_program_filter == <<Ret("kill")>>

\* The calls of the list that an ABI has, by its numbers.
abi_calls(host, abi, list) ==
    LET call(n) == [nr |-> detranslate_sysnum(host, abi, list[n].value), exit |-> list[n].exit]
    IN  Kept([n \in DOMAIN list |-> call(n)], {n \in DOMAIN list : call(n).nr # SYSCALL_AVOIDER})

\* The traced calls of a section: those of each ABI of the architecture, ABI
\* after ABI.
traced_calls(host, arch, list) ==
    LET calls[i \in 0..Len(arch.abis)] ==
            IF i = 0 THEN <<>> ELSE calls[i - 1] \o abi_calls(host, arch.abis[i], list)
    IN  calls[Len(arch.abis)]

arch_section(req, libc, arch, list) ==
    LET calls == traced_calls(req.host, arch, list)
    IN  start_arch_section(req.exclude, libc, arch.value, Len(calls))
        \o (trace_syscalls(calls) \o end_arch_section)

set_seccomp_filters(req, libc, list) ==
    LET archs == SECCOMP_ARCHS(req.host)
        sections[i \in 0..Len(archs)] ==
            IF i = 0 THEN <<>> ELSE sections[i - 1] \o arch_section(req, libc, archs[i], list)
    IN  sections[Len(archs)] \o finalize_program_filter

(***************************************************************************)
(* enable_syscall_filtering, as tracee_init calls it: whatever fails, the  *)
(* process goes on without a filter.                                       *)
(***************************************************************************)
enable_syscall_filtering(req, fails) ==
    LET libc == find_libc_exec_maps(req.maps)
        list == merge_filtered_sysnums(with_internal(req.list))
        prog == set_seccomp_filters(req, libc, list)
    IN  Try("filter", req, [filtered |-> ~fails /\ Accepted(prog), libc |-> libc, prog |-> prog])

FilterNext == \E req \in FilterRequests, fails \in BOOLEAN : enable_syscall_filtering(req, fails)

FilterSpec == TrialInit /\ [][FilterNext]_trial

(***************************************************************************)
(* Properties.                                                             *)
(***************************************************************************)
Filtered == trial.op = "filter" /\ trial.out.filtered

\* What is done to a call the caller names: whatever flags it asks for, the
\* union of them if it names the call twice.  An internal call is reported
\* with its exit only when the caller does not name it: enable_syscall_filtering
\* leaves the internal entry of a call that was named out, before
\* merge_filtered_sysnums could merge its flags.
Reported(pr) ==
    LET entries == {trial.in.list[n] : n \in DOMAIN trial.in.list}
        mine == {e \in entries : e.value = pr}
    IN  IF mine # {} THEN (IF \E e \in mine : e.exit THEN "trace_exit" ELSE "trace")
        ELSE IF \E n \in DOMAIN internal_sysnums : internal_sysnums[n].value = pr
        THEN "trace_exit" ELSE "allow"

\* ip lies in the first executable part of libc.
InLibc(ip) ==
    LET line(n) == trial.in.maps[n]
        IsPart(n) == line(n).name = "libc" /\ line(n).exec
    IN  \E n \in DOMAIN trial.in.maps :
            /\ IsPart(n) /\ \A m \in 1..(n - 1) : ~IsPart(m)
            /\ line(n).start <= ip /\ ip <= line(n).end

\* The filter compares the low words of addresses only: it excludes libc as it
\* should for the call sites of the 4 GB window libc lies in.
Comparable(ip) == High(trial.out.libc.start) = High(trial.out.libc.end) /\ High(ip) = High(trial.out.libc.end)

VerdictOf(arch, nr, ip) ==
    Verdict(trial.out.prog, [arch |-> arch, nr |-> nr, ip |-> Low(ip)])

\* Whatever the list, a call of the process's own architecture that its table
\* has is reported to the tracer exactly when the caller named it or it is one
\* of the internal calls, and is not made by libc when libc is excluded; its
\* exit is, if an entry of the caller asks for it or if only the internal list
\* names it.  The instruction pointer the kernel compares is the one after the
\* call.  No table has execveat: it is never reported, though both lists may
\* name it.
NativeCallsReported ==
    Filtered =>
        LET req == trial.in
            arch == SECCOMP_ARCHS(req.host)[1]
        IN  \A n \in DOMAIN arch.abis :
            \A pr \in DOMAIN get_sysnums(req.host, arch.abis[n]).table.entries :
            \A ip \in 0..(Word * Word - 2) :
                ~req.exclude \/ Comparable(ip) =>
                    VerdictOf(arch.value, detranslate_sysnum(req.host, arch.abis[n], pr), ip)
                        = IF req.exclude /\ InLibc(ip) THEN "allow" ELSE Reported(pr)

\* As the comment on set_seccomp_filters has it, unless libc is excluded:
\* every other architecture of the host has its own section with its own
\* numbers, and a call of any other architecture is killed.  When libc is
\* excluded the first section ends every call of another architecture.
ForeignCallsReported ==
    Filtered =>
        LET req == trial.in
            archs == SECCOMP_ARCHS(req.host)
        IN  /\ \A i \in 2..Len(archs) : \A n \in DOMAIN archs[i].abis :
               \A pr \in DOMAIN get_sysnums(req.host, archs[i].abis[n]).table.entries :
                 VerdictOf(archs[i].value, detranslate_sysnum(req.host, archs[i].abis[n], pr), 0)
                     = IF req.exclude THEN "allow" ELSE Reported(pr)
            /\ VerdictOf("unknown", 0, 0) = IF req.exclude THEN "allow" ELSE "kill"

\* A number of any ABI survives the translation to its neutral value and
\* back, and only the entry after the last one is read past the table.
NumbersRoundTrip ==
    trial.op = "filter" =>
        \A abi \in Abis(trial.in.host) :
            LET host == trial.in.host
                s == get_sysnums(host, abi)
            IN  /\ \A pr \in DOMAIN s.table.entries :
                      translate_sysnum(host, abi, detranslate_sysnum(host, abi, pr)) = pr
                /\ \A nr \in {s.offset - 1, s.offset + s.table.length - 1, s.offset + s.table.length,
                              s.offset + s.table.length + 1} :
                      translate_sysnum(host, abi, nr) = "past" <=> nr = s.offset + s.table.length

\* set_seccomp_filters: the installed program does to every call that a table
\* has, of every architecture, what Reported says of it, by its number there.
CallsReported ==
    /\ NativeCallsReported
    /\ ForeignCallsReported
    /\ NumbersRoundTrip

=============================================================================
