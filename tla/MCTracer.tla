------------------------------ MODULE MCTracer ------------------------------
(***************************************************************************)
(* The tracer's handling of one call, for TLC: the stages of a call with   *)
(* its registers, and, before the program has made one, single calls of    *)
(* the functions that keep no state, the edits of one array of pointers,   *)
(* the calls that move the break, or a run of programs under QEMU.         *)
(***************************************************************************)
EXTENDS TracedCall, SeccompFilter, Names, TraceeMemory, Execve, LoadScript, PtraceRequests,
        Xpointers, Heap, LdSo

C(pr, a1, a2) == [pr |-> pr, a1 |-> a1, a2 |-> a2]
MCPrograms == {C("openat", 1, 60), C("openat", 1, 9), C("openat", 1, 0), C("prctl", 4, 0),
               C("prctl", 5, 0), C("execve", 60, 1), C("execve", 61, 1), C("execve", 62, 1),
               C("execve", 0, 1), C("wait4", -1, 0), C("ptrace", 0, 5), C("close", 3, 0)}

Poke(reg, value) == [op |-> "poke", reg |-> reg, value |-> value]
Data(reg, size, value) == [op |-> "data", reg |-> reg, size |-> size, value |-> value]
MCCallbacks ==
    {<<>>, <<Poke("a1", 3)>>, <<Poke("a2", 60)>>, <<Data("a2", 20, 60)>>,
     <<Data("a1", 16, 61), Data("a2", 1, 60)>>, <<Data("a2", 200, 60)>>}

MCFiles == 60 :> [status |-> 0, class |-> 64] @@ 61 :> [status |-> 0, class |-> 32]
           @@ 62 :> [status |-> -13, class |-> 64]

\* Filters: the calls of the client and those of the tracer, with and without
\* their exits.
F(client, internal) ==
    [openat |-> client, close |-> client, prctl |-> client, execve |-> internal, wait4 |-> internal,
     ptrace |-> internal]
MCFilters == {F("exit", "exit"), F("trace", "exit"), F("trace", "trace"), F("exit", "trace")}

\* Maps of the tracee: libc with two executable parts in one window or in two,
\* one above the word size, one across two windows, none.
X(name, exec, start, end) == [name |-> name, exec |-> exec, start |-> start, end |-> end]
MCMaps == {<<X("app", TRUE, 1, 3), X("libc", FALSE, 4, 5), X("libc", TRUE, 5, 6), X("libc", TRUE, 9, 10)>>,
           <<X("libc", TRUE, 8, 9), X("libc", TRUE, 11, 11)>>, <<X("libc", TRUE, 9, 11)>>,
           <<X("libc", TRUE, 6, 9)>>, <<X("app", TRUE, 1, 3)>>}
MCFilterLists == {<<>>, <<Entry("openat", FALSE)>>, <<Entry("ptrace", FALSE), Entry("brk", TRUE)>>,
                  <<Entry("openat", FALSE), Entry("open", TRUE), Entry("openat", TRUE)>>}
MCFilterRequests == [host : {"arm", "arm64", "x86_64", "x86"}, exclude : BOOLEAN, maps : MCMaps,
                     list : MCFilterLists]

MCGuestPaths == {<<"/", "a">>, <<"/", "a", "!">>, <<"a">>, <<"/", "a", "a", "/">>}
MCHostPaths == {Root, <<"/", "a">>}
MCLookups == {Root, <<"/", "a">>, <<"/", "a", "a">>, <<"/", "a", "/", "a">>, <<"/", "a", "/", "a", "/", "a">>}

MCSocketPaths == {<<>>, <<"a">>, <<"a", "a", "a">>, <<"/", "a">>, <<"/", "a", "a">>, <<"/", "a", "/", "a">>}
MCSizeOfText == [s |-> 2, t |-> 3]

\* Directories, programs and environments: a list of the host's fits, just does
\* not, or is too long; LD_LIBRARY_PATH is unset, set once or twice.
Dir(id, size, absolute) == [id |-> id, size |-> size, absolute |-> absolute, rooted |-> FALSE]
MCDirs == {Dir("lib", 3, TRUE), Dir("rel", 2, FALSE)}
HostFile(rpath, runpath) == [rpath |-> rpath, runpath |-> runpath]
MCHostFiles == {HostFile(<<>>, <<>>), HostFile(<<Dir("r", 2, TRUE)>>, <<>>),
                HostFile(<<Dir("r", 3, TRUE)>>, <<Dir("run", 2, FALSE)>>),
                HostFile(<<Dir("big", 4, TRUE)>>, <<>>), HostFile(<<Dir("huge", 9, TRUE)>>, <<>>)}
MCInitialPath == <<Dir("init", 2, TRUE)>>
MCSystemPath == <<Dir("usr", 2, TRUE)>>
Lib(d) == Var("LD_LIBRARY_PATH", <<d>>)
Debug(n) == Var("LD_DEBUG", <<Dir("v", n, FALSE)>>)
Home == Var("HOME", <<Dir("h", 1, TRUE)>>)
MCFirstEnvs == {<<>>, <<Home, Lib(Dir("g", 2, TRUE))>>, <<Debug(1), Lib(Dir("g", 2, TRUE)), Debug(2)>>,
                <<Debug(1), Home>>, <<Lib(Dir("g", 1, TRUE)), Home, Lib(Dir("g", 2, FALSE))>>}

Init == TracedInit /\ TrialInit /\ XpointersInit /\ HeapInit /\ LdSoInit

\* Nothing has happened yet.
NoEdit == pushed = "none"
NoBrk == last.nr = "none"
NoExec == story.steps = 0 /\ prog.env = <<>>
NoCallYet == call.n = 0 /\ phase = "user" /\ filter = F("exit", "exit")

TryFunctions ==
    /\ trial = NoTrial /\ NoCallYet /\ NoEdit /\ NoBrk /\ NoExec
    /\ \/ FilterNext \/ PathsNext \/ Bind \/ NamesNext
       \/ MemoryNext \/ ExecveNext \/ LoadNext \/ PtraceRequest \/ Rpaths \/ SetLimit
    /\ UNCHANGED <<traced, xvars, hvars, lvars>>

EditArray ==
    /\ trial = NoTrial /\ NoCallYet /\ NoBrk /\ NoExec
    /\ XpointersNext
    /\ UNCHANGED <<traced, trial, hvars, lvars>>

MoveBreak ==
    /\ trial = NoTrial /\ NoCallYet /\ NoEdit /\ NoExec
    /\ Brk
    /\ UNCHANGED <<traced, trial, xvars, lvars>>

RunPrograms ==
    /\ trial = NoTrial /\ NoCallYet /\ NoEdit /\ NoBrk
    /\ LdSoNext
    /\ UNCHANGED <<traced, trial, xvars, hvars>>

Handle ==
    /\ trial = NoTrial /\ NoEdit /\ NoBrk /\ NoExec
    /\ TracedNext
    /\ UNCHANGED <<trial, xvars, hvars, lvars>>

Next == Handle \/ TryFunctions \/ EditArray \/ MoveBreak \/ RunPrograms

Spec == Init /\ [][Next]_<<traced, trial, xvars, hvars, lvars>>

=============================================================================
