-------------------------------- MODULE LdSo --------------------------------
(***************************************************************************)
(* The environment of the dynamic linker when programs of the host and of  *)
(* the guest, which runs under QEMU, execute one another (execve/ldso.c,   *)
(* which is not part of the build).  A program of the host gets an         *)
(* LD_LIBRARY_PATH made for it; the guest's is remembered, and given back  *)
(* to a program of the guest through QEMU's options.                       *)
(*                                                                         *)
(* An environment is a sequence of variables.  A value is a sequence of    *)
(* directories, and a directory has its length and whether it is absolute  *)
(* and behind HOST_ROOTFS.  The environment can be read.                   *)
(***************************************************************************)
EXTENDS Integers, Sequences, SequencesExt, FiniteSetsExt, Trial

CONSTANTS Dirs,        \* the directories: [id, size, absolute, rooted]
          HostFiles,   \* programs of the host: [rpath, runpath], <<>> when there is none
          InitialPath, \* the tracer's own LD_LIBRARY_PATH
          SystemPath,  \* the directories that are searched last
          FirstEnvs,   \* the environments of the first program
          RootfsSize,  \* the length of HOST_ROOTFS
          PrefixSize,  \* the length of "LD_LIBRARY_PATH="
          ARG_MAX,
          MaxExecs     \* bound on the programs executed and the variables set

ASSUME LdSoAssumption == {RootfsSize, PrefixSize, ARG_MAX, MaxExecs} \subseteq Nat

VARIABLES ldso,    \* host_ldso_paths and guest_ldso_paths of the tracee
          prog,    \* the program that runs: its side and its environment
          passed,  \* the last execution through QEMU
          story    \* what happened so far

lvars == <<ldso, prog, passed, story>>

NoDir(id) == [id |-> id, size |-> 0, absolute |-> FALSE, rooted |-> FALSE]
Unset == <<NoDir("unset")>>
LibraryPath == "LD_LIBRARY_PATH"
\* The names of ldso_env_passthru; LD_DEBUG stands for all but the first.
PassedNames == {LibraryPath, "LD_DEBUG"}

Var(name, value) == [name |-> name, value |-> value]
Blank == Var("", <<>>)

\* The first variable of a name, as getenv finds it.
Named_(env, name) == {i \in DOMAIN env : env[i].name = name}
Getenv(env, name) == IF Named_(env, name) = {} THEN Unset ELSE env[Min(Named_(env, name))].value

(***************************************************************************)
(* To a program of the guest: options of QEMU, inserted one before the     *)
(* other, in place of the variables.                                       *)
(***************************************************************************)
\* The guest's own path, unless the program of the host has changed its own.
Restored_(l, v) ==
    IF v.name = LibraryPath /\ l.host # Unset /\ l.guest # Unset /\ v.value = l.host
    THEN Var(LibraryPath, l.guest) ELSE v

Undefine == <<Var(LibraryPath, Unset)>>

ldso_env_passthru(l, env) ==
    LET known == SelectSeq(env, LAMBDA v : v.name \in PassedNames)
        options == [i \in DOMAIN known |-> Restored_(l, known[i])]
    IN  [envp |-> [i \in DOMAIN env |-> IF env[i].name \in PassedNames THEN Blank ELSE env[i]],
         argv |-> (IF Named_(env, LibraryPath) = {} THEN Undefine ELSE <<>>) \o Reverse(options)]

\* QEMU: an option replaces the variable, or removes it.
QemuOption(env, v) ==
    SelectSeq(env, LAMBDA w : w.name # v.name) \o (IF v.value = Unset THEN <<>> ELSE <<v>>)
GuestEnv(p) == FoldLeft(QemuOption, SelectSeq(p.envp, LAMBDA v : v.name # ""), p.argv)

(***************************************************************************)
(* To a program of the host: the list of directories.                      *)
(***************************************************************************)
SizeOfDir(d) == d.size + (IF d.rooted THEN RootfsSize ELSE 0)
SizeOfList(list) ==
    FoldLeft(LAMBDA n, d : n + SizeOfDir(d), IF list = <<>> THEN 0 ELSE Len(list) - 1, list)
Full == <<NoDir("full")>>

\* One directory; Full once there was no room.
add_host_dir(list, d) ==
    LET dir == [d EXCEPT !.rooted = d.absolute]
    IN  IF list = Full \/ SizeOfList(list) + 1 + SizeOfDir(dir) >= ARG_MAX THEN Full
        ELSE Append(list, dir)

add_host_ldso_paths(list, paths) == FoldLeft(add_host_dir, list, paths)

\* The parts that are searched, in their order.
host_ldso_parts(file) ==
    (IF file.runpath = <<>> THEN file.rpath ELSE <<>>) \o InitialPath \o file.runpath \o SystemPath

\* Room for the name of the variable and the end.
Fits(list) == ARG_MAX - SizeOfList(list) - 1 >= PrefixSize

\* Mutant: the guest's path is the one there is each time.
rebuild_host_ldso_paths_each(l, env, file) ==
    LET list == add_host_ldso_paths(<<>>, host_ldso_parts(file))
    IN  IF list = Full THEN [ldso |-> l, env |-> env]
        ELSE [ldso |-> [host |-> IF l.host = Unset THEN list ELSE l.host, guest |-> Getenv(env, LibraryPath)],
              env |-> <<Var(LibraryPath, list)>> \o SelectSeq(env, LAMBDA v : v.name # LibraryPath)]

\* The tracee and the environment after it; a list that is too long leaves the
\* environment alone, but what was remembered by then is.
rebuild_host_ldso_paths(l, env, file) ==
    LET list == add_host_ldso_paths(<<>>, host_ldso_parts(file))
        at == Named_(env, LibraryPath)
        guest == IF at # {} /\ l.guest = Unset THEN Getenv(env, LibraryPath) ELSE l.guest
    IN  CASE list = Full -> [ldso |-> l, env |-> env]
          [] list # Full /\ ~Fits(list) -> [ldso |-> [l EXCEPT !.guest = guest], env |-> env]
          [] OTHER -> [ldso |-> [host |-> IF l.host = Unset THEN list ELSE l.host, guest |-> guest],
                       env |-> IF at = {} THEN Append(env, Var(LibraryPath, list))
                               ELSE [env EXCEPT ![Min(at)].value = list]]

(***************************************************************************)
(* The programs of one tracee.                                             *)
(***************************************************************************)
LdSoInit ==
    /\ ldso = [host |-> Unset, guest |-> Unset]
    /\ \E env \in FirstEnvs : /\ prog = [side |-> "guest", env |-> env]
                              /\ story = [first |-> Getenv(env, LibraryPath), forged |-> {},
                                          changed |-> FALSE, set |-> Unset, steps |-> 0]
    /\ passed = [done |-> FALSE]

ExecHost(file) ==
    LET r == rebuild_host_ldso_paths(ldso, prog.env, file)
    IN  /\ story.steps < MaxExecs
        /\ ldso' = r.ldso
        /\ prog' = [side |-> "host", env |-> r.env]
        /\ story' = [story EXCEPT !.steps = @ + 1, !.set = Unset,
                                  !.forged = IF r.env = prog.env THEN @ ELSE @ \cup {Getenv(r.env, LibraryPath)}]
        /\ UNCHANGED passed

ExecGuest ==
    LET p == ldso_env_passthru(ldso, prog.env)
    IN  /\ story.steps < MaxExecs
        /\ prog' = [side |-> "guest", env |-> GuestEnv(p)]
        /\ passed' = [done |-> TRUE, before |-> prog.env, side |-> prog.side, qemu |-> p, set |-> story.set]
        /\ story' = [story EXCEPT !.steps = @ + 1, !.set = Unset]
        /\ UNCHANGED ldso

\* The program sets its LD_LIBRARY_PATH.
SetPath(dir) ==
    /\ story.steps < MaxExecs
    /\ prog' = [prog EXCEPT !.env = SelectSeq(@, LAMBDA v : v.name # LibraryPath) \o <<Var(LibraryPath, <<dir>>)>>]
    /\ story' = [story EXCEPT !.steps = @ + 1, !.changed = TRUE, !.set = <<dir>>]
    /\ UNCHANGED <<ldso, passed>>

LdSoNext == (\E file \in HostFiles : ExecHost(file)) \/ ExecGuest \/ (\E dir \in Dirs : SetPath(dir))

(***************************************************************************)
(* The directories a program names: the string at an address, in the file. *)
(* A program has segments [type, offset, vaddr, memsz] and the entries of  *)
(* its dynamic segment.                                                    *)
(***************************************************************************)
\* The end of a segment is taken for a part of it.
Covers(s, address) == s.memsz > 0 /\ address \in s.vaddr..(s.vaddr + s.memsz)

\* The last of the type when none contains the address.
find_program_header(segments, type, address) ==
    LET typed == SelectSeq(segments, LAMBDA s : s.type = type)
        found == {n \in DOMAIN typed : Covers(typed[n], address)}
    IN  IF found = {} THEN Last(typed) ELSE typed[Min(found)]

\* The list of directories at an offset of the file, behind those there are.
add_xpaths(xpaths, offset) == Append(xpaths, offset)

\* Where the lists of the entries of a tag are in the file.
read_ldso_rpaths(segments, entries, tag) ==
    LET tables == SelectSeq(entries, LAMBDA e : e.tag = "STRTAB")
        strtab == Head(tables).value
        s == find_program_header(segments, "LOAD", strtab)
        tagged == SelectSeq(entries, LAMBDA e : e.tag = tag)
    IN  IF tables = <<>> THEN <<>>
        ELSE FoldLeft(LAMBDA paths, e : add_xpaths(paths, s.offset + (strtab - s.vaddr) + e.value),
                      <<>>, tagged)

FileSegment(type, offset, vaddr, memsz) == [type |-> type, offset |-> offset, vaddr |-> vaddr, memsz |-> memsz]

Rpaths ==
    \E first \in {0, 4}, gap \in 0..2, a, b \in 0..4, strtab \in 0..12, value \in {0, 1},
       tables \in 0..2, order \in BOOLEAN :
        LET l1 == FileSegment("LOAD", 0, first, a)
            l2 == FileSegment("LOAD", 20, first + a + gap, b)
            segments == <<FileSegment("INTERP", 1, 2, 3)>> \o (IF order THEN <<l1, l2>> ELSE <<l2, l1>>)
            entries == <<[tag |-> "RPATH", value |-> value]>>
                       \o [n \in 1..tables |-> [tag |-> "STRTAB", value |-> strtab + n - 1]]
                       \o <<[tag |-> "RUNPATH", value |-> value + 1], [tag |-> "RPATH", value |-> 3]>>
        IN  Try("rpaths", [segments |-> segments, entries |-> entries, strtab |-> strtab],
                [tag \in {"RPATH", "RUNPATH"} |-> read_ldso_rpaths(segments, entries, tag)])

(***************************************************************************)
(* Properties.                                                             *)
(***************************************************************************)
\* ldso_env_passthru: QEMU is started with none of the guest's variables for
\* its linker and with all others, and the guest gets each with the value that
\* counted before, the first, whatever the order of the options.
PassthruExact ==
    passed.done =>
        /\ \A i \in DOMAIN passed.qemu.envp : passed.qemu.envp[i].name \notin PassedNames
        /\ SelectSeq(passed.qemu.envp, LAMBDA v : v # Blank) =
              SelectSeq(passed.before, LAMBDA v : v.name \notin PassedNames)
        /\ LET env == GuestEnv(passed.qemu)
           IN  \A name \in PassedNames :
                  \/ Getenv(env, name) = Getenv(passed.before, name)
                  \/ name = LibraryPath /\ Getenv(env, name) = ldso.guest
                     /\ Getenv(passed.before, name) = ldso.host

\* rebuild_host_ldso_paths and ldso_env_passthru: as long as no program changes
\* LD_LIBRARY_PATH, programs of the guest see the one they began with, however
\* often the guest and the host execute one another, if the programs of the host
\* all search the same directories; and what a program of the host sets itself
\* reaches the guest.  (One that searches others, or a guest that began without
\* the variable, makes the guest see a path of the host.)
GuestPathKept ==
    /\ prog.side = "guest" /\ ~story.changed /\ story.first # Unset /\ Cardinality(story.forged) <= 1 =>
          Getenv(prog.env, LibraryPath) = story.first
    /\ passed.done /\ passed.side = "host" /\ passed.set \notin {Unset, ldso.host} =>
          Getenv(GuestEnv(passed.qemu), LibraryPath) = passed.set

\* add_host_ldso_paths: what is forged fits its buffer with its end and the name
\* of the variable, and every absolute directory in it is one of the host.
ForgedFits ==
    \A list \in story.forged :
        /\ PrefixSize + SizeOfList(list) + 1 <= ARG_MAX
        /\ \A i \in DOMAIN list : list[i].absolute => list[i].rooted

\* find_program_header and read_ldso_rpaths: the paths are read where the file
\* has them, when the first string table is in a segment, and is not the end of
\* one that comes before it.
RpathExact ==
    trial.op = "rpaths" =>
        \A n \in DOMAIN trial.in.segments :
            LET s == trial.in.segments[n]
                strtab == trial.in.strtab
                clear == \A m \in 1..(n - 1) :
                            LET o == trial.in.segments[m]
                            IN  o.type = "LOAD" => strtab # o.vaddr + o.memsz
            IN  s.type = "LOAD" /\ strtab \in s.vaddr..(s.vaddr + s.memsz - 1) /\ clear =>
                    \A tag \in DOMAIN trial.out :
                        trial.out[tag] # <<>> =>
                            trial.out[tag] =
                                LET tagged == SelectSeq(trial.in.entries, LAMBDA e : e.tag = tag)
                                IN  [k \in DOMAIN tagged |-> s.offset + (strtab - s.vaddr) + tagged[k].value]

\* ldso.c: each side of a mixed run searches its own directories.
LinkerPaths == PassthruExact /\ GuestPathKept /\ ForgedFits /\ RpathExact

=============================================================================
