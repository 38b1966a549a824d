------------------------------- MODULE Names -------------------------------
(***************************************************************************)
(* What else the tracer does with path names: the addresses of Unix        *)
(* sockets (syscall/socket.c), the links of /proc (path/proc.c), and the   *)
(* search of a command (path/path.c).  socket.c and proc.c are not part of *)
(* the build.                                                              *)
(***************************************************************************)
EXTENDS Bindings

CONSTANTS SunPath,       \* sizeof(sun_path)
          SocketPaths,   \* the names programs give to sockets
          Known          \* the processes that are traced

ASSUME NamesAssumption == SunPath \in Nat \ {0}

(***************************************************************************)
(* A socket address in memory: its family, and the characters of sun_path, *)
(* "0" for a zero.  Sizes count the family as two.                         *)
(***************************************************************************)
offsetof_path == 2
SizeofSockaddr == offsetof_path + SunPath

Padded(path) == [n \in 1..SunPath |-> IF n <= Len(path) THEN path[n] ELSE "0"]

Terminated(chars) ==
    LET zeros == {n \in DOMAIN chars : chars[n] = "0"}
    IN  IF zeros = {} THEN chars
        ELSE SubSeq(chars, 1, (CHOOSE n \in zeros : \A m \in zeros : n <= m) - 1)

\* The path of an address of size bytes; the empty one when there is none.
read_sockaddr_un(sockaddr, max_size, size) ==
    IF size <= offsetof_path \/ size > max_size \/ sockaddr.family # "AF_UNIX" THEN <<>>
    ELSE Terminated(Padded(SubSeq(sockaddr.path, 1, size - offsetof_path)))

\* create_temp_directory has no body but this name.
TempSocket == <<"t", "/", "s">>

insort_binding3(lists, host, guest) == insort_binding2(lists, Binding(host, guest, Cwd, 50, FALSE))

Refused(status, lists) == [status |-> status, lists |-> lists]

\* The address is pushed in new room of the tracee's stack; fails says which
\* access to its memory does not succeed.
push_sockaddr(lists, host, fails) ==
    IF fails \in {"alloc", "write"} THEN Refused(-14, lists)
    ELSE [status |-> 1, lists |-> lists, path |-> Padded(host)]

\* Mutant: a path that is too long is cut.
translate_socketcall_enter_cuts(lists, sockaddr, size, cwd, fails) ==
    LET user == read_sockaddr_un(sockaddr, SizeofSockaddr, size)
        host == translate_path(user, "AT_FDCWD", Root, cwd)
    IN  IF user = <<>> \/ ~IsAbsolute(host) THEN Refused(0, lists)
        ELSE push_sockaddr(lists, [n \in 1..SunPath |-> Padded(host)[n]], fails)

\* The new address, and the lists: a path that is too long is bound to a short
\* one.  The binding stays when the address cannot be pushed.
translate_socketcall_enter(lists, sockaddr, size, cwd, fails) ==
    LET user == read_sockaddr_un(sockaddr, SizeofSockaddr, size)
        host == translate_path(user, "AT_FDCWD", Root, cwd)
        named == fails \notin {"null", "read"} /\ user # <<>>
    IN  CASE fails = "read" /\ size \in (offsetof_path + 1)..SizeofSockaddr -> Refused(-14, lists)
          [] named /\ ~IsAbsolute(host) -> Refused(IF host = TooLong THEN -36 ELSE -2, lists)
          [] named /\ IsAbsolute(host) /\ Len(host) <= SunPath -> push_sockaddr(lists, host, fails)
          [] named /\ IsAbsolute(host) /\ Len(host) > SunPath ->
                IF Len(TempSocket) > SunPath THEN Refused(-22, lists)
                ELSE push_sockaddr(insort_binding3(lists, TempSocket, host), TempSocket, fails)
          [] OTHER -> Refused(0, lists)

\* What is written in the program's buffer, and as its size.  fails says which
\* access does not succeed; of a buffer that is only partly there ("part") the
\* start is written.
translate_socketcall_exit(sockaddr, size, max_size, fails) ==
    LET max == IF max_size < SizeofSockaddr THEN max_size ELSE SizeofSockaddr
        path == read_sockaddr_un(sockaddr, max, size)
        full == offsetof_path + Len(path) + 1
        cut == full > max
        Left(status, written) ==
            [status |-> status, path |-> Padded(path), written |-> written, size |-> size]
        named == fails \notin {"null", "peek", "read"} /\ path # <<>>
    IN  CASE fails = "peek" -> Left(-14, 0)
          [] fails = "read" /\ size \in (offsetof_path + 1)..max -> Left(-14, 0)
          [] named /\ fails = "write" -> Left(-14, 0)
          [] named /\ fails = "part" -> Left(-14, offsetof_path)
          [] named /\ fails = "poke" -> Left(-14, IF cut THEN max ELSE full)
          [] named /\ fails = "none" ->
                [Left(0, IF cut THEN max ELSE full) EXCEPT !.size = IF cut THEN max + 1 ELSE full]
          [] OTHER -> Left(0, 0)

Sockaddr(family, path, rest) ==
    [family |-> family, path |-> [n \in 1..SunPath |-> IF n <= Len(path) THEN path[n]
                                                       ELSE IF n = Len(path) + 1 THEN "0" ELSE rest]]

SocketLists == Configure(<<Binding(Root, Root, Cwd, 1, FALSE)>>, <<>>)

SocketCwds == {Root, <<"/", "a">>, <<"/", "a", "/", "a", "/", "a", "/", "a">>, CallFailed}

SocketCall ==
    \E family \in {"AF_UNIX", "AF_INET"}, path \in SocketPaths, cwd \in SocketCwds,
       rest \in {"0", "a"}, size \in 0..(SizeofSockaddr + 1), fails \in {"none", "null", "read", "alloc", "write"} :
        LET sockaddr == Sockaddr(family, path, rest)
        IN  Try("socket", [sockaddr |-> sockaddr, size |-> size, cwd |-> cwd],
                translate_socketcall_enter(SocketLists, sockaddr, size, cwd, fails))

SocketName ==
    \E path \in SocketPaths, rest \in {"0", "a"}, max_size, size \in 0..(SizeofSockaddr + 1),
       fails \in {"none", "null", "peek", "read", "write", "part", "poke"} :
        LET sockaddr == Sockaddr("AF_UNIX", path, rest)
        IN  Try("sockname", [sockaddr |-> sockaddr, size |-> size, max |-> max_size],
                translate_socketcall_exit(sockaddr, size, max_size, fails))

(***************************************************************************)
(* The links of /proc.  base is a list of names under "/proc", a process   *)
(* is its number as a name.  The answer says what to do with the result.   *)
(***************************************************************************)
\* atoi, of what starts like a number.
Atoi(name) == IF name \in {"1", "1x"} THEN 1 ELSE IF name = "2" THEN 2 ELSE 0
NameOf(pid) == IF pid = 1 THEN "1" ELSE "2"
Links == {"exe", "cwd", "root"}

\* What strtol reads a number from.
Numbers == {"1", "3", "3x"}

readlink_proc(caller, base, component) ==
    LET pid == Atoi(base[1])
    IN  CASE base = <<>> ->
                IF component = "self" THEN [action |-> "CANONICALIZE", of |-> caller, link |-> "self"]
                ELSE [action |-> "DEFAULT"]
          [] base # <<>> /\ base = <<NameOf(pid)>> ->
                IF pid # 0 /\ pid \in Known /\ component \in Links
                THEN [action |-> "CANONICALIZE", of |-> pid, link |-> component]
                ELSE [action |-> "DEFAULT"]
          [] base # <<>> /\ pid # 0 /\ base = <<NameOf(pid), "fd">> ->
                IF component \in Numbers THEN [action |-> "DONT_CANONICALIZE"] ELSE [action |-> "-EPERM"]
          [] OTHER -> [action |-> "DEFAULT"]

\* The link itself is given: only what would be canonicalized is emulated.  The
\* assertion on the start of the path fails for what is directly in "/proc".
readlink_proc2(caller, referer) ==
    LET r == readlink_proc(caller, Front(referer), Last(referer))
    IN  IF Len(referer) = 1 THEN [action |-> "assert"]
        ELSE IF r.action = "CANONICALIZE" THEN r ELSE [action |-> "DEFAULT"]

ProcNames == {"self", "1", "2", "1x", "sys"}
ProcLink ==
    \E caller \in Known, component \in {"self", "1", "exe", "cwd", "root", "fd", "3", "3x", "x"},
       base \in {<<>>} \cup {<<n>> : n \in ProcNames} \cup {<<n, d>> : n \in ProcNames, d \in {"fd", "fdinfo"}} :
        Try("proc", [caller |-> caller, base |-> base, component |-> component],
            [followed |-> readlink_proc(caller, base, component),
             read |-> readlink_proc2(caller, Append(base, component))])

(***************************************************************************)
(* The search of a command: kinds says what is under its name in each      *)
(* directory, "." the working one.  An empty element of $PATH is ".", but  *)
(* an empty $PATH is searched as little as none.                           *)
(***************************************************************************)
DirOf(element) == IF element = "" THEN "." ELSE element

which(explicit, paths, kinds) ==
    LET hits == {n \in DOMAIN paths : paths # <<"">> /\ kinds[DirOf(paths[n])] = "program"}
    IN  CASE explicit /\ kinds["."] = "program" -> [status |-> 0, dir |-> "."]
          [] explicit /\ kinds["."] \in {"directory", "file"} -> [status |-> -13]
          [] ~explicit /\ hits # {} ->
                [status |-> 0, dir |-> DirOf(paths[CHOOSE n \in hits : \A m \in hits : n <= m])]
          [] OTHER -> [status |-> -1]

Kinds == {"none", "directory", "file", "program"}
Which ==
    \E explicit \in BOOLEAN, paths \in UNION {[1..n -> {"", ".", "/a", "/b"}] : n \in 0..3},
       kinds \in [{".", "/a", "/b"} -> Kinds] :
        Try("which", [explicit |-> explicit, paths |-> paths, kinds |-> kinds],
            which(explicit, paths, kinds))

NamesNext == SocketCall \/ SocketName \/ ProcLink \/ Which

(***************************************************************************)
(* Properties.                                                             *)
(***************************************************************************)
\* translate_socketcall_enter: the name the kernel is given is never a part of
\* the translated one; it is that name, even when it fills sun_path to its last
\* byte, or a short one that the new binding leads from that name to.
SocketExact ==
    trial.op = "socket" /\ trial.out.status = 1 =>
        LET in == trial.in
            user == Terminated(SubSeq(in.sockaddr.path, 1, in.size - offsetof_path))
            host == translate_path(user, "AT_FDCWD", Root, in.cwd)
            given == Terminated(trial.out.path)
        IN  IF Len(host) <= SunPath THEN given = host /\ trial.out.lists = SocketLists
            ELSE /\ given = TempSocket
                 /\ substitute_binding(trial.out.lists, "GUEST", host) = TempSocket

\* translate_socketcall_exit: no more than the program's buffer is written, the
\* program gets the name or the start of it, and a size larger than what was
\* written when and only when the name is there without its end.  A call that
\* fails leaves the size as it was, whatever it wrote.
SocketNameExact ==
    trial.op = "sockname" /\ trial.out.written > 0 =>
        LET in == trial.in
            name == Terminated(SubSeq(in.sockaddr.path, 1, in.size - offsetof_path))
            got == SubSeq(trial.out.path, 1, trial.out.written - offsetof_path)
        IN  /\ trial.out.written <= in.max
            /\ IsPrefix(Terminated(got), name)
            /\ IF trial.out.status = 0
               THEN trial.out.size > trial.out.written <=> Terminated(got) = got
               ELSE trial.out.size = in.size

\* which: a command without "/" is never taken from the working directory,
\* unless $PATH has it, nor from behind an element that has the program; it is
\* found whenever an element has it, unless $PATH is one empty element.  A file
\* that cannot be executed is an error only where it was named.
WhichExact ==
    trial.op = "which" =>
        LET in == trial.in
            dirs == [n \in DOMAIN in.paths |-> DirOf(in.paths[n])]
            has(d) == in.kinds[d] = "program"
        IN  /\ trial.out.status = 0 =>
                  /\ has(trial.out.dir)
                  /\ IF in.explicit THEN trial.out.dir = "."
                     ELSE \E n \in DOMAIN dirs : /\ dirs[n] = trial.out.dir
                                               /\ \A m \in 1..(n - 1) : ~has(dirs[m])
            /\ trial.out.status # 0 =>
                  IF in.explicit THEN ~has(".") ELSE in.paths = <<"">> \/ \A n \in DOMAIN dirs : ~has(dirs[n])

\* readlink_proc: a link of a process is answered with that process's own value,
\* only if it is traced and named exactly, the way it is followed and the way it
\* is read; descriptors are never followed.
ProcExact ==
    trial.op = "proc" =>
        LET in == trial.in
        IN  /\ trial.out.followed.action = "CANONICALIZE" =>
                  \/ in.base = <<>> /\ in.component = "self" /\ trial.out.followed.of = in.caller
                  \/ /\ \E pid \in Known : in.base = <<NameOf(pid)>> /\ trial.out.followed.of = pid
                     /\ trial.out.followed.link = in.component
            /\ trial.out.read.action = "CANONICALIZE" => trial.out.read = trial.out.followed
            /\ Len(in.base) = 2 => trial.out.followed.action # "CANONICALIZE"

\* socket.c, proc.c and which: a name that was taken apart or replaced is still
\* the same file.
NamesExact == SocketExact /\ SocketNameExact /\ WhichExact /\ ProcExact

=============================================================================
