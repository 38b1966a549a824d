------------------------------ MODULE MCSvcer ------------------------------
(***************************************************************************)
(* Model checking SvcerHooker, with addresses of two words of radix 4.     *)
(***************************************************************************)
EXTENDS SvcerHooker

Line(name, start, end) == [name |-> name, start |-> start, end |-> end]

\* Each library in a window of its own; the hook's library has two lines.
Plain ==
    <<Line("self", 1, 2), Line("app", 4, 5), Line("libc", 5, 6), Line("self", 2, 3),
      Line("linker", 8, 9), Line("vdso", 12, 14)>>

\* The hook's library crosses from a window to the next.
Crossing == <<Line("self", 3, 5), Line("app", 7, 8), Line("libc", 8, 9), Line("linker", 10, 11)>>

\* The hook's library is not found.
NoSelf == <<Line("app", 7, 8), Line("libc", 8, 9), Line("linker", 10, 11)>>

World(arch, mode, maps, allocated, starts, count, calls, cbs) ==
    [arch |-> arch, mode |-> mode, links |-> {"libc", "linker"}, maps |-> maps,
     opened |-> "read", items |-> allocated, inits |-> starts, threads |-> count,
     calls |-> calls, cbs |-> cbs]

Action == {c \in AppCalls : c.nr = "rt_sigaction"}
Shown == {c \in Action : c.ask = "get"}
Other == AppCalls \ Action

\* One thread, whose handler may register and remove.
Alone ==
    {World("aarch64", {}, Plain, 3, 1, 1, Action, {"cb1", "dumper"}),
     World("aarch64", {}, Plain, 2, 1, 1, Other, Callbacks),
     World("aarch64", {"vdso", "libc"}, Plain, 2, 1, 1, AppCalls, {"dumper"}),
     World("x86_64", {}, Plain, 2, 1, 1, Action, Callbacks),
     World("arm", {}, Plain, 1, 2, 1, AppCalls, Callbacks),
     World("aarch64", {}, Crossing, 1, 1, 1, AppCalls, Callbacks),
     World("aarch64", {}, NoSelf, 1, 2, 1, AppCalls, Callbacks)}

\* Two, which race for the lists, with and without handlers, and around init.
Racing ==
    {World("aarch64", {}, Plain, 3, 0, 2, {}, {"cb1"}),
     World("aarch64", {}, Plain, 2, 1, 2, Shown, {"cb1", "dumper"}),
     World("aarch64", {}, Plain, 1, 1, 2, Action, {"cb1", "dumper"}),
     World("aarch64", {}, Plain, 0, 2, 2, AppCalls, {})}

\* A search that fails.
Lost ==
    {[World("aarch64", {}, Plain, 0, 1, 1, {}, {}) EXCEPT !.links = links] : links \in {{"libc"}, {"linker"}}}
    \cup {[World("aarch64", {}, Plain, 0, 1, 1, {}, {}) EXCEPT !.opened = o] : o \in {"no", "unread"}}

MCWorlds == Alone \cup Racing \cup Lost

MCTypeOrder == <<"prctl", "rt_sigaction">>

Symmetry == Permutations(Thread)

MCBehaviour == [cb1 |-> "retry", cb2 |-> "answer", dumper |-> "dump"]

=============================================================================
