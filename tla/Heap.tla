-------------------------------- MODULE Heap --------------------------------
(***************************************************************************)
(* brk(2) emulated with a mapping that starts one page below the heap      *)
(* (syscall/heap.c, which is not part of the build): the first call        *)
(* becomes an mmap, the others an mremap, and their results that of brk.   *)
(* The process has one caller of brk at a time.                            *)
(*                                                                         *)
(* Addresses are small numbers; the tracer cuts a result to an int, of     *)
(* IntSize values, to tell an error from an address.                       *)
(*                                                                         *)
(* Also the tracer's own stack limit, which follows that of the tracees    *)
(* (syscall/rlimit.c, not part of the build either).                       *)
(***************************************************************************)
EXTENDS Integers, Trial

CONSTANTS HeapPage,   \* size of a page, and the number of values that are errors
          IntSize,
          Top,        \* the end of the address space
          BssEnd      \* where the program's own memory ends

ASSUME HeapAssumption ==
    /\ HeapPage \in Nat \ {0, 1} /\ BssEnd \in Nat /\ Top \in Nat /\ IntSize \in Nat \ {0}
    /\ BssEnd % HeapPage = 0 /\ Top % HeapPage = 0 /\ IntSize % HeapPage = 0

VARIABLES heap,    \* [base, size, disabled]
          mapped,  \* the pages of the heap's mapping
          last     \* the last call: what was asked, the break before, the answer

hvars == <<heap, mapped, last>>

heap_offset == HeapPage
ENOMEM == -1

PagesOf(from, to) == {a \div HeapPage : a \in from..(to - 1)}
Free(pages) == pages \cap mapped = {} /\ pages \subseteq PagesOf(BssEnd, Top)

HeapInit ==
    /\ heap = [base |-> 0, size |-> 0, disabled |-> FALSE]
    /\ mapped = {}
    /\ last = [nr |-> "none", asked |-> 0, before |-> 0, told |-> 0]

translate_brk_enter(h, address) ==
    CASE h.disabled \/ (h.base = 0 /\ address # 0) -> [nr |-> "brk", a1 |-> address]
      [] ~h.disabled /\ h.base = 0 /\ address = 0 -> [nr |-> "mmap", a1 |-> BssEnd, a2 |-> heap_offset]
      [] ~h.disabled /\ h.base # 0 /\ address < h.base -> [nr |-> "void"]
      [] OTHER -> [nr |-> "mremap", a1 |-> h.base - heap_offset, a2 |-> h.size + heap_offset,
                   a3 |-> address - h.base + heap_offset]

(***************************************************************************)
(* The kernel: the results a call may have, and the pages after it.        *)
(***************************************************************************)
Mmap(call) ==
    {[result |-> a, pages |-> mapped \cup PagesOf(a, a + call.a2)] :
        a \in {x \in BssEnd..(Top - 1) : x % HeapPage = 0 /\ Free(PagesOf(x, x + call.a2))}}
    \cup {[result |-> ENOMEM, pages |-> mapped]}

Mremap(call) ==
    LET old == PagesOf(call.a1, call.a1 + call.a2)
        new == PagesOf(call.a1, call.a1 + call.a3)
        failure == [result |-> ENOMEM, pages |-> mapped]
    IN  IF old = {} \/ ~(old \subseteq mapped) THEN {failure}
        ELSE IF new \subseteq old THEN {[result |-> call.a1, pages |-> mapped \ (old \ new)]}
        ELSE {failure} \cup (IF Free(new \ old)
                             THEN {[result |-> call.a1, pages |-> mapped \cup new]} ELSE {})

Outcomes(call) ==
    CASE call.nr = "mmap" -> Mmap(call)
      [] call.nr = "mremap" -> Mremap(call)
      [] call.nr = "void" -> {[result |-> 0, pages |-> mapped]}
      [] call.nr = "brk" -> {[result |-> a, pages |-> mapped] : a \in {call.a1, BssEnd}}

(***************************************************************************)
(* The exit stage.                                                         *)
(***************************************************************************)
\* As a signed int.
tracee_errno(result) == LET n == result % IntSize IN IF 2 * n >= IntSize THEN n - IntSize ELSE n

IsErrno(result) == tracee_errno(result) < 0 /\ tracee_errno(result) > -HeapPage

\* The heap after the call, and the answer.
\* Mutant: a resize that failed is taken for done.
translate_brk_exit_trusts(h, call, result) ==
    LET new == IF call.nr = "mmap" /\ ~IsErrno(result)
               THEN [h EXCEPT !.base = result + heap_offset, !.size = 0]
               ELSE IF call.nr = "mremap" THEN [h EXCEPT !.size = call.a3 - heap_offset]
               ELSE h
    IN  [heap |-> new, told |-> IF call.nr = "brk" THEN result ELSE new.base + new.size]

translate_brk_exit(h, call, result) ==
    LET moved == [h EXCEPT !.base = result + heap_offset, !.size = 0]
        resized == [h EXCEPT !.size = call.a3 - heap_offset]
        new == CASE call.nr = "mmap" /\ ~IsErrno(result) -> moved
                 [] call.nr = "mremap" /\ ~IsErrno(result) /\ h.base = result + heap_offset -> resized
                 [] call.nr = "brk" /\ ~h.disabled /\ result = call.a1 -> [h EXCEPT !.disabled = TRUE]
                 [] OTHER -> h
    IN  [heap |-> new, told |-> IF call.nr = "brk" THEN result ELSE new.base + new.size]

Brk ==
    \E address \in {0} \cup (BssEnd - 1)..(Top + 1) :
        LET call == translate_brk_enter(heap, address)
        IN  \E outcome \in Outcomes(call) :
                LET after == translate_brk_exit(heap, call, outcome.result)
                IN  /\ heap' = after.heap
                    /\ mapped' = outcome.pages
                    /\ last' = [nr |-> call.nr, asked |-> address, before |-> heap.base + heap.size,
                                told |-> after.told]

(***************************************************************************)
(* The tracer's soft limit of the stack: sizes are 0..Infinity, and those  *)
(* of a 32-bit program end at Infinity32.                                  *)
(***************************************************************************)
Infinity32 == 3
Infinity == 7

\* What a 32-bit program writes for no limit; prlimit always has 64 bits.
stack_limit(is_prlimit, wide, value) ==
    IF ~is_prlimit /\ ~wide /\ value = Infinity32 THEN Infinity ELSE value

\* The tracer's limit after the call, and the status; "get" and "set" are the
\* tracer's own calls that may fail.
translate_setrlimit_exit(in) ==
    LET asked == stack_limit(in.is_prlimit, in.wide, in.value)
        keep(status) == [cur |-> in.cur, status |-> status]
    IN  CASE in.resource # "STACK" \/ (in.is_prlimit /\ in.null) -> keep(0)
          [] in.resource = "STACK" /\ (~in.is_prlimit \/ ~in.null) /\ (in.null \/ ~in.readable) -> keep(-14)
          [] OTHER -> IF in.fails = "get" \/ in.cur >= asked \/ in.fails = "set" \/ asked > in.hard
                      THEN keep(0) ELSE [cur |-> asked, status |-> 0]

SetLimit ==
    \E is_prlimit, wide, null, readable \in BOOLEAN, resource \in {"STACK", "NOFILE"},
       cur, hard, value \in 0..Infinity, fails \in {"none", "get", "set"} :
        LET in == [is_prlimit |-> is_prlimit, wide |-> wide, null |-> null, readable |-> readable,
                   resource |-> resource, cur |-> cur, hard |-> hard, value |-> value, fails |-> fails]
        IN  /\ cur <= hard
            /\ wide \/ is_prlimit \/ value <= Infinity32
            /\ Try("rlimit", in, translate_setrlimit_exit(in))

\* Calls of brk, and limits set, by themselves.
HeapSpec ==
    /\ HeapInit /\ TrialInit
    /\ [][(Brk /\ UNCHANGED trial) \/ (SetLimit /\ UNCHANGED hvars)]_<<hvars, trial>>

(***************************************************************************)
(* Properties.                                                             *)
(***************************************************************************)
\* What translate_brk_exit remembers of the heap is what the kernel has mapped
\* for it, with the page below it: no page of the heap is missing and none is
\* left behind, whatever fails.
HeapMapped ==
    mapped = IF heap.base = 0 THEN {} ELSE PagesOf(heap.base - heap_offset, heap.base + heap.size)

\* As brk(2) promises, the break is what was asked for or what it was before,
\* and memory below the answer can be used.
BrkHonest ==
    last.nr \in {"mmap", "mremap", "void"} =>
        /\ last.told = heap.base + heap.size
        /\ last.before # 0 => last.told \in {last.asked, last.before}
        /\ heap.base # 0 => PagesOf(heap.base, last.told) \subseteq mapped

\* translate_setrlimit_exit: the tracer never lowers its own limit, raises it
\* only for a limit it has read, and then, when its hard limit allows it and its
\* calls succeed, can reach as much of the stack as the tracee; no limit for a
\* 32-bit program is no limit for the tracer.
LimitFollows ==
    trial.op = "rlimit" =>
        LET in == trial.in
            seen == in.resource = "STACK" /\ ~in.null /\ in.readable
            asked == IF ~in.wide /\ ~in.is_prlimit /\ in.value >= Infinity32 THEN Infinity ELSE in.value
        IN  /\ trial.out.cur \in in.cur..in.hard
            /\ trial.out.cur # in.cur => seen
            /\ seen /\ in.fails = "none" /\ asked <= in.hard => trial.out.cur >= asked /\ trial.out.status = 0

\* heap.c and rlimit.c: what is remembered of the kernel's memory and limits stays
\* true whatever call fails.
HeapHonest == HeapMapped /\ BrkHonest /\ LimitFollows

=============================================================================
