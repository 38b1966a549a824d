---------------------------- MODULE TraceeMemory ----------------------------
(***************************************************************************)
(* Access to the memory of a tracee (tracee/mem.c, mem.h): by              *)
(* process_vm_readv and process_vm_writev, which transfer one buffer       *)
(* entirely or not at all and respect the protection of pages, and, when   *)
(* they fail, word by word with ptrace, which does not.  The C library of  *)
(* the target leaves errno alone when PTRACE_PEEKDATA succeeds, and only   *)
(* peek_word and poke_word clear it first.                                 *)
(*                                                                         *)
(* A world is the memory of the tracee, the protection of its pages,       *)
(* whether the kernel has the process_vm calls, and whether errno is set.  *)
(***************************************************************************)
EXTENDS Integers, Sequences, Trial

CONSTANTS WordBytes,   \* sizeof(word_t)
          PageBytes,   \* the size of a page, and of the chunks of read_string
          Pages,       \* how many pages there are
          MaxBytes,    \* bound on the size of a transfer
          MaxBuffers   \* bound on the buffers of a transfer

ASSUME MemoryAssumption ==
    /\ WordBytes \in Nat \ {0} /\ WordBytes % 2 = 0
    /\ PageBytes \in Nat \ {0} /\ Pages \in Nat \ {0} /\ MaxBytes \in Nat /\ MaxBuffers \in Nat

Addresses == 0..(Pages * PageBytes - 1)
Perms == {"none", "r", "rw"}

Span(a, n) == a..(a + n - 1)
Readable(w, S) == \A a \in S : a \in Addresses /\ w.perm[a \div PageBytes] # "none"
Writable(w, S) == \A a \in S : a \in Addresses /\ w.perm[a \div PageBytes] = "rw"
Bytes(w, a, n) == [i \in 1..n |-> w.mem[a + i - 1]]
Store(mem, a, bytes) ==
    [x \in DOMAIN mem |-> IF x \in Span(a, Len(bytes)) THEN bytes[x - a + 1] ELSE mem[x]]

process_vm_readv(w, a, n) == w.vm /\ Readable(w, Span(a, n))
process_vm_writev(w, a, n) == w.vm /\ Writable(w, Span(a, n))
PEEKDATA(w, a) == Readable(w, Span(a, WordBytes))
POKEDATA(w, a) == Readable(w, Span(a, WordBytes))

EFAULT_ == -14

(***************************************************************************)
(* Blocks.  After a process_vm call that failed errno is set, and what     *)
(* tests it after a PTRACE_PEEKDATA takes the success for a failure.       *)
(***************************************************************************)
FullWords(n) == n \div WordBytes

\* The words of a range that ptrace can write before the first it cannot.
WordsDone(w, dest, n) ==
    LET ok(i) == POKEDATA(w, dest + i * WordBytes)
    IN  IF \A i \in 0..(FullWords(n) - 1) : ok(i) THEN FullWords(n)
        ELSE CHOOSE k \in 0..(FullWords(n) - 1) : ~ok(k) /\ \A i \in 0..(k - 1) : ok(i)

\* Mutant: the last word is written as a whole.
write_data_whole_words(w, dest, src) ==
    LET n == Len(src)
        padded == src \o [i \in 1..(WordBytes - 1) |-> 9]
        words == (n + WordBytes - 1) \div WordBytes
    IN  IF process_vm_writev(w, dest, n) THEN [status |-> 0, mem |-> Store(w.mem, dest, src)]
        ELSE [status |-> 0, mem |-> Store(w.mem, dest, SubSeq(padded, 1, words * WordBytes))]

write_data(w, dest, src) ==
    LET n == Len(src)
        done == WordsDone(w, dest, n)
    IN  IF process_vm_writev(w, dest, n) THEN [status |-> 0, mem |-> Store(w.mem, dest, src)]
        ELSE [status |-> IF done * WordBytes = n THEN 0 ELSE EFAULT_,
              mem |-> Store(w.mem, dest, SubSeq(src, 1, done * WordBytes))]

\* The buffers are consecutive parts of src; ends has where each ends.
Ends(n) == {e \in UNION {[1..k -> 0..n] : k \in 1..MaxBuffers} :
              e[Len(e)] = n /\ \A i, j \in DOMAIN e : i <= j => e[i] <= e[j]}
StartOf(ends, k) == IF k = 1 THEN 0 ELSE ends[k - 1]

\* The k-th buffer, unless one before it could not be written.
write_buffer(w, dest, src, ends, k, before) ==
    IF before.status < 0 THEN before
    ELSE write_data([w EXCEPT !.mem = before.mem], dest + StartOf(ends, k),
                    SubSeq(src, StartOf(ends, k) + 1, ends[k]))

\* Each buffer on its own, as far as they go, when they cannot go together.
writev_data(w, dest, src, ends) ==
    LET after[k \in 0..Len(ends)] ==
            IF k = 0 THEN [status |-> 0, mem |-> w.mem]
            ELSE write_buffer(w, dest, src, ends, k, after[k - 1])
    IN  IF process_vm_writev(w, dest, Len(src)) THEN [status |-> 0, mem |-> Store(w.mem, dest, src)]
        ELSE after[Len(ends)]

clear_mem(w, address, size) == write_data(w, address, [i \in 1..size |-> 0])

\* The word-by-word copy fails at once.
read_data(w, src, n) ==
    IF process_vm_readv(w, src, n) THEN [status |-> 0, dest |-> Bytes(w, src, n)]
    ELSE [status |-> IF n = 0 THEN 0 ELSE EFAULT_, dest |-> <<>>]

(***************************************************************************)
(* Strings.                                                                *)
(***************************************************************************)
\* A string is read in chunks, none crossing a boundary: the offsets of the
\* chunks, and the size of the one at an offset.
Chunks(src, max) == {o \in 0..(max - 1) : o = 0 \/ (src + o) % PageBytes = 0}
ChunkSize(src, max, o) ==
    LET left == PageBytes - ((src + o) % PageBytes) IN IF left < max - o THEN left ELSE max - o

\* Where the first zero of a range is, from 1, or 0.
ZeroIn(w, a, n) ==
    LET zeros == {i \in 1..n : w.mem[a + i - 1] = 0}
    IN  IF zeros = {} THEN 0 ELSE CHOOSE i \in zeros : \A j \in zeros : i <= j

\* The chunks at which the loop is left: what cannot be read, or has an end.
Leaves(w, src, max) ==
    {o \in Chunks(src, max) :
        LET n == ChunkSize(src, max, o)
        IN  ~process_vm_readv(w, src + o, n) \/ ZeroIn(w, src + o, n) # 0}

\* Every byte was read and none is zero: the words are read again, and one
\* more when max is a multiple of their size.
read_again(w, src, max) ==
    IF w.errno \/ ~PEEKDATA(w, src + FullWords(max) * WordBytes) THEN EFAULT_ ELSE max + 1

read_string(w, src, max) ==
    LET leaves == Leaves(w, src, max)
        o == CHOOSE k \in leaves : \A j \in leaves : k <= j
        n == ChunkSize(src, max, o)
    IN  IF leaves = {} THEN read_again(w, src, max)
        ELSE IF process_vm_readv(w, src + o, n) THEN o + ZeroIn(w, src + o, n) ELSE EFAULT_

\* Mutant: a string that fills the buffer is accepted.
read_path_full(w, src, max) ==
    LET status == read_string(w, src, max)
    IN  IF status > max THEN -36 ELSE status

read_path(w, src, max) ==
    LET status == read_string(w, src, max)
    IN  IF status >= max THEN -36 ELSE status

(***************************************************************************)
(* Words: those of the tracee, which are half as long in a 32-bit process. *)
(***************************************************************************)
sizeof_word(half) == IF half THEN WordBytes \div 2 ELSE WordBytes

peek_word(w, a, half) ==
    LET n == sizeof_word(half)
    IN  IF process_vm_readv(w, a, n) \/ PEEKDATA(w, a) THEN [errno |-> 0, value |-> Bytes(w, a, n)]
        ELSE [errno |-> 14, value |-> <<>>]

poke_word(w, a, value, half) ==
    LET n == sizeof_word(half)
    IN  IF process_vm_writev(w, a, n) \/ POKEDATA(w, a)
        THEN [errno |-> 0, mem |-> Store(w.mem, a, SubSeq(value, 1, n))]
        ELSE [errno |-> 14, mem |-> w.mem]

(***************************************************************************)
(* The calls.  Bytes of the tracee are 1 but for the ends of strings.      *)
(***************************************************************************)
World(perm, zeros, vm, errno) ==
    [mem |-> [a \in Addresses |-> IF a \in zeros THEN 0 ELSE 1], perm |-> perm, vm |-> vm,
     errno |-> errno]

Block(n) == [i \in 1..n |-> 1 + i]

WriteData ==
    \E perm \in [0..(Pages - 1) -> Perms], vm \in BOOLEAN, a \in Addresses, n \in 0..MaxBytes :
        LET w == World(perm, {}, vm, FALSE)
        IN  Try("write", [w |-> w, at |-> a, src |-> Block(n)], write_data(w, a, Block(n)))

WritevData ==
    \E perm \in [0..(Pages - 1) -> Perms], vm \in BOOLEAN, a \in Addresses, n \in 1..MaxBytes :
        \E ends \in Ends(n) :
            LET w == World(perm, {}, vm, FALSE)
            IN  Try("write", [w |-> w, at |-> a, src |-> Block(n)], writev_data(w, a, Block(n), ends))

ClearMem ==
    \E perm \in [0..(Pages - 1) -> Perms], a \in Addresses, n \in 1..MaxBytes :
        LET w == World(perm, {}, TRUE, FALSE)
        IN  Try("write", [w |-> w, at |-> a, src |-> [i \in 1..n |-> 0]], clear_mem(w, a, n))

ReadData ==
    \E perm \in [0..(Pages - 1) -> Perms], vm \in BOOLEAN, a \in Addresses, n \in 0..MaxBytes :
        LET w == World(perm, {}, vm, FALSE)
        IN  Try("read", [w |-> w, at |-> a, n |-> n], read_data(w, a, n))

ReadString ==
    \E perm \in [0..(Pages - 1) -> {"none", "r"}], errno \in BOOLEAN, a, z \in Addresses,
       max \in 1..MaxBytes :
        LET w == World(perm, {z}, TRUE, errno)
        IN  Try("string", [w |-> w, at |-> a, max |-> max],
                [size |-> read_string(w, a, max), path |-> read_path(w, a, max)])

PeekWord ==
    \E perm \in [0..(Pages - 1) -> Perms], vm, half \in BOOLEAN, a \in Addresses :
        LET w == World(perm, {}, vm, TRUE)
        IN  Try("peek", [w |-> w, at |-> a, n |-> sizeof_word(half)], peek_word(w, a, half))

PokeWord ==
    \E perm \in [0..(Pages - 1) -> Perms], vm, half \in BOOLEAN, a \in Addresses :
        LET w == World(perm, {}, vm, TRUE)
        IN  Try("poke", [w |-> w, at |-> a, n |-> sizeof_word(half), src |-> Block(WordBytes)],
                poke_word(w, a, Block(WordBytes), half))

MemoryNext == WriteData \/ WritevData \/ ClearMem \/ ReadData \/ ReadString \/ PeekWord \/ PokeWord

MemorySpec == TrialInit /\ [][MemoryNext]_trial

(***************************************************************************)
(* Properties.                                                             *)
(***************************************************************************)
\* A transfer to the tracee, of one buffer or of several, writes the block or a
\* part of it from its beginning, and no other byte; it reports success only when
\* all of it is there, and always when the kernel could do it at once.
WriteExact ==
    trial.op = "write" =>
        \E k \in 0..Len(trial.in.src) :
            /\ trial.out.mem = Store(trial.in.w.mem, trial.in.at, SubSeq(trial.in.src, 1, k))
            /\ Span(trial.in.at, k) \subseteq Addresses
            /\ trial.out.status = 0 => k = Len(trial.in.src)
            /\ process_vm_writev(trial.in.w, trial.in.at, Len(trial.in.src)) => trial.out.status = 0

\* A successful read is the bytes of the tracee; one that process_vm_readv can
\* do succeeds.
ReadExact ==
    trial.op = "read" =>
        /\ trial.out.status = 0 => /\ Readable(trial.in.w, Span(trial.in.at, trial.in.n))
                                   /\ trial.out.dest = Bytes(trial.in.w, trial.in.at, trial.in.n)
        /\ process_vm_readv(trial.in.w, trial.in.at, trial.in.n) => trial.out.status = 0

\* read_string: the size of the string with its end when it fits; more than the
\* buffer holds when it has no end in it; an error only when a byte before its
\* end, or after the buffer, cannot be read, or errno was set.  A string is
\* found even if the page after its end is not there.  read_path never says
\* that a path takes the whole buffer, where get_sysarg_path has to put an end.
StringExact ==
    trial.op = "string" =>
        LET w == trial.in.w
            ends == {n \in 1..trial.in.max : trial.in.at + n - 1 \in Addresses
                                             /\ w.mem[trial.in.at + n - 1] = 0}
            size == CHOOSE n \in ends : \A k \in ends : n <= k
            fits == ends # {} /\ \A a \in Span(trial.in.at, size) : Readable(w, {a})
        IN  /\ trial.out.size > 0 => \/ fits /\ trial.out.size = size
                                     \/ ends = {} /\ trial.out.size = trial.in.max + 1
            /\ trial.out.size <= 0 =>
                  \/ w.errno
                  \/ ~Readable(w, Span(trial.in.at, trial.in.max + WordBytes))
            /\ fits => trial.out.size = size
            /\ trial.out.path < trial.in.max

\* A word of the tracee is as wide as its own, with or without process_vm and
\* whatever errno was before; a read-only page can be poked.
WordExact ==
    /\ trial.op = "peek" =>
          IF trial.out.errno = 0 THEN trial.out.value = Bytes(trial.in.w, trial.in.at, trial.in.n)
          ELSE ~Readable(trial.in.w, Span(trial.in.at, WordBytes))
    /\ trial.op = "poke" =>
          IF trial.out.errno = 0
          THEN trial.out.mem = Store(trial.in.w.mem, trial.in.at, SubSeq(trial.in.src, 1, trial.in.n))
          ELSE trial.out.mem = trial.in.w.mem /\ ~Readable(trial.in.w, Span(trial.in.at, WordBytes))

\* mem.c: a transfer is what was asked for or says that it failed, whichever way
\* it was made.
MemoryExact == WriteExact /\ ReadExact /\ StringExact /\ WordExact

=============================================================================
