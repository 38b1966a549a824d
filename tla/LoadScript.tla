----------------------------- MODULE LoadScript -----------------------------
(***************************************************************************)
(* How a program gets into memory when the loader does it instead of the   *)
(* kernel (USE_LOADER_EXE, which build.h leaves undefined): the mappings   *)
(* computed from the segments (execve/enter.c), the script left on the new *)
(* program's stack (execve/exit.c), the loader that executes it in the     *)
(* tracee (loader/loader.c), and the auxiliary vectors (execve/auxv.c).    *)
(*                                                                         *)
(* A file is its segments, its entry and its size.  A byte of memory is    *)
(* <<file, offset>>, <<"zero", 0>>, or what cannot be touched: <<"none",   *)
(* 0>>, and <<"bus", 0>> in a page that lies past the end of its file.     *)
(***************************************************************************)
EXTENDS Integers, Sequences, SequencesExt, Trial

CONSTANTS PAGE_SIZE, WORD_SIZE, SCRIPT_ALIGNMENT,
          EXEC_PIC_ADDRESS, INTERP_PIC_ADDRESS,
          MaxSegment      \* bound on the size of a segment

ASSUME LoadAssumption ==
    /\ WORD_SIZE \in Nat \ {0} /\ PAGE_SIZE % WORD_SIZE = 0 /\ SCRIPT_ALIGNMENT % WORD_SIZE = 0
    /\ EXEC_PIC_ADDRESS % PAGE_SIZE = 0 /\ INTERP_PIC_ADDRESS % PAGE_SIZE = 0
    /\ MaxSegment \in Nat

PageDown(a) == a - (a % PAGE_SIZE)
PageUp(a) == PageDown(a + PAGE_SIZE - 1)

(***************************************************************************)
(* The mappings of a segment.                                              *)
(***************************************************************************)
Mapping(kind, addr, end, offset, clear, prot) ==
    [action |-> kind, addr |-> addr, length |-> end - addr, offset |-> offset,
     clear_length |-> clear, prot |-> prot]

\* Mutant: the rest of the last page is not cleared.
add_mapping_dirty(s) ==
    LET end == PageDown(s.vaddr + s.filesz + PAGE_SIZE)
        last == PageDown(s.vaddr + s.memsz + PAGE_SIZE)
    IN  <<Mapping("MMAP_FILE", PageDown(s.vaddr), end, PageDown(s.offset), 0, s.prot)>>
        \o (IF s.memsz > s.filesz /\ last > end
            THEN <<Mapping("MMAP_ANON", end, last, 0, 0, s.prot)>> ELSE <<>>)

add_mapping(s) ==
    LET end == PageDown(s.vaddr + s.filesz + PAGE_SIZE)
        last == PageDown(s.vaddr + s.memsz + PAGE_SIZE)
        extra == s.memsz > s.filesz
    IN  <<Mapping("MMAP_FILE", PageDown(s.vaddr), end, PageDown(s.offset),
                  IF extra THEN end - s.vaddr - s.filesz ELSE 0, s.prot)>>
        \o (IF extra /\ last > end THEN <<Mapping("MMAP_ANON", end, last, 0, 0, s.prot)>> ELSE <<>>)

Mappings(file) == FlattenSeq([n \in DOMAIN file.segments |-> add_mapping(file.segments[n])])

\* Where a position independent file goes, when it asks for no other place.
add_load_base(info, base) ==
    [info EXCEPT !.mappings = [n \in DOMAIN @ |-> [@[n] EXCEPT !.addr = @ + base]], !.entry = @ + base]

compute_load_addresses(file, base) ==
    LET info == [mappings |-> Mappings(file), entry |-> file.entry]
    IN  IF file.pic /\ info.mappings[1].addr = 0 THEN add_load_base(info, base) ELSE info

(***************************************************************************)
(* The script: words of the tracee below its stack pointer, under the      *)
(* names of the files.  files[1] is the program, files[2] its interpreter; *)
(* name is the length of a file's path with its end, raw that of the path  *)
(* the program was asked for under, or 0.                                  *)
(***************************************************************************)
SizeOf(statement) ==
    WORD_SIZE * (CASE statement.action \in {"OPEN", "OPEN_NEXT", "MAKE_STACK_EXEC"} -> 2
                   [] statement.action \in {"MMAP_FILE", "MMAP_ANON"} -> 6
                   [] statement.action \in {"START", "START_TRACED"} -> 8)

SizeOfAll(script) == FoldLeft(LAMBDA n, s : n + SizeOf(s), 0, script)

Sizes(files) == FoldLeft(LAMBDA n, f : n + f.name, 0, files)

\* With the path the program was asked for under, when it is another one.
StringsSize(files) == Sizes(files) + files[1].raw

padding_size(sp, files) == (sp - StringsSize(files)) % SCRIPT_ALIGNMENT

string_address(sp, files, n) ==
    sp - StringsSize(files) - padding_size(sp, files) + Sizes(SubSeq(files, 1, n - 1))

at_execfn(sp, files) == string_address(sp, files, IF files[1].raw = 0 THEN 1 ELSE Len(files) + 1)

transcript(files, sp, ptraced) ==
    LET program == compute_load_addresses(files[1], EXEC_PIC_ADDRESS)
        interp == compute_load_addresses(files[2], INTERP_PIC_ADDRESS)
    IN  <<[action |-> "OPEN", string |-> string_address(sp, files, 1)]>> \o program.mappings
        \o (IF Len(files) = 1 THEN <<>>
            ELSE <<[action |-> "OPEN_NEXT", string |-> string_address(sp, files, 2)]>> \o interp.mappings)
        \o (IF \E n \in DOMAIN files : files[n].stack
            THEN <<[action |-> "MAKE_STACK_EXEC", start |-> PageDown(sp)]>> ELSE <<>>)
        \o <<[action |-> IF ptraced THEN "START_TRACED" ELSE "START", sp |-> sp,
              entry |-> IF Len(files) = 1 THEN program.entry ELSE interp.entry,
              at_entry |-> program.entry, at_execfn |-> at_execfn(sp, files),
              at_phdr |-> files[1].phoff + program.mappings[1].addr]>>

\* What is written, where, and the registers of the loader.
transfer_load_script(files, sp, ptraced) ==
    LET script == transcript(files, sp, ptraced)
        size == SizeOfAll(script) + StringsSize(files) + padding_size(sp, files)
    IN  [script |-> script, cursor |-> sp - size, stack_pointer |-> sp - size,
         strings |-> [n \in DOMAIN files |->
                        sp - size + SizeOfAll(script) + Sizes(SubSeq(files, 1, n - 1))]]

(***************************************************************************)
(* The loader.                                                             *)
(***************************************************************************)
Spanned(a, b) == a..(b - 1)
Space == 0..(INTERP_PIC_ADDRESS + 8 * PAGE_SIZE)
Zero == <<"zero", 0>>

\* The addresses a mapping takes, and the memory once these bytes are there.
Place(s) == Spanned(s.addr, s.addr + s.length)

Mapped(mem, bytes) == [a \in Space |-> IF a \in DOMAIN bytes THEN bytes[a] ELSE mem[a]]

\* A byte of a file: the page of its end is filled with zeros.
FileByte(file, offset) ==
    IF offset < file.size THEN <<file.id, offset>>
    ELSE IF offset < PageUp(file.size) THEN Zero ELSE <<"bus", 0>>

\* The bytes before the first word, the words, the bytes after the last.
clear(start, end) ==
    LET first == IF start % WORD_SIZE # 0 THEN start + WORD_SIZE - (start % WORD_SIZE) ELSE start
        last == end - (end % WORD_SIZE)
    IN  Spanned(start, first) \cup Spanned(first, last) \cup Spanned(last, end)

mmap_file(l, s, file) ==
    LET mem == Mapped(l.mem, [a \in Place(s) |-> FileByte(file, s.offset + a - s.addr)])
        end == s.addr + s.length
        cleared == IF s.clear_length = 0 THEN {} ELSE clear(end - s.clear_length, end)
    IN  [l EXCEPT !.mem = [a \in Space |-> IF a \in cleared THEN Zero ELSE mem[a]],
                  !.fault = @ \/ \E a \in cleared : mem[a][1] = "bus" \/ s.prot # "rw",
                  !.at_base = IF l.reset_at_base THEN s.addr ELSE @,
                  !.reset_at_base = FALSE]

mmap_anon(l, s) == [l EXCEPT !.mem = Mapped(@, [a \in Place(s) |-> Zero])]

\* The file whose name is at an address.
NamedAt(files, strings, address) == CHOOSE n \in DOMAIN files : strings[n] = address

loader_step(files, strings, l, s) ==
    CASE s.action \in {"OPEN", "OPEN_NEXT"} ->
            [l EXCEPT !.fd = NamedAt(files, strings, s.string), !.reset_at_base = TRUE]
      [] s.action = "MMAP_FILE" -> mmap_file(l, s, files[l.fd])
      [] s.action = "MMAP_ANON" -> mmap_anon(l, s)
      [] s.action = "MAKE_STACK_EXEC" -> [l EXCEPT !.exec_stack = TRUE]
      [] s.action \in {"START", "START_TRACED"} ->
            [l EXCEPT !.start = s, !.notified = s.action = "START_TRACED", !.fd = 0]

loader_start(files, strings, script) ==
    FoldLeft(LAMBDA l, s : IF l.fault THEN l ELSE loader_step(files, strings, l, s),
             [mem |-> [a \in Space |-> <<"none", 0>>], fd |-> 0, reset_at_base |-> TRUE, at_base |-> 0,
              exec_stack |-> FALSE, notified |-> FALSE, fault |-> FALSE, start |-> [entry |-> -1]],
             script)

(***************************************************************************)
(* Auxiliary vectors.  The stack is a sequence of words from the stack     *)
(* pointer on, of which the first readable ones can be read; NULL is 0 and *)
(* an address is an index, from 1.                                         *)
(***************************************************************************)
\* From a place on, the first zero.
ZeroFrom(stack, n) ==
    LET zeros == {k \in n..Len(stack) : stack[k] = 0}
    IN  CHOOSE k \in zeros : \A j \in zeros : k <= j

get_elf_aux_vectors_address(stack, readable) ==
    LET end == ZeroFrom(stack, 1 + stack[1] + 2)
    IN  IF readable = 0 \/ end > readable THEN 0 ELSE end + 1

add_elf_aux_vector(vectors, type, value) ==
    Append(SubSeq(vectors, 1, Len(vectors) - 1), <<type, value>>) \o <<<<0, 0>>>>

\* The vectors, or the empty sequence when a word cannot be read.
fetch_elf_aux_vectors(stack, readable, address) ==
    LET pairs == {k \in 0..(Len(stack) - address) : k % 2 = 0 /\ stack[address + k] = 0}
        end == CHOOSE k \in pairs : \A j \in pairs : k <= j
        add(vectors, n) == add_elf_aux_vector(vectors, stack[address + 2 * n - 2], stack[address + 2 * n - 1])
    IN  IF address + end > readable THEN <<>>
        ELSE FoldLeft(add, <<<<0, 0>>>>, [n \in 1..(end \div 2) |-> n])

\* The words written at an address; the sentinel is written with its value.
push_elf_aux_vectors(stack, vectors, address) ==
    LET words == FlattenSeq(vectors)
    IN  [n \in 1..(IF Len(stack) > address + Len(words) - 1 THEN Len(stack) ELSE address + Len(words) - 1) |->
            IF n >= address /\ n < address + Len(words) THEN words[n - address + 1] ELSE stack[n]]

(***************************************************************************)
(* The end of the loader: it skips what is before the vectors on its own,  *)
(* and replaces those about the program.                                   *)
(***************************************************************************)
AT == [NULL |-> 0, PHDR |-> 3, PHENT |-> 4, PHNUM |-> 5, BASE |-> 7, ENTRY |-> 9, EXECFN |-> 31]

Replacement(l, execfn) ==
    [t \in {AT.PHDR, AT.PHENT, AT.PHNUM, AT.BASE, AT.ENTRY, AT.EXECFN} |->
        CASE t = AT.PHDR -> l.at_phdr [] t = AT.PHENT -> l.at_phent [] t = AT.PHNUM -> l.at_phnum
          [] t = AT.BASE -> l.at_base [] t = AT.ENTRY -> l.at_entry [] t = AT.EXECFN -> execfn]

adjust_auxv(stack, l) ==
    LET first == ZeroFrom(stack, 1 + stack[1] + 2) + 1
        new == Replacement(l, stack[2])
    IN  [n \in DOMAIN stack |->
            IF n > first /\ (n - first) % 2 = 1 /\ stack[n - 1] \in DOMAIN new THEN new[stack[n - 1]]
            ELSE stack[n]]

(***************************************************************************)
(* The calls.                                                              *)
(***************************************************************************)
\* Segments as linkers lay them out: the offset in the file and the address
\* are at the same place of a page.
Segment(vaddr, offset, filesz, memsz, prot) ==
    [vaddr |-> vaddr, offset |-> offset, filesz |-> filesz, memsz |-> memsz, prot |-> prot]

File(id, segments, size, pic, stack) ==
    [id |-> id, name |-> IF id = "program" THEN 3 ELSE 2, raw |-> 0, segments |-> segments, size |-> size,
     entry |-> segments[1].vaddr, phoff |-> 1, pic |-> pic, stack |-> stack]

Ld == File("interp", <<Segment(0, 0, PAGE_SIZE, PAGE_SIZE, "r"),
                       Segment(PAGE_SIZE, PAGE_SIZE, 1, PAGE_SIZE + 2, "rw")>>, PAGE_SIZE + 1, TRUE, TRUE)

FirstSegments ==
    {Segment(vaddr, vaddr % PAGE_SIZE, filesz, filesz, "r") :
        vaddr \in {0, PAGE_SIZE}, filesz \in 2..MaxSegment}

\* The second one starts in a page of its own, and the file ends with it or
\* goes on behind it.
TwoSegments(first) ==
    {LET second == Segment(PageUp(first.vaddr + first.memsz) + at, at + PageUp(first.filesz),
                           filesz, filesz + extra, prot)
     IN  File("program", <<first, second>>, second.offset + filesz + behind, first.vaddr = 0, FALSE) :
        at \in 0..(PAGE_SIZE - 1), filesz \in 0..MaxSegment, extra \in {0, 1, PAGE_SIZE, PAGE_SIZE + 1},
        prot \in {"r", "rw"}, behind \in {0, PAGE_SIZE}}

LoadProgram ==
    \E first \in FirstSegments, ld \in {<<>>, <<Ld>>} : \E program \in TwoSegments(first) :
        LET files == <<program>> \o ld
            t == transfer_load_script(files, INTERP_PIC_ADDRESS, FALSE)
        IN  Try("load", files, loader_start(files, t.strings, t.script))

\* The place of the script for any stack pointer and any lengths of the names.
TransferScript ==
    \E sp \in 200..(199 + SCRIPT_ALIGNMENT), n1, n2 \in 1..4, raw \in {0, 1, 3}, stack, ptraced \in BOOLEAN :
        LET program == [File("program", <<Segment(0, 0, 2, 6, "rw")>>, 2, TRUE, stack) EXCEPT !.name = n1, !.raw = raw]
            files == <<program, [Ld EXCEPT !.name = n2, !.stack = FALSE]>>
        IN  Try("script", [sp |-> sp, files |-> files, ptraced |-> ptraced],
                transfer_load_script(files, sp, ptraced))

\* A stack as the kernel leaves it.
StackOf(argc, envc, types) ==
    <<argc>> \o [n \in 1..argc |-> 100 + n] \o <<0>> \o [n \in 1..envc |-> 120 + n] \o <<0>>
    \o FlattenSeq([n \in DOMAIN types |-> <<types[n], 40 + n>>]) \o <<0, 0>>

Fixed == [at_phdr |-> 51, at_phent |-> 52, at_phnum |-> 53, at_base |-> 54, at_entry |-> 55]

AuxVectors ==
    \E argc, envc \in 0..2, types \in {<<16>>, <<3, 16, 7>>, <<31, 9, 5, 4, 6>>}, short \in 0..3 :
        LET stack == StackOf(argc, envc, types)
            readable == Len(stack) - short
            address == get_elf_aux_vectors_address(stack, readable)
            vectors == IF address = 0 THEN <<>> ELSE fetch_elf_aux_vectors(stack, readable, address)
        IN  Try("auxv", [argc |-> argc, envc |-> envc, types |-> types, short |-> short],
                [address |-> address, vectors |-> vectors,
                 pushed |-> IF vectors = <<>> THEN stack
                            ELSE push_elf_aux_vectors(stack, add_elf_aux_vector(vectors, 90, 91), address),
                 adjusted |-> adjust_auxv(stack, Fixed)])

LoadNext == LoadProgram \/ TransferScript \/ AuxVectors

(***************************************************************************)
(* Properties.                                                             *)
(***************************************************************************)
BaseOf(file) ==
    IF file.pic /\ PageDown(file.segments[1].vaddr) = 0
    THEN IF file.id = "interp" THEN INTERP_PIC_ADDRESS ELSE EXEC_PIC_ADDRESS
    ELSE 0

\* After the loader every segment of the program and of its interpreter holds
\* what its file says: its bytes, then zeros up to its size in memory, whatever
\* was mapped after it.  The loader dies only of clearing a page that is
\* read-only or, when the bytes of a segment end with a page and with the file,
\* one that is past the end of the file.
LoadExact ==
    trial.op = "load" =>
        LET files == trial.in
            all == {<<n, k>> : n \in DOMAIN files, k \in 1..2}
            seg(p) == files[p[1]].segments[p[2]]
            at(p) == BaseOf(files[p[1]]) + seg(p).vaddr
            lost(p) == /\ seg(p).memsz > seg(p).filesz
                       /\ \/ seg(p).prot # "rw"
                          \/ (at(p) + seg(p).filesz) % PAGE_SIZE = 0
                             /\ PageUp(files[p[1]].size) <= seg(p).offset + seg(p).filesz
        IN  IF trial.out.fault THEN \E p \in all : lost(p)
            ELSE \A p \in all :
                    /\ \A n \in 0..(seg(p).filesz - 1) :
                          trial.out.mem[at(p) + n] = <<files[p[1]].id, seg(p).offset + n>>
                    /\ \A n \in seg(p).filesz..(seg(p).memsz - 1) : trial.out.mem[at(p) + n] = Zero

\* The program starts in its interpreter if it has one; AT_ENTRY, AT_PHDR and
\* AT_BASE are where its entry, its headers and the interpreter really are.
StartExact ==
    trial.op = "load" /\ ~trial.out.fault =>
        LET files == trial.in
            end == files[Len(files)]
            start == trial.out.start
        IN  /\ trial.out.mem[start.entry] = <<end.id, end.segments[1].offset>>
            /\ trial.out.mem[start.at_entry] = <<"program", files[1].segments[1].offset>>
            /\ trial.out.mem[start.at_phdr] = <<"program", files[1].phoff>>
            /\ trial.out.mem[trial.out.at_base] = <<end.id, 0>>
            /\ trial.out.exec_stack <=> \E n \in DOMAIN files : files[n].stack
            /\ trial.out.fd = 0

\* The script is aligned and lies with the names below the stack that the
\* program will get, every statement that opens a file has the address where
\* its name was put, and the stack pointer of the loader is below all of it.
ScriptPlaced ==
    trial.op = "script" =>
        LET sp == trial.in.sp
            files == trial.in.files
            script == trial.out.script
            opens == SelectSeq(script, LAMBDA s : s.action \in {"OPEN", "OPEN_NEXT"})
            end == trial.out.strings[2] + files[2].name
        IN  /\ trial.out.strings[1] % SCRIPT_ALIGNMENT = 0
            /\ trial.out.cursor % WORD_SIZE = 0 /\ trial.out.stack_pointer <= trial.out.cursor
            /\ trial.out.cursor + SizeOfAll(script) <= trial.out.strings[1]
            /\ trial.out.strings[1] + files[1].name <= trial.out.strings[2]
            /\ end + files[1].raw <= sp /\ sp - (end + files[1].raw) < SCRIPT_ALIGNMENT
            /\ [n \in DOMAIN opens |-> opens[n].string] = trial.out.strings
            /\ Last(script).sp = sp
            /\ Last(script).at_execfn = IF files[1].raw = 0 THEN trial.out.strings[1] ELSE end
            /\ Last(script).action = IF trial.in.ptraced THEN "START_TRACED" ELSE "START"

\* The tracer and the loader find the vectors at the same place of the stack;
\* the tracer reads all of them or none, and adding one keeps the others and the
\* sentinel; the loader changes the values about the program and no other word.
AuxvExact ==
    trial.op = "auxv" =>
        LET in == trial.in
            stack == StackOf(in.argc, in.envc, in.types)
            first == in.argc + in.envc + 4
            own == {AT.PHDR, AT.PHENT, AT.PHNUM, AT.BASE, AT.ENTRY, AT.EXECFN}
        IN  /\ trial.out.address \in {0, first}
            /\ in.short <= 1 => trial.out.vectors # <<>>
            /\ trial.out.vectors # <<>> =>
                  /\ trial.out.vectors = [n \in DOMAIN in.types |-> <<in.types[n], 40 + n>>] \o <<<<0, 0>>>>
                  /\ trial.out.pushed = SubSeq(stack, 1, Len(stack) - 2) \o <<90, 91, 0, 0>>
            /\ \A n \in DOMAIN stack :
                  trial.out.adjusted[n] # stack[n] => /\ n > first /\ (n - first) % 2 = 1
                                                      /\ stack[n - 1] \in own
            /\ \A n \in DOMAIN in.types : in.types[n] \in own =>
                  trial.out.adjusted[first + 2 * n - 1] = Replacement(Fixed, stack[2])[in.types[n]]

\* From add_mapping to the loader's jump: the program that starts is in memory as
\* its file says, with its strings and its vector in place.
ProgramLoaded == LoadExact /\ StartExact /\ ScriptPlaced /\ AuxvExact

=============================================================================
