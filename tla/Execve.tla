------------------------------- MODULE Execve -------------------------------
(***************************************************************************)
(* What a program file says about how to run it: the interpreter line of a *)
(* script (execve/shebang.c), the chain of scripts behind a path, and the  *)
(* header of an ELF file (execve/elf.c, the first half of execve/enter.c). *)
(* The command line of a script is not rewritten: that part of             *)
(* expand_shebang is commented out in the source.                          *)
(***************************************************************************)
EXTENDS Integers, Sequences, SequencesExt, Trial

CONSTANTS BINPRM_BUF_SIZE, MAXSYMLINKS,
          MaxText,        \* bound on the length of a script
          ProgramFiles,   \* how many files there are in a chain of scripts
          MaxHeaders      \* bound on the program headers of a file

ASSUME ExecveAssumption ==
    /\ {BINPRM_BUF_SIZE, MaxText, MaxHeaders} \subseteq Nat /\ BINPRM_BUF_SIZE > 3
    /\ {MAXSYMLINKS, ProgramFiles} \subseteq Nat \ {0}

NOENT == -2
NOEXEC == -8
ACCES == -13
INVAL == -22
LOOP == -40
NOTSUP == -95

(***************************************************************************)
(* extract_shebang, on the text after "#!".  " " is a space or a tab, "n"  *)
(* the end of a line.                                                      *)
(***************************************************************************)
Trimmed(arg) ==
    LET solid == {1} \cup {n \in DOMAIN arg : arg[n] # " "}
    IN  SubSeq(arg, 1, CHOOSE n \in solid : \A k \in solid : k <= n)

\* One more character, once it was found that the buffer of the kernel holds it.
ReadChar(s, c) ==
    CASE s.phase \in {"skip", "gap"} /\ c = " "  -> s
      [] s.phase = "path" /\ c = " "             -> [s EXCEPT !.phase = "gap"]
      [] s.phase \in {"skip", "path"} /\ c \notin {" ", "n"} ->
            [s EXCEPT !.phase = "path", !.path = Append(@, c)]
      [] s.phase \in {"gap", "argument"} /\ c # "n" /\ (c # " " \/ s.phase = "argument") ->
            [s EXCEPT !.phase = "argument", !.argument = Append(@, c)]
      [] s.phase = "argument" /\ c = "n" -> [s EXCEPT !.phase = "end", !.argument = Trimmed(@)]
      [] s.phase \in {"skip", "path", "gap"} /\ c = "n" -> [s EXCEPT !.phase = "end"]

\* A line that is too long is cut where the kernel would stop reading.
ReadUpto(limit, s, c) ==
    IF s.phase \in {"end", "cut"} THEN s
    ELSE IF s.length + 1 >= limit THEN [s EXCEPT !.phase = "cut"]
    ELSE [ReadChar(s, c) EXCEPT !.length = s.length + 1]

Script(path, argument) == [status |-> 1, path |-> path, argument |-> argument]

NothingRead == [phase |-> "skip", length |-> 2, path |-> <<>>, argument |-> <<>>]

Read(text) ==
    LET at[n \in 0..Len(text)] ==
            IF n = 0 THEN NothingRead ELSE ReadUpto(BINPRM_BUF_SIZE, at[n - 1], text[n])
    IN  at[Len(text)]

\* The file may end anywhere: the end of the path is then written over its last
\* character, as the index still is that of the last one read.
extract_shebang(text) ==
    LET s == Read(text)
    IN  CASE s.phase \in {"end", "cut"}     -> Script(s.path, s.argument)
          [] s.phase \in {"gap", "argument"} -> Script(s.path, <<>>)
          [] s.phase = "path" -> Script(Front(s.path), <<>>)
          [] s.phase = "skip" -> [status |-> NOEXEC, path |-> <<>>, argument |-> <<>>]

(***************************************************************************)
(* expand_shebang.  A path is 0, the empty one, or names a file: a program *)
(* or a script with its interpreter.                                       *)
(***************************************************************************)
translate_and_check_exec(fs, path) ==
    IF path = 0 THEN NOEXEC
    ELSE CASE fs[path].kind = "missing" -> NOENT
           [] fs[path].kind = "data"    -> ACCES
           [] OTHER -> 0

\* What extract_shebang says of a file that may be executed.
ShebangOf(fs, path) ==
    CASE fs[path].kind = "script"     -> 1
      [] fs[path].kind = "unreadable" -> ACCES
      [] fs[path].kind = "unended"    -> NOEXEC
      [] fs[path].kind = "program"    -> 0

\* Once round the loop; done once a result is known.
ExpandOnce(fs, s) ==
    LET checked == translate_and_check_exec(fs, s.path)
        shebang == ShebangOf(fs, s.path)
        interpreter == translate_and_check_exec(fs, fs[s.path].to)
        end(status) == [path |-> s.path, status |-> status, done |-> TRUE]
    IN  IF s.done THEN s
        ELSE IF checked < 0 THEN end(checked)
        ELSE IF shebang <= 0 THEN end(IF shebang = 0 THEN s.status ELSE shebang)
        ELSE [path |-> fs[s.path].to, status |-> IF interpreter < 0 THEN interpreter ELSE 1,
              done |-> interpreter < 0]

\* The loop goes round at most so many times.
Expanded(fs, path, times) ==
    LET at[n \in 0..times] == IF n = 0 THEN [path |-> path, status |-> 0, done |-> FALSE]
                              ELSE ExpandOnce(fs, at[n - 1])
        s == at[times]
    IN  IF s.done THEN s ELSE [s EXCEPT !.status = LOOP]

\* Mutant: the loop may go round once more.
expand_shebang_once_more(fs, path) == Expanded(fs, path, MAXSYMLINKS + 1)

expand_shebang(fs, path) == Expanded(fs, path, MAXSYMLINKS)

(***************************************************************************)
(* The headers of a file.  Of a segment only its number is kept here.      *)
(***************************************************************************)
NoInterp == 0

open_elf(elf) ==
    CASE ~elf.opens -> ACCES
      [] elf.opens /\ (elf.short \/ ~elf.magic \/ elf.class \notin {32, 64}) -> NOEXEC
      [] OTHER -> 0

add_interp(s, h) ==
    IF s.interp # NoInterp THEN [s EXCEPT !.status = INVAL]
    ELSE [s EXCEPT !.interp = h.path, !.status = h.status]

add_load_info(s, h) ==
    CASE h.type = "LOAD"      -> [s EXCEPT !.mappings = Append(@, h.segment)]
      [] h.type = "INTERP"    -> add_interp(s, h)
      [] h.type = "GNU_STACK" -> [s EXCEPT !.stack = @ \/ h.exec]
      [] OTHER -> s

\* The first status that is not 0 ends it.
next_header(elf, s, n) ==
    IF s.status # 0 THEN s
    ELSE IF n > Len(elf.headers) THEN [s EXCEPT !.status = NOTSUP]
    ELSE add_load_info(s, elf.headers[n])

iterate_program_headers(elf, s) ==
    IF elf.phnum >= elf.big \/ ~elf.known THEN [s EXCEPT !.status = NOTSUP]
    ELSE LET at[n \in 0..elf.phnum] == IF n = 0 THEN s ELSE next_header(elf, at[n - 1], n)
         IN  at[elf.phnum]

extract_load_info(elf) ==
    LET empty == [status |-> 0, mappings |-> <<>>, interp |-> NoInterp, stack |-> FALSE]
    IN  CASE open_elf(elf) < 0 -> [empty EXCEPT !.status = open_elf(elf)]
          [] open_elf(elf) = 0 /\ elf.type \notin {"EXEC", "DYN"} -> [empty EXCEPT !.status = INVAL]
          [] OTHER -> iterate_program_headers(elf, empty)

(***************************************************************************)
(* The calls.                                                              *)
(***************************************************************************)
ExtractShebang ==
    \E n \in 0..MaxText : \E text \in [1..n -> {" ", "n", "a", "b"}] :
        Try("shebang", text, extract_shebang(text))

FileKind(kind, to) == [kind |-> kind, to |-> to]
FileKinds == {FileKind("script", p) : p \in 0..ProgramFiles}
             \cup {FileKind(kind, 0) : kind \in {"program", "missing", "data", "unreadable", "unended"}}

ExpandShebang ==
    \E fs \in [1..ProgramFiles -> FileKinds] : Try("expand", fs, expand_shebang(fs, 1))

Headers == {[type |-> "LOAD", segment |-> n] : n \in 1..2}
           \cup {[type |-> "INTERP", path |-> 1, status |-> status] : status \in {0, NOENT, ACCES}}
           \cup {[type |-> "GNU_STACK", exec |-> exec] : exec \in BOOLEAN} \cup {[type |-> "NOTE"]}

Elf(headers, phnum) ==
    [opens |-> TRUE, short |-> FALSE, magic |-> TRUE, class |-> 64, type |-> "DYN", known |-> TRUE,
     big |-> MaxHeaders + 2, phnum |-> phnum, headers |-> headers]

\* Files with any headers.
PlainElfs ==
    UNION {{Elf(headers, k) : headers \in [1..n -> Headers], k \in {n, n + 1}} : n \in 0..MaxHeaders}

\* Files wrong, or right, in another way.
OddElfs ==
    LET e == Elf(<<>>, 0)
    IN  {[e EXCEPT !.opens = FALSE], [e EXCEPT !.short = TRUE], [e EXCEPT !.magic = FALSE],
         [e EXCEPT !.class = 0], [e EXCEPT !.type = "REL"], [e EXCEPT !.known = FALSE],
         [e EXCEPT !.phnum = e.big], [e EXCEPT !.class = 32], [e EXCEPT !.type = "EXEC"]}

ElfFiles == PlainElfs \cup OddElfs

ExtractLoadInfo == \E elf \in ElfFiles : Try("headers", elf, extract_load_info(elf))

ExecveNext == ExtractShebang \/ ExpandShebang \/ ExtractLoadInfo

ExecveSpec == TrialInit /\ [][ExecveNext]_trial

(***************************************************************************)
(* Properties.                                                             *)
(***************************************************************************)
FirstIn(text, from, S) ==
    LET hits == {n \in from..Len(text) : text[n] \in S}
    IN  IF hits = {} THEN Len(text) + 1 ELSE CHOOSE n \in hits : \A k \in hits : n <= k

\* extract_shebang, when the line ends within what the kernel looks at: the
\* interpreter is the first word and its argument the rest of the line without
\* the blanks around it.  A file that ends before its line does loses the last
\* character of the interpreter, or the whole argument; a longer line gives a
\* prefix.
ShebangExact ==
    trial.op = "shebang" =>
        LET text == trial.in
            eol == FirstIn(text, 1, {"n"})
            line == SubSeq(text, 1, eol - 1)
            start == FirstIn(line, 1, {"a", "b"})
            end == FirstIn(line, start, {" "})
            rest == FirstIn(line, end, {"a", "b"})
            word == SubSeq(line, start, end - 1)
            room == BINPRM_BUF_SIZE - 3
        IN  /\ Len(trial.out.path) + Len(trial.out.argument) <= room
            /\ IsPrefix(trial.out.path, word)
            /\ eol <= Len(text) /\ eol <= room =>
                  /\ trial.out.status = 1 /\ trial.out.path = word
                  /\ IF rest > Len(line) THEN trial.out.argument = <<>>
                     ELSE IsPrefix(trial.out.argument, SubSeq(line, rest, Len(line)))
                          /\ Last(trial.out.argument) # " "
                          /\ ToSet(SubSeq(line, rest + Len(trial.out.argument), Len(line))) \subseteq {" "}
            /\ eol > Len(text) /\ Len(text) <= room =>
                  /\ trial.out.argument = <<>>
                  /\ trial.out.status = 1 <=> word # <<>>
                  /\ trial.out.path = IF word # <<>> /\ end > Len(line) THEN Front(word) ELSE word

\* The files met on the way: the k-th interpreter behind the first file.
Interpreter(fs, k) ==
    LET at[n \in 0..k] == IF n = 0 THEN 1 ELSE IF at[n - 1] = 0 THEN 0 ELSE fs[at[n - 1]].to IN at[k]

\* expand_shebang follows scripts to the program that will really run, says that
\* there was one, and ends on a cycle; it never takes a file that cannot be
\* executed for a program, and gives up only after MAXSYMLINKS scripts.
ExpandExact ==
    trial.op = "expand" =>
        LET fs == trial.in
            runs == {k \in 0..(MAXSYMLINKS - 1) :
                        /\ Interpreter(fs, k) # 0 /\ fs[Interpreter(fs, k)].kind = "program"
                        /\ \A j \in 0..(k - 1) : Interpreter(fs, j) # 0
                                                 /\ fs[Interpreter(fs, j)].kind = "script"}
        IN  /\ trial.out.status >= 0 <=> runs # {}
            /\ \A k \in runs : trial.out.path = Interpreter(fs, k)
                               /\ trial.out.status = (IF k > 0 THEN 1 ELSE 0)
            /\ trial.out.status = LOOP =>
                  \A k \in 0..(MAXSYMLINKS - 1) : fs[Interpreter(fs, k)].kind = "script"

\* The mappings are the segments of the headers at these positions, in their order.
InOrder(mappings, headers, positions) ==
    \E at \in [DOMAIN mappings -> positions] :
        /\ \A j, k \in DOMAIN mappings : j < k => at[j] < at[k]
        /\ {at[k] : k \in DOMAIN mappings} = positions
        /\ \A k \in DOMAIN mappings : mappings[k] = headers[at[k]].segment

\* A file is accepted only if it can be opened, is an ELF file of a known class
\* and type, and has every header it announces; then every segment to load is
\* there in the order of the headers, with at most one interpreter, which may be
\* executed.
HeadersExact ==
    trial.op = "headers" =>
        LET elf == trial.in
            Of(type) == {n \in DOMAIN elf.headers : elf.headers[n].type = type}
            sound == /\ elf.opens /\ ~elf.short /\ elf.magic /\ elf.class \in {32, 64}
                     /\ elf.type \in {"EXEC", "DYN"} /\ elf.known /\ elf.phnum = Len(elf.headers)
                     /\ \A m, n \in Of("INTERP") : m = n /\ elf.headers[n].status = 0
        IN  /\ trial.out.status = 0 <=> sound
            /\ sound => /\ InOrder(trial.out.mappings, elf.headers, Of("LOAD"))
                        /\ Of("INTERP") = {} => trial.out.interp = NoInterp
                        /\ \A n \in Of("INTERP") : trial.out.interp = elf.headers[n].path
                        /\ trial.out.stack <=> \E n \in Of("GNU_STACK") : elf.headers[n].exec

\* shebang.c and elf.c: what is taken from a file is what it says.
ProgramFileExact == ShebangExact /\ ExpandExact /\ HeadersExact

=============================================================================
