-------------------------------- MODULE Bpf --------------------------------
(***************************************************************************)
(* The classic BPF programs that syscall/seccomp.c and svcer_hooker.cpp    *)
(* build for the kernel: the instructions they use, the check the kernel   *)
(* makes when a program is installed, and how it runs one on a call.       *)
(* Words have radix Word (2^32 in the kernel): an address is a pair of     *)
(* words.                                                                  *)
(***************************************************************************)
EXTENDS Integers, Sequences, SequencesExt

CONSTANT Word   \* the radix of a machine word

ASSUME WordAssumption == Word \in Nat /\ Word > 1

Low(a)  == a % Word
High(a) == a \div Word

\* BPF_STMT(BPF_LD + BPF_W + BPF_ABS, offset of the field)
Load(field) == [op |-> "ld", field |-> field]

\* BPF_JUMP(BPF_JMP + ..., k, jt, jf)
Jump(op, k, jt, jf) == [op |-> op, k |-> k, jt |-> jt, jf |-> jf]

\* BPF_STMT(BPF_RET + BPF_K, value)
Ret(value) == [op |-> "ret", value |-> value]

IsJump(insn) == insn.op \in {"jeq", "jge", "jgt", "ja"}

(***************************************************************************)
(* The kernel's check of a program: it ends with a return and no jump      *)
(* leaves it.                                                              *)
(***************************************************************************)
Accepted(prog) ==
    /\ prog # <<>> /\ prog[Len(prog)].op = "ret"
    /\ \A i \in DOMAIN prog :
          IsJump(prog[i]) => /\ i + 1 + prog[i].jt \in DOMAIN prog
                             /\ i + 1 + prog[i].jf \in DOMAIN prog

(***************************************************************************)
(* The run of an accepted program on a call.  The accumulator holds what   *)
(* the last load, at instruction l, has loaded.                            *)
(***************************************************************************)
Holds(insn, acc) ==
    CASE insn.op = "jeq" -> acc = insn.k
      [] insn.op = "jge" -> acc >= insn.k
      [] insn.op = "jgt" -> acc > insn.k
      [] insn.op = "ja"  -> TRUE

\* What it comes to at instruction i, from what it comes to at the later ones.
OutcomeAt(prog, data, run, i, l) ==
    CASE prog[i].op = "ret" -> prog[i].value
      [] prog[i].op = "ld"  -> run[i + 1][i]
      [] IsJump(prog[i])    ->
           run[i + 1 + (IF Holds(prog[i], data[prog[l].field]) THEN prog[i].jt ELSE prog[i].jf)][l]

Verdict(prog, data) ==
    LET run[i \in DOMAIN prog] == [l \in {0} \cup DOMAIN prog |-> OutcomeAt(prog, data, run, i, l)]
    IN  run[1][0]

=============================================================================
