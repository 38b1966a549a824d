--------------------------- MODULE PtraceRequests ---------------------------
(***************************************************************************)
(* The requests with which a ptracer reads and writes its stopped ptracee  *)
(* (ptrace/ptrace.c), and, for a 32-bit ptracer under a 64-bit tracer, the *)
(* translation of the user area (ptrace/user.c).                           *)
(*                                                                         *)
(* Memory is a sequence of half words; a register is <<low, high>>.  The   *)
(* user area of the ptracee is a function of byte offsets.  Allocations    *)
(* succeed.                                                                *)
(***************************************************************************)
EXTENDS Integers, Sequences, Trial

CONSTANT SetSize   \* half words in a register set, and the longest vector given

ASSUME RequestsAssumption == SetSize \in Nat \ {0}

EIO == 5
RequestFault == 14
ENOTSUP == 95

(***************************************************************************)
(* The user area.                                                          *)
(***************************************************************************)
NbRegs == 27
USER32_NB_REGS == 17
USER32_NB_FPREGS == 27
USER32_DEBUGREG_OFFSET == 252
U_DEBUGREG == 848      \* offsetof(struct user, u_debugreg)

convert_user_regs_index(i) ==
    <<5, 11, 12, 13, 14, 4, 10, 23, 24, 25, 26, 15, 16, 17, 18, 19, 20>>[i + 1]

convert_user_debugreg_offset(offset) == U_DEBUGREG + 8 * ((offset - USER32_DEBUGREG_OFFSET) \div 4)

\* -1: no such place, or one that is not supported.
convert_user_offset(offset) ==
    CASE offset < 4 * USER32_NB_REGS ->
            IF offset % 4 # 0 THEN -1 ELSE 8 * convert_user_regs_index(offset \div 4)
      [] offset >= USER32_DEBUGREG_OFFSET /\ offset < USER32_DEBUGREG_OFFSET + 32 ->
            convert_user_debugreg_offset(offset)
      [] OTHER -> -1

Offset64(half, offset) == IF half THEN convert_user_offset(offset) ELSE offset

\* Half words of the 32-bit area, those of the 64-bit area, and registers from
\* the first: buffer is what lies in the 64-bit area before.
Regs32(user) == [n \in 1..USER32_NB_REGS |-> user[8 * convert_user_regs_index(n - 1)][1]]

AllRegs(user) == [n \in 1..(2 * NbRegs) |-> user[8 * ((n - 1) \div 2)][1 + ((n - 1) % 2)]]

Regs64(regs32, buffer) ==
    [i \in 0..(NbRegs - 1) |->
        IF \E n \in DOMAIN regs32 : convert_user_regs_index(n - 1) = i
        THEN <<regs32[CHOOSE n \in DOMAIN regs32 : convert_user_regs_index(n - 1) = i], 0>>
        ELSE <<buffer[2 * i + 1], buffer[2 * i + 2]>>]

(***************************************************************************)
(* A request: its address and data, whether its ptracer is a 32-bit one,   *)
(* the errors of its calls to the kernel and of its accesses to the        *)
(* ptracer's memory.  w is the ptracer's memory at data and the ptracee.   *)
(***************************************************************************)
Overlay(memory, halves) ==
    [n \in DOMAIN memory |-> IF n <= Len(halves) THEN halves[n] ELSE memory[n]]

Failed(w, status) == [w EXCEPT !.status = status]

Halves(half, register) == IF half THEN <<register[1]>> ELSE register

\* Fetch from the kernel, then write to the ptracer.
get_request(w, r, halves) ==
    IF r.kernel # 0 THEN Failed(w, -r.kernel)
    ELSE IF r.memory[1] # 0 THEN Failed(w, -r.memory[1])
    ELSE [w EXCEPT !.block = Overlay(@, halves)]

\* Read from the ptracer, then give to the kernel.
set_request(w, r, ptracee) ==
    IF r.memory[1] # 0 THEN Failed(w, -r.memory[1])
    ELSE IF r.kernel # 0 THEN Failed(w, -r.kernel)
    ELSE [w EXCEPT !.ptracee = ptracee]

\* Without an access to the ptracer's memory.
poke_request(w, r, ptracee) ==
    IF r.kernel # 0 THEN Failed(w, -r.kernel) ELSE [w EXCEPT !.ptracee = ptracee]

peek_user(w, r) ==
    LET at == Offset64(r.half, r.address)
    IN  IF at \notin DOMAIN w.ptracee.user THEN Failed(w, -EIO)
        ELSE get_request(w, r, Halves(r.half, w.ptracee.user[at]))

poke_user(w, r) ==
    LET at == Offset64(r.half, r.address)
    IN  IF at \notin DOMAIN w.ptracee.user THEN Failed(w, -EIO)
        ELSE poke_request(w, r, [w.ptracee EXCEPT !.user[at] = r.data])

\* A 32-bit ptracer writes half a word: the other half is read first.
\* Mutant: it is not.
poke_data_whole(w, r) == poke_request(w, r, [w.ptracee EXCEPT !.word = r.data])

poke_data(w, r) ==
    LET high == IF r.half THEN w.ptracee.word[2] ELSE r.data[2]
    IN  poke_request(w, r, [w.ptracee EXCEPT !.word = <<r.data[1], high>>])

get_regs(w, r) ==
    get_request(w, r, IF r.half THEN Regs32(w.ptracee.user) ELSE AllRegs(w.ptracee.user))

\* The registers that a 32-bit ptracer does not know get what is in the buffer.
set_regs(w, r) ==
    LET buffer == [n \in 1..(2 * NbRegs) |-> IF n <= USER32_NB_REGS THEN w.block[n] ELSE r.stack]
        regs == IF r.half THEN Regs64(SubSeq(w.block, 1, USER32_NB_REGS), buffer)
                ELSE [i \in 0..(NbRegs - 1) |-> <<w.block[2 * i + 1], w.block[2 * i + 2]>>]
    IN  set_request(w, r, [w.ptracee EXCEPT !.user =
            [o \in DOMAIN @ |-> IF o < U_DEBUGREG THEN regs[o \div 8] ELSE @[o]]])

get_fpregs(w, r) ==
    get_request(w, r, IF r.half THEN [n \in 1..USER32_NB_FPREGS |-> 0] ELSE w.ptracee.fpregs)

set_fpregs(w, r) ==
    IF r.half THEN Failed(w, IF r.memory[1] # 0 THEN -r.memory[1] ELSE -ENOTSUP)
    ELSE set_request(w, r, [w.ptracee EXCEPT !.fpregs = SubSeq(w.block, 1, Len(@))])

\* A vector: its base and length are read, its content transferred, and its
\* length written back.  An error of the kernel comes back as -1.
Shorter(m, n) == IF m < n THEN m ELSE n
FirstError(r, n) == IF \E k \in 1..n : r.memory[k] # 0
                    THEN r.memory[CHOOSE k \in 1..n : r.memory[k] # 0 /\ \A j \in 1..(k - 1) : r.memory[j] = 0]
                    ELSE 0

get_regset(w, r) ==
    LET length == Shorter(w.length, SetSize)
        written == [w EXCEPT !.block = Overlay(@, SubSeq(w.ptracee.set, 1, length))]
    IN  CASE FirstError(r, 2) # 0 -> Failed(w, -FirstError(r, 2))
          [] FirstError(r, 2) = 0 /\ r.kernel # 0 -> Failed(w, -1)
          [] FirstError(r, 2) = 0 /\ r.kernel = 0 /\ r.memory[3] # 0 -> Failed(w, -r.memory[3])
          [] OTHER -> IF r.memory[4] # 0 THEN Failed(written, -r.memory[4])
                      ELSE [written EXCEPT !.length = length]

set_regset(w, r) ==
    IF FirstError(r, 3) # 0 THEN Failed(w, -FirstError(r, 3))
    ELSE IF r.kernel # 0 THEN Failed(w, -1)
    ELSE [w EXCEPT !.ptracee.set = Overlay(@, SubSeq(w.block, 1, w.length))]

\* The segment registers' bases, on x86-64: to get only.
arch_prctl(w, r) ==
    IF r.data[1] = 1 THEN get_request(w, r, Halves(r.half, w.ptracee.base)) ELSE Failed(w, -ENOTSUP)

(***************************************************************************)
(* The part of translate_ptrace_exit that does not restart the ptracee.    *)
(* (The thread area goes like the information on the signal.)              *)
(***************************************************************************)
translate_ptrace_exit(w, r) ==
    CASE r.request = "GETEVENTMSG" -> get_request(w, r, Halves(r.half, w.ptracee.message))
      [] r.request = "PEEKUSER" -> peek_user(w, r)
      [] r.request = "PEEKDATA" -> get_request(w, r, Halves(r.half, w.ptracee.word))
      [] r.request = "POKEUSER" -> poke_user(w, r)
      [] r.request = "POKEDATA" -> poke_data(w, r)
      [] r.request = "GETSIGINFO" -> get_request(w, r, w.ptracee.siginfo)
      [] r.request = "SETSIGINFO" ->
            set_request(w, r, [w.ptracee EXCEPT !.siginfo = SubSeq(w.block, 1, Len(@))])
      [] r.request = "GETREGS" -> get_regs(w, r)
      [] r.request = "SETREGS" -> set_regs(w, r)
      [] r.request = "GETFPREGS" -> get_fpregs(w, r)
      [] r.request = "SETFPREGS" -> set_fpregs(w, r)
      [] r.request = "GETREGSET" -> get_regset(w, r)
      [] r.request = "SETREGSET" -> set_regset(w, r)
      [] r.request = "ARCH_PRCTL" -> arch_prctl(w, r)
      [] r.request = "SET_SYSCALL" -> poke_request(w, r, [w.ptracee EXCEPT !.number = r.data])
      [] r.request = "GETFPXREGS" -> Failed(w, -ENOTSUP)   \* and what is not known

Offsets == {8 * i : i \in 0..(NbRegs - 1)} \cup {U_DEBUGREG + 8 * i : i \in 0..7}

Stopped ==
    [user |-> [o \in Offsets |-> <<o, 1>>], word |-> <<901, 1>>, message |-> <<902, 1>>,
     siginfo |-> <<903, 904>>, fpregs |-> <<905, 906>>, base |-> <<907, 1>>,
     number |-> <<908, 1>>,
     set |-> [n \in 1..SetSize |-> 910 + n]]

Requests == {"GETEVENTMSG", "PEEKUSER", "PEEKDATA", "POKEUSER", "POKEDATA", "GETSIGINFO", "SETSIGINFO",
             "GETREGS", "SETREGS", "GETFPREGS", "SETFPREGS", "GETREGSET", "SETREGSET", "ARCH_PRCTL",
             "SET_SYSCALL", "GETFPXREGS"}

Addresses32(request) == IF request \in {"PEEKUSER", "POKEUSER"} THEN (0..70) \cup (250..290) ELSE {0}
Lengths(request) == IF request \in {"GETREGSET", "SETREGSET"} THEN 0..(SetSize + 1) ELSE {1, 2}

PtraceRequest ==
    \E request \in Requests, half \in BOOLEAN, kernel \in {0, EIO}, bad \in 0..4 :
    \E address \in Addresses32(request), length \in Lengths(request) :
        LET r == [request |-> request, address |-> address, half |-> half, kernel |-> kernel,
                  data |-> <<length, IF half THEN 0 ELSE 2>>, stack |-> 999,
                  memory |-> [n \in 1..4 |-> IF n = bad THEN RequestFault ELSE 0]]
            w == [status |-> 0, length |-> length, block |-> [n \in 1..60 |-> 700 + n], ptracee |-> Stopped]
        IN  Try("request", [r |-> r, w |-> w], translate_ptrace_exit(w, r))

RequestsSpec == TrialInit /\ [][PtraceRequest]_trial

(***************************************************************************)
(* Properties.                                                             *)
(***************************************************************************)
Got(r) == r.request \in {"GETEVENTMSG", "PEEKUSER", "PEEKDATA", "GETSIGINFO", "GETREGS", "GETFPREGS",
                         "GETREGSET", "ARCH_PRCTL"}

\* translate_ptrace_exit: an error of the kernel or of the ptracer's memory is
\* reported; a request that failed changed nothing of the ptracee, and nothing
\* of the ptracer but the content of a vector whose length could not
\* be written; a request to get leaves the ptracee alone and one to set the
\* ptracer, and no byte past the end of what there is to get is written.
RequestExact ==
    trial.op = "request" =>
        LET r == trial.in.r
            size == CASE r.request \in {"PEEKUSER", "PEEKDATA", "GETEVENTMSG", "ARCH_PRCTL"} ->
                            IF r.half THEN 1 ELSE 2
                      [] r.request = "GETREGS" -> IF r.half THEN USER32_NB_REGS ELSE 2 * NbRegs
                      [] r.request = "GETFPREGS" /\ r.half -> USER32_NB_FPREGS
                      [] r.request = "GETREGSET" -> Shorter(trial.in.w.length, SetSize)
                      [] OTHER -> 2
        IN  /\ r.kernel # 0 => trial.out.status # 0
            /\ r.memory[1] # 0 => trial.out.status # 0 \/ r.request \in {"POKEUSER", "POKEDATA", "SET_SYSCALL"}
            /\ trial.out.status # 0 =>
                  /\ trial.out.ptracee = Stopped
                  /\ trial.out.block # trial.in.w.block => r.request = "GETREGSET" /\ r.memory[4] # 0
                  /\ trial.out.status = -1 => r.request \in {"GETREGSET", "SETREGSET"}
            /\ IF Got(r) THEN trial.out.ptracee = Stopped
               ELSE trial.out.block = trial.in.w.block /\ trial.out.length = trial.in.w.length
            /\ \A n \in (size + 1)..60 : trial.out.block[n] = trial.in.w.block[n]

\* A 32-bit ptracer that writes a word changes the half it gave and no other.
HalfWordKept ==
    trial.op = "request" /\ trial.in.r.request = "POKEDATA" /\ trial.out.status = 0 =>
        trial.out.ptracee.word = <<trial.in.r.data[1], IF trial.in.r.half THEN 1 ELSE 2>>

Names32 == <<"bx", "cx", "dx", "si", "di", "bp", "ax", "ds", "es", "fs", "gs", "orig_ax", "ip", "cs",
             "flags", "sp", "ss">>
Names64 == <<"r15", "r14", "r13", "r12", "bp", "bx", "r11", "r10", "r9", "r8", "ax", "cx", "dx", "si",
             "di", "orig_ax", "ip", "cs", "flags", "sp", "ss", "fs_base", "gs_base", "ds", "es", "fs",
             "gs">>

\* The offset in the 64-bit area of the n-th register of a 32-bit one.
Of32(n) == 8 * ((CHOOSE k \in 1..NbRegs : Names64[k] = Names32[n]) - 1)

\* convert_user_regs_struct and convert_user_offset: a 32-bit ptracer finds and
\* changes every register under the place it has in a 32-bit process, whether it
\* asks for all of them or for one.  Of the ten registers without such a place
\* (r8 to r15, the bases of fs and gs) nothing is promised when it sets all:
\* they get what is in the buffer of the tracer (ptrace.c:424-428).
RegistersNamed ==
    trial.op = "request" /\ trial.in.r.half /\ trial.out.status = 0 =>
        LET r == trial.in.r
            user == trial.out.ptracee.user
            n == (r.address \div 4) + 1
        IN  /\ r.request = "GETREGS" =>
                  \A k \in DOMAIN Names32 : trial.out.block[k] = Of32(k)
            /\ r.request = "SETREGS" =>
                  /\ \A k \in DOMAIN Names32 : user[Of32(k)] = <<700 + k, 0>>
                  /\ \A o \in Offsets : o >= U_DEBUGREG => user[o] = <<o, 1>>
            /\ r.request \in {"PEEKUSER", "POKEUSER"} /\ n <= USER32_NB_REGS =>
                  /\ r.address % 4 = 0
                  /\ r.request = "PEEKUSER" => trial.out.block[1] = Of32(n)
                  /\ r.request = "POKEUSER" =>
                        \A o \in Offsets : user[o] = IF o = Of32(n) THEN r.data ELSE <<o, 1>>

\* What a request may change of the ptracee.
PartOf(request) ==
    CASE request \in {"POKEUSER", "SETREGS"} -> "user"
      [] request = "POKEDATA" -> "word"
      [] request = "SETSIGINFO" -> "siginfo"
      [] request = "SETFPREGS" -> "fpregs"
      [] request = "SETREGSET" -> "set"
      [] request = "SET_SYSCALL" -> "number"
      [] OTHER -> "nothing"

\* A request changes one part of the ptracee, and a poke of its user area one
\* place in it, for ptracers of both word sizes.
OtherPartsKept ==
    trial.op = "request" =>
        LET r == trial.in.r
        IN  /\ \A part \in DOMAIN Stopped :
                  part # PartOf(r.request) => trial.out.ptracee[part] = Stopped[part]
            /\ r.request = "POKEUSER" =>
                  \A o \in Offsets : o # Offset64(r.half, r.address) =>
                      trial.out.ptracee.user[o] = <<o, 1>>

\* translate_ptrace_exit: a request that succeeds moves the registers and words
\* it names and leaves the other parts of the ptracee and of the ptracer alone;
\* a 32-bit one finds each register in its place, but SETREGS of a 32-bit
\* ptracer also overwrites the registers that have no place.
RequestsExact == RequestExact /\ HalfWordKept /\ RegistersNamed /\ OtherPartsKept

=============================================================================
