-------------------------- MODULE SvcerHookerProofs --------------------------
(***************************************************************************)
(* Theorems about SvcerHooker, for any threads, any callbacks and any      *)
(* number of them, and any world.                                          *)
(***************************************************************************)
EXTENDS SvcerHooker, Lemmas, SequenceTheorems, FiniteSetTheorems


-----------------------------------------------------------------------------
(***************************************************************************)
(* SyscallAsm: whatever was in the registers of the caller, the kernel     *)
(* finds the number and the six arguments of the call in its own.          *)
(***************************************************************************)
LEMMA MoveMade ==
    ASSUME NEW regs, NEW move, NEW args, move.dst \in DOMAIN regs
    PROVE  LET u == Moved(regs, move, args)
           IN  /\ DOMAIN u = DOMAIN regs
               /\ \A r \in DOMAIN regs : r # move.dst => u[r] = regs[r]
               /\ move.word = 0 => u[move.dst] = regs[move.src]
               /\ \A n \in 1..6 : move.word = n /\ regs[move.src] = "args" => u[move.dst] = args[n]
  BY DEF Moved

\* SyscallAsm_aarch64 and SyscallAsm_arm.
FromTheEnd(e, x, args) ==
    Moved(Moved(Moved(Moved(Moved(Moved(Moved(e,
        Ldr(x[6], x[7], 6), args), Ldr(x[5], x[7], 5), args), Ldr(x[4], x[7], 4), args),
        Ldr(x[3], x[7], 3), args), Ldr(x[2], x[7], 2), args), Mov(x[8], x[1]), args),
        Ldr(x[1], x[7], 1), args)

LEMMA LoadsFromTheEnd ==
    ASSUME NEW x, \A i, j \in 1..8 : i # j => x[i] # x[j],
           NEW e, NEW nr, NEW args,
           DOMAIN e = {x[1], x[2], x[3], x[4], x[5], x[6], x[7], x[8]}, e[x[1]] = nr, e[x[7]] = "args"
    PROVE  LET u == FromTheEnd(e, x, args)
           IN  /\ u[x[8]] = nr /\ u[x[1]] = args[1] /\ u[x[2]] = args[2] /\ u[x[3]] = args[3]
               /\ u[x[4]] = args[4] /\ u[x[5]] = args[5] /\ u[x[6]] = args[6]
<1> DEFINE D == {x[1], x[2], x[3], x[4], x[5], x[6], x[7], x[8]}
           u1 == Moved(e, Ldr(x[6], x[7], 6), args)
           u2 == Moved(u1, Ldr(x[5], x[7], 5), args)
           u3 == Moved(u2, Ldr(x[4], x[7], 4), args)
           u4 == Moved(u3, Ldr(x[3], x[7], 3), args)
           u5 == Moved(u4, Ldr(x[2], x[7], 2), args)
           u6 == Moved(u5, Mov(x[8], x[1]), args)
           u7 == Moved(u6, Ldr(x[1], x[7], 1), args)
<1>0. /\ \A d, b, n : Ldr(d, b, n).dst = d /\ Ldr(d, b, n).src = b /\ Ldr(d, b, n).word = n
      /\ \A d, s : Mov(d, s).dst = d /\ Mov(d, s).src = s /\ Mov(d, s).word = 0
  BY DEF Ldr, Mov
<1>00. x[1] \notin {x[2], x[3], x[4], x[5], x[6], x[7], x[8]}
      /\ x[2] \notin {x[3], x[4], x[5], x[6], x[7], x[8]} /\ x[3] \notin {x[4], x[5], x[6], x[7], x[8]}
      /\ x[4] \notin {x[5], x[6], x[7], x[8]} /\ x[5] \notin {x[6], x[7], x[8]}
      /\ x[6] \notin {x[7], x[8]} /\ x[7] # x[8]
  OBVIOUS
<1>1. DOMAIN u1 = D /\ u1[x[1]] = nr /\ u1[x[7]] = "args" /\ u1[x[6]] = args[6]
  BY <1>0, <1>00, MoveMade
<1> HIDE DEF u1
<1>2. DOMAIN u2 = D /\ u2[x[1]] = nr /\ u2[x[7]] = "args" /\ u2[x[6]] = args[6] /\ u2[x[5]] = args[5]
  BY <1>0, <1>00, <1>1, MoveMade
<1> HIDE DEF u2
<1>3. DOMAIN u3 = D /\ u3[x[1]] = nr /\ u3[x[7]] = "args" /\ u3[x[6]] = args[6] /\ u3[x[5]] = args[5]
      /\ u3[x[4]] = args[4]
  BY <1>0, <1>00, <1>2, MoveMade
<1> HIDE DEF u3
<1>4. DOMAIN u4 = D /\ u4[x[1]] = nr /\ u4[x[7]] = "args" /\ u4[x[6]] = args[6] /\ u4[x[5]] = args[5]
      /\ u4[x[4]] = args[4] /\ u4[x[3]] = args[3]
  BY <1>0, <1>00, <1>3, MoveMade
<1> HIDE DEF u4
<1>5. DOMAIN u5 = D /\ u5[x[1]] = nr /\ u5[x[7]] = "args" /\ u5[x[6]] = args[6] /\ u5[x[5]] = args[5]
      /\ u5[x[4]] = args[4] /\ u5[x[3]] = args[3] /\ u5[x[2]] = args[2]
  BY <1>0, <1>00, <1>4, MoveMade
<1> HIDE DEF u5
<1>6. DOMAIN u6 = D /\ u6[x[8]] = nr /\ u6[x[7]] = "args" /\ u6[x[6]] = args[6] /\ u6[x[5]] = args[5]
      /\ u6[x[4]] = args[4] /\ u6[x[3]] = args[3] /\ u6[x[2]] = args[2]
  BY <1>0, <1>00, <1>5, MoveMade
<1> HIDE DEF u6
<1>7. u7[x[8]] = nr /\ u7[x[6]] = args[6] /\ u7[x[5]] = args[5]
      /\ u7[x[4]] = args[4] /\ u7[x[3]] = args[3] /\ u7[x[2]] = args[2] /\ u7[x[1]] = args[1]
  BY <1>0, <1>00, <1>6, MoveMade
<1> QED
  BY <1>7 DEF u1, u2, u3, u4, u5, u6, FromTheEnd

\* SyscallAsm_x86_64: the base is loaded last.
LEMMA LoadsBaseLast ==
    ASSUME NEW e, NEW nr, NEW args,
           DOMAIN e = {"rax", "rdi", "rsi", "rdx", "r10", "r8", "r9"},
           e["rdi"] = nr, e["rsi"] = "args"
    PROVE  LET u == Moved(Moved(Moved(Moved(Moved(Moved(Moved(e,
                      Mov("rax", "rdi"), args), Ldr("rdi", "rsi", 1), args),
                      Ldr("rdx", "rsi", 3), args), Ldr("r10", "rsi", 4), args),
                      Ldr("r8", "rsi", 5), args), Ldr("r9", "rsi", 6), args),
                      Ldr("rsi", "rsi", 2), args)
           IN  /\ u["rax"] = nr /\ u["rdi"] = args[1] /\ u["rsi"] = args[2] /\ u["rdx"] = args[3]
               /\ u["r10"] = args[4] /\ u["r8"] = args[5] /\ u["r9"] = args[6]
<1> DEFINE D == {"rax", "rdi", "rsi", "rdx", "r10", "r8", "r9"}
           u1 == Moved(e, Mov("rax", "rdi"), args)
           u2 == Moved(u1, Ldr("rdi", "rsi", 1), args)
           u3 == Moved(u2, Ldr("rdx", "rsi", 3), args)
           u4 == Moved(u3, Ldr("r10", "rsi", 4), args)
           u5 == Moved(u4, Ldr("r8", "rsi", 5), args)
           u6 == Moved(u5, Ldr("r9", "rsi", 6), args)
           u7 == Moved(u6, Ldr("rsi", "rsi", 2), args)
<1>0. /\ \A d, b, n : Ldr(d, b, n).dst = d /\ Ldr(d, b, n).src = b /\ Ldr(d, b, n).word = n
      /\ \A d, s : Mov(d, s).dst = d /\ Mov(d, s).src = s /\ Mov(d, s).word = 0
  BY DEF Ldr, Mov
<1>1. DOMAIN u1 = D /\ u1["rax"] = nr /\ u1["rsi"] = "args"
  BY <1>0, MoveMade
<1> HIDE DEF u1
<1>2. DOMAIN u2 = D /\ u2["rax"] = nr /\ u2["rsi"] = "args" /\ u2["rdi"] = args[1]
  BY <1>0, <1>1, MoveMade
<1> HIDE DEF u2
<1>3. DOMAIN u3 = D /\ u3["rax"] = nr /\ u3["rsi"] = "args" /\ u3["rdi"] = args[1]
      /\ u3["rdx"] = args[3]
  BY <1>0, <1>2, MoveMade
<1> HIDE DEF u3
<1>4. DOMAIN u4 = D /\ u4["rax"] = nr /\ u4["rsi"] = "args" /\ u4["rdi"] = args[1]
      /\ u4["rdx"] = args[3] /\ u4["r10"] = args[4]
  BY <1>0, <1>3, MoveMade
<1> HIDE DEF u4
<1>5. DOMAIN u5 = D /\ u5["rax"] = nr /\ u5["rsi"] = "args" /\ u5["rdi"] = args[1]
      /\ u5["rdx"] = args[3] /\ u5["r10"] = args[4] /\ u5["r8"] = args[5]
  BY <1>0, <1>4, MoveMade
<1> HIDE DEF u5
<1>6. DOMAIN u6 = D /\ u6["rax"] = nr /\ u6["rsi"] = "args" /\ u6["rdi"] = args[1]
      /\ u6["rdx"] = args[3] /\ u6["r10"] = args[4] /\ u6["r8"] = args[5] /\ u6["r9"] = args[6]
  BY <1>0, <1>5, MoveMade
<1> HIDE DEF u6
<1>7. u7["rax"] = nr /\ u7["rsi"] = args[2] /\ u7["rdi"] = args[1]
      /\ u7["rdx"] = args[3] /\ u7["r10"] = args[4] /\ u7["r8"] = args[5] /\ u7["r9"] = args[6]
  BY <1>0, <1>6, MoveMade
<1> QED
  BY <1>7 DEF u1, u2, u3, u4, u5, u6

\* SvcerSyscall::Call
LEMMA CallLoads ==
    ASSUME NEW arch \in {"aarch64", "arm", "x86_64"}, NEW nr, NEW args
    PROVE  LET regs == Call(arch, nr, args)
           IN  /\ regs = [r \in KernelRegs(arch) |-> regs[r]]
               /\ regs[SECCOMP(arch).nr] = nr
               /\ \A n \in 1..6 : regs[SECCOMP(arch).parm[n]] = args[n]
<1> DEFINE asm == SyscallAsm(arch)
           K == KernelRegs(arch)
           e == [r \in K \cup {asm.entry.nr, asm.entry.args} |->
                    CASE r = asm.entry.nr   -> nr
                      [] r = asm.entry.args -> "args"
                      [] OTHER -> "junk"]
           m == asm.moves
           u == Moved(Moved(Moved(Moved(Moved(Moved(Moved(e, m[1], args),
                       m[2], args), m[3], args), m[4], args), m[5], args),
                       m[6], args), m[7], args)
<1>1. Len(m) = 7
  BY DEF SyscallAsm, SyscallAsm_aarch64, SyscallAsm_arm, SyscallAsm_x86_64
<1>2. Call(arch, nr, args) = [r \in K |-> u[r]]
  <2> HIDE DEF e, m, K
  <2> DEFINE At(f, n) == IF n = 0 THEN e ELSE Moved(f[n - 1], m[n], args)
             Is(f) == f = [n \in 0..7 |-> At(f, n)]
             m1 == Moved(e, m[1], args)
             m2 == Moved(m1, m[2], args)
             m3 == Moved(m2, m[3], args)
             m4 == Moved(m3, m[4], args)
             m5 == Moved(m4, m[5], args)
             m6 == Moved(m5, m[6], args)
             m7 == Moved(m6, m[7], args)
             g == [n \in 0..7 |-> CASE n = 0 -> e [] n = 1 -> m1 [] n = 2 -> m2 [] n = 3 -> m3
                                    [] n = 4 -> m4 [] n = 5 -> m5 [] n = 6 -> m6 [] n = 7 -> m7]
             after == CHOOSE f : Is(f)
  <2>1. g[0] = e /\ g[1] = m1 /\ g[2] = m2 /\ g[3] = m3 /\ g[4] = m4 /\ g[5] = m5
        /\ g[6] = m6 /\ g[7] = m7
    <3> HIDE DEF m1, m2, m3, m4, m5, m6, m7
    <3> QED
      OBVIOUS
  <2>2. Is(g)
    <3>1. g = [n \in 0..7 |-> g[n]]
      OBVIOUS
    <3> HIDE DEF g
    <3>2. ASSUME NEW n \in 0..7
          PROVE  g[n] = At(g, n)
      <4>1. n \in {0, 1, 2, 3, 4, 5, 6, 7}
        OBVIOUS
      <4> QED
        BY <2>1, <4>1
    <3> QED
      BY <3>1, <3>2
  <2>3. Is(after)
    <3> HIDE DEF g, Is
    <3> QED
      BY <2>2
  <2> HIDE DEF after
  <2>4. \A n \in 0..7 : after[n] = At(after, n)
    BY <2>3
  <2>5. after[0] = e /\ after[1] = m1 /\ after[2] = m2 /\ after[3] = m3 /\ after[4] = m4
        /\ after[5] = m5 /\ after[6] = m6 /\ after[7] = m7
    <3>0. after[0] = e
      BY <2>4
    <3>1. after[1] = m1
      BY <2>4, <3>0
    <3>2. after[2] = m2
      BY <2>4, <3>1
    <3>3. after[3] = m3
      BY <2>4, <3>2
    <3>4. after[4] = m4
      BY <2>4, <3>3
    <3>5. after[5] = m5
      BY <2>4, <3>4
    <3>6. after[6] = m6
      BY <2>4, <3>5
    <3>7. after[7] = m7
      BY <2>4, <3>6
    <3> QED
      BY <3>0, <3>1, <3>2, <3>3, <3>4, <3>5, <3>6, <3>7
  <2>6. Call(arch, nr, args) = [r \in K |-> after[7][r]]
    BY <1>1 DEF Call, e, m, K, after
  <2> QED
    BY <2>5, <2>6
<1> HIDE DEF e, u
<1>3. ASSUME u[SECCOMP(arch).nr] = nr, \A n \in 1..6 : u[SECCOMP(arch).parm[n]] = args[n],
             SECCOMP(arch).nr \in K, \A n \in 1..6 : SECCOMP(arch).parm[n] \in K
      PROVE  LET regs == Call(arch, nr, args)
             IN  /\ regs = [r \in KernelRegs(arch) |-> regs[r]]
                 /\ regs[SECCOMP(arch).nr] = nr
                 /\ \A n \in 1..6 : regs[SECCOMP(arch).parm[n]] = args[n]
  <2> HIDE DEF K
  <2> QED
    BY <1>2, <1>3 DEF K
<1>4. CASE arch = "aarch64"
  <2>0. SECCOMP(arch) = SECCOMP_aarch64 /\ asm = SyscallAsm_aarch64
    BY <1>4 DEF SECCOMP, SyscallAsm
  <2>1. K = {"x8", "x0", "x1", "x2", "x3", "x4", "x5"}
    BY <2>0 DEF KernelRegs, SECCOMP_aarch64, ToSet
  <2>2. DOMAIN e = {"x0", "x1", "x2", "x3", "x4", "x5", "x6", "x8"} /\ e["x0"] = nr
        /\ e["x6"] = "args"
    <3> HIDE DEF K
    <3>1. asm.entry.nr = "x0" /\ asm.entry.args = "x6"
      BY <2>0 DEF SyscallAsm_aarch64
    <3> HIDE DEF asm
    <3> QED
      BY <2>1, <3>1 DEF e
  <2>3. m[1] = Ldr("x5", "x6", 6) /\ m[2] = Ldr("x4", "x6", 5) /\ m[3] = Ldr("x3", "x6", 4)
        /\ m[4] = Ldr("x2", "x6", 3) /\ m[5] = Ldr("x1", "x6", 2) /\ m[6] = Mov("x8", "x0")
        /\ m[7] = Ldr("x0", "x6", 1)
    BY <2>0 DEF SyscallAsm_aarch64
  <2> HIDE DEF m, K
  <2> DEFINE x == <<"x0", "x1", "x2", "x3", "x4", "x5", "x6", "x8">>
  <2>4. x[1] = "x0" /\ x[2] = "x1" /\ x[3] = "x2" /\ x[4] = "x3" /\ x[5] = "x4"
        /\ x[6] = "x5" /\ x[7] = "x6" /\ x[8] = "x8"
    OBVIOUS
  <2> HIDE DEF x
  <2>5. ASSUME NEW i \in 1..8, NEW j \in 1..8, i # j
        PROVE  x[i] # x[j]
    <3>1. i \in {1, 2, 3, 4, 5, 6, 7, 8} /\ j \in {1, 2, 3, 4, 5, 6, 7, 8}
      OBVIOUS
    <3> QED
      BY <2>4, <2>5, <3>1
  <2>6. u[x[8]] = nr /\ u[x[1]] = args[1] /\ u[x[2]] = args[2] /\ u[x[3]] = args[3]
        /\ u[x[4]] = args[4] /\ u[x[5]] = args[5] /\ u[x[6]] = args[6]
    <3>1. DOMAIN e = {x[1], x[2], x[3], x[4], x[5], x[6], x[7], x[8]} /\ e[x[1]] = nr
          /\ e[x[7]] = "args"
      BY <2>2, <2>4
    <3>2. m[1] = Ldr(x[6], x[7], 6) /\ m[2] = Ldr(x[5], x[7], 5) /\ m[3] = Ldr(x[4], x[7], 4)
          /\ m[4] = Ldr(x[3], x[7], 3) /\ m[5] = Ldr(x[2], x[7], 2) /\ m[6] = Mov(x[8], x[1])
          /\ m[7] = Ldr(x[1], x[7], 1)
      BY <2>3, <2>4
    <3>3. u = FromTheEnd(e, x, args)
      BY <3>2 DEF u, FromTheEnd
    <3> QED
      BY <2>5, <3>1, <3>3, LoadsFromTheEnd
  <2> QED
    BY <1>3, <2>0, <2>1, <2>4, <2>6 DEF SECCOMP_aarch64
<1>5. CASE arch = "arm"
  <2>0. SECCOMP(arch) = SECCOMP_arm /\ asm = SyscallAsm_arm
    BY <1>5 DEF SECCOMP, SyscallAsm
  <2>1. K = {"r7", "r0", "r1", "r2", "r3", "r4", "r5"}
    BY <2>0 DEF KernelRegs, SECCOMP_arm, ToSet
  <2>2. DOMAIN e = {"r0", "r1", "r2", "r3", "r4", "r5", "r6", "r7"} /\ e["r0"] = nr
        /\ e["r6"] = "args"
    <3> HIDE DEF K
    <3>1. asm.entry.nr = "r0" /\ asm.entry.args = "r6"
      BY <2>0 DEF SyscallAsm_arm
    <3> HIDE DEF asm
    <3> QED
      BY <2>1, <3>1 DEF e
  <2>3. m[1] = Ldr("r5", "r6", 6) /\ m[2] = Ldr("r4", "r6", 5) /\ m[3] = Ldr("r3", "r6", 4)
        /\ m[4] = Ldr("r2", "r6", 3) /\ m[5] = Ldr("r1", "r6", 2) /\ m[6] = Mov("r7", "r0")
        /\ m[7] = Ldr("r0", "r6", 1)
    BY <2>0 DEF SyscallAsm_arm
  <2> HIDE DEF m, K
  <2> DEFINE x == <<"r0", "r1", "r2", "r3", "r4", "r5", "r6", "r7">>
  <2>4. x[1] = "r0" /\ x[2] = "r1" /\ x[3] = "r2" /\ x[4] = "r3" /\ x[5] = "r4"
        /\ x[6] = "r5" /\ x[7] = "r6" /\ x[8] = "r7"
    OBVIOUS
  <2> HIDE DEF x
  <2>5. ASSUME NEW i \in 1..8, NEW j \in 1..8, i # j
        PROVE  x[i] # x[j]
    <3>1. i \in {1, 2, 3, 4, 5, 6, 7, 8} /\ j \in {1, 2, 3, 4, 5, 6, 7, 8}
      OBVIOUS
    <3> QED
      BY <2>4, <2>5, <3>1
  <2>6. u[x[8]] = nr /\ u[x[1]] = args[1] /\ u[x[2]] = args[2] /\ u[x[3]] = args[3]
        /\ u[x[4]] = args[4] /\ u[x[5]] = args[5] /\ u[x[6]] = args[6]
    <3>1. DOMAIN e = {x[1], x[2], x[3], x[4], x[5], x[6], x[7], x[8]} /\ e[x[1]] = nr
          /\ e[x[7]] = "args"
      BY <2>2, <2>4
    <3>2. m[1] = Ldr(x[6], x[7], 6) /\ m[2] = Ldr(x[5], x[7], 5) /\ m[3] = Ldr(x[4], x[7], 4)
          /\ m[4] = Ldr(x[3], x[7], 3) /\ m[5] = Ldr(x[2], x[7], 2) /\ m[6] = Mov(x[8], x[1])
          /\ m[7] = Ldr(x[1], x[7], 1)
      BY <2>3, <2>4
    <3>3. u = FromTheEnd(e, x, args)
      BY <3>2 DEF u, FromTheEnd
    <3> QED
      BY <2>5, <3>1, <3>3, LoadsFromTheEnd
  <2> QED
    BY <1>3, <2>0, <2>1, <2>4, <2>6 DEF SECCOMP_arm
<1>6. CASE arch = "x86_64"
  <2>0. SECCOMP(arch) = SECCOMP_x86_64 /\ asm = SyscallAsm_x86_64
    BY <1>6 DEF SECCOMP, SyscallAsm
  <2>1. K = {"rax", "rdi", "rsi", "rdx", "r10", "r8", "r9"}
    BY <2>0 DEF KernelRegs, SECCOMP_x86_64, ToSet
  <2>2. DOMAIN e = {"rax", "rdi", "rsi", "rdx", "r10", "r8", "r9"} /\ e["rdi"] = nr
        /\ e["rsi"] = "args"
    <3> HIDE DEF K
    <3>1. asm.entry.nr = "rdi" /\ asm.entry.args = "rsi"
      BY <2>0 DEF SyscallAsm_x86_64
    <3> HIDE DEF asm
    <3> QED
      BY <2>1, <3>1 DEF e
  <2>3. m[1] = Mov("rax", "rdi") /\ m[2] = Ldr("rdi", "rsi", 1) /\ m[3] = Ldr("rdx", "rsi", 3)
        /\ m[4] = Ldr("r10", "rsi", 4) /\ m[5] = Ldr("r8", "rsi", 5)
        /\ m[6] = Ldr("r9", "rsi", 6) /\ m[7] = Ldr("rsi", "rsi", 2)
    BY <2>0 DEF SyscallAsm_x86_64
  <2> HIDE DEF m, K
  <2>4. u["rax"] = nr /\ u["rdi"] = args[1] /\ u["rsi"] = args[2] /\ u["rdx"] = args[3]
        /\ u["r10"] = args[4] /\ u["r8"] = args[5] /\ u["r9"] = args[6]
    BY <2>2, <2>3, LoadsBaseLast DEF u
  <2> QED
    BY <1>3, <2>0, <2>1, <2>4 DEF SECCOMP_x86_64
<1> QED
  BY <1>4, <1>5, <1>6
-----------------------------------------------------------------------------
(***************************************************************************)
(* The types of the variables, and what an activation of the handler       *)
(* holds.                                                                  *)
(***************************************************************************)
ItemType(n) == [ty : Types, cb : Callbacks, next : 0..n, live : BOOLEAN]

ListsTyped ==
    /\ items \in Seq(ItemType(Len(items)))
    /\ g_callbacks \in [Types -> 0..Len(items)]

Linking == {"walk", "link"}
Adding == {"array", "head", "first", "again"} \cup Linking
Removing == {"compare", "unlink", "put", "delete", "seek", "match"}

OpType(n) ==
    [at : Adding \cup Removing, todo : Seq(Types), cb : Callbacks, i : 0..n, other : 0..n]

\* An operation on a list of n items: it has an item once it has read one.
OpOK(o, n) ==
    \/ o = NoOp
    \/ /\ o \in OpType(n) /\ o.todo # <<>>
       /\ o.at \in Removing \cup Linking => o.i # 0
       /\ o.at \in Linking => o.other # 0

Ops ==
    /\ op = [t \in Thread |-> op[t]]
    /\ \A t \in Thread : OpOK(op[t], Len(items))

\* The context of a call trapped in the world w.
Held(w, call) ==
    [r \in KernelRegs(w.arch) |->
        IF r = SECCOMP(w.arch).nr THEN call.nr
        ELSE Parms[CHOOSE n \in 1..6 : SECCOMP(w.arch).parm[n] = r]]

Level == [cb : Callbacks, calls : Nat]

\* An activation of the handler, when n items have been allocated.
Activation(f, n) ==
    f \in [at : {"dispatch", "callback"}, call : AppCalls, stack : Seq(Level), again : BOOLEAN,
           mItem : 0..n, ctx : {f.ctx}, asked : {f.asked}]

\* The kernel has not been asked and the innermost callback has not passed the
\* call on yet, or gives it to an item that no callback has been called of.
Untouched(f) ==
    /\ ~f.again /\ f.asked = <<>>
    /\ f.at = "dispatch" \/ f.stack = <<>> \/ Last(f.stack).calls = 0

\* The handler gives no item but the null one once the kernel has been asked,
\* and the null one only then; every callback but the innermost has passed the
\* call on; what the trapped call held is there until then.
Kept(w, f) ==
    /\ f.at = "dispatch" => f.asked = <<>> /\ \A n \in DOMAIN f.stack : f.stack[n].calls > 0
    /\ f.asked = <<>> \/ f.asked = <<f.asked[1]>>
    /\ f.asked # <<>> => f.mItem = 0
    /\ f.at = "callback" /\ f.mItem = 0 => f.asked # <<>>
    /\ \A n \in DOMAIN f.stack : n # Len(f.stack) => f.stack[n].calls > 0
    /\ Untouched(f) => f.ctx = Held(w, f.call)
    /\ ~f.again /\ f.asked # <<>> => f.asked[1] = Held(w, f.call)

FrameOK(w, f, n) == f = NoFrame \/ (Activation(f, n) /\ Kept(w, f))

Frames ==
    /\ frame = [t \in Thread |-> frame[t]]
    /\ \A t \in Thread : FrameOK(world, frame[t], Len(items))

Failures == {"none", "freed", "nohead", "null", "recursion", "killed"}

Signals ==
    /\ world \in Worlds /\ inits \in 0..world.inits
    /\ covered \subseteq running /\ running \subseteq Thread
    /\ phase \in [at : {"out", "checked", "handled"}, by : running]
    /\ kernel_act \in {"default", "app", "hooker"} /\ others \subseteq {"prctl", "seccomp"}
    /\ g_default_act \in {"zero", "default", "app", "hooker"} /\ seen \in BOOLEAN
    /\ failure \in Failures

Sound ==
    /\ Signals
    /\ ListsTyped
    /\ Ops
    /\ Frames
    /\ failure = "null" => \E t \in Thread : frame[t].at # "app" /\ frame[t].asked # <<>>

LEMMA ItemsTyped ==
    ASSUME ListsTyped
    PROVE  /\ Len(items) \in Nat /\ DOMAIN items = 1..Len(items)
           /\ \A i \in DOMAIN items : /\ items[i] \in ItemType(Len(items)) /\ items[i].ty \in Types
                                      /\ items[i].cb \in Callbacks /\ items[i].next \in 0..Len(items)
                                      /\ items[i].live \in BOOLEAN
           /\ \A ty \in Types : g_callbacks[ty] \in 0..Len(items)
<1>1. Len(items) \in Nat /\ DOMAIN items = 1..Len(items)
      /\ \A i \in DOMAIN items : items[i] \in ItemType(Len(items))
  BY DEF ListsTyped
<1>2. \A ty \in Types : g_callbacks[ty] \in 0..Len(items)
  BY DEF ListsTyped
<1> QED
  BY <1>1, <1>2 DEF ItemType

\* What is known of a thread at work on a list.
LEMMA AtWork ==
    ASSUME Sound, NEW t \in Thread, op[t].at # "none"
    PROVE  /\ op[t] \in OpType(Len(items))
           /\ op[t].todo # <<>> /\ ListOf(op[t]) \in Types
           /\ op[t].at \in Removing \cup Linking => op[t].i \in DOMAIN items
           /\ op[t].at \in Linking => op[t].other \in DOMAIN items
<1>1. OpOK(op[t], Len(items)) /\ op[t] # NoOp
  BY DEF Sound, Ops, NoOp
<1>2. /\ op[t] \in OpType(Len(items))
      /\ op[t].todo # <<>>
      /\ op[t].at \in Removing \cup Linking => op[t].i # 0
      /\ op[t].at \in Linking => op[t].other # 0
  BY <1>1 DEF OpOK
<1>3. op[t].todo \in Seq(Types) /\ op[t].i \in 0..Len(items) /\ op[t].other \in 0..Len(items)
  BY <1>2 DEF OpType
<1>4. ListOf(op[t]) \in Types
  <2> DEFINE s == op[t].todo
  <2> HIDE DEF s
  <2>1. s \in Seq(Types) /\ s # <<>>
    BY <1>2, <1>3 DEF s
  <2>2. Head(s) \in Types
    BY <2>1
  <2> QED
    BY <2>2 DEF ListOf, s
<1> QED
  BY <1>2, <1>3, <1>4, ItemsTyped DEF Sound

-----------------------------------------------------------------------------
(***************************************************************************)
(* The activations of the handler.                                         *)
(***************************************************************************)
LEMMA ContextHeld ==
    ASSUME NEW call
    PROVE  Context(call) = Held(world, call)
  BY DEF Context, Held

\* doCallOriginSysCall gives the kernel the registers of the context.
LEMMA OriginalMade ==
    ASSUME NEW w \in Worlds, NEW call, NEW ctx, ctx = Held(w, call)
    PROVE  LET macros == SECCOMP(w.arch)
           IN  Call(w.arch, ctx[macros.nr], [n \in 1..6 |-> ctx[macros.parm[n]]]) = Held(w, call)
<1> DEFINE arch == w.arch
           nr == SECCOMP(arch).nr
           parm == SECCOMP(arch).parm
           args == [n \in 1..6 |-> ctx[parm[n]]]
           regs == Call(arch, ctx[nr], args)
           K == KernelRegs(arch)
<1>0. arch \in {"aarch64", "arm", "x86_64"}
  BY HookerAssumption
<1>1. regs = [r \in K |-> regs[r]] /\ regs[nr] = ctx[nr] /\ \A n \in 1..6 : regs[parm[n]] = args[n]
  <2> HIDE DEF args
  <2>1. regs = [r \in KernelRegs(arch) |-> regs[r]] /\ regs[SECCOMP(arch).nr] = ctx[nr]
        /\ \A n \in 1..6 : regs[SECCOMP(arch).parm[n]] = args[n]
    BY <1>0, CallLoads
  <2> HIDE DEF regs
  <2> QED
    BY <2>1
<1>2. ASSUME NEW r \in K
      PROVE  r = nr \/ \E n \in 1..6 : r = parm[n]
  <2>1. DOMAIN parm = 1..6
    BY <1>0 DEF SECCOMP, SECCOMP_aarch64, SECCOMP_arm, SECCOMP_x86_64
  <2>2. K = {nr} \cup {parm[n] : n \in DOMAIN parm}
    BY DEF KernelRegs, ToSet
  <2> QED
    BY <2>1, <2>2
<1> HIDE DEF regs, nr, parm, K
<1>3. \A n \in 1..6 : regs[parm[n]] = ctx[parm[n]]
  BY <1>1
<1>4. \A r \in K : regs[r] = ctx[r]
  BY <1>1, <1>2, <1>3
<1>5. ctx = [r \in K |-> ctx[r]]
  BY DEF Held, K
<1>6. regs = ctx
  BY <1>1, <1>4, <1>5
<1> QED
  BY <1>6 DEF regs, nr, parm

\* More items may have been allocated.
LEMMA FrameGrows ==
    ASSUME NEW w, NEW f, NEW n \in Nat, NEW m \in Nat, n <= m, FrameOK(w, f, n)
    PROVE  FrameOK(w, f, m)
<1>1. CASE f = NoFrame
  BY <1>1 DEF FrameOK
<1>2. CASE f # NoFrame
  <2>1. Activation(f, n) /\ Kept(w, f)
    BY <1>2 DEF FrameOK
  <2>2. Activation(f, m)
    BY <2>1 DEF Activation
  <2> QED
    BY <2>1, <2>2 DEF FrameOK
<1> QED
  BY <1>1, <1>2

LEMMA OpGrows ==
    ASSUME NEW o, NEW n \in Nat, NEW m \in Nat, n <= m, OpOK(o, n)
    PROVE  OpOK(o, m)
<1>1. o \in OpType(n) => o \in OpType(m)
  BY DEF OpType
<1> QED
  BY <1>1 DEF OpOK

LEMMA RestOK ==
    ASSUME NEW n \in Nat, NEW o \in OpType(n), o.todo # <<>>
    PROVE  OpOK(Rest(o), n) /\ (Rest(o) = NoOp \/ Rest(o).at = "head")
<1> DEFINE s == o.todo
           r == Registering(Tail(s), o.cb)
<1>1. Rest(o) = IF Len(s) = 1 THEN NoOp ELSE r
  BY DEF Rest
<1>2. s \in Seq(Types) /\ s # <<>> /\ o.cb \in Callbacks
  BY DEF OpType
<1> HIDE DEF s
<1>3. CASE Len(s) = 1
  BY <1>1, <1>3 DEF OpOK
<1>4. CASE Len(s) # 1
  <2>0. Len(s) \in Nat /\ Len(s) # 0
    BY <1>2
  <2>1. Tail(s) \in Seq(Types) /\ Tail(s) # <<>>
    <3>1. Tail(s) \in Seq(Types) /\ Len(Tail(s)) = Len(s) - 1
      BY <1>2
    <3>2. Len(<<>>) = 0
      OBVIOUS
    <3> DEFINE z == Tail(s)
    <3>3. z \in Seq(Types) /\ Len(z) # 0
      BY <1>4, <2>0, <3>1
    <3> HIDE DEF z
    <3>4. z # <<>>
      BY <3>2, <3>3
    <3> QED
      BY <3>3, <3>4 DEF z
  <2>2. r \in OpType(n) /\ r.todo # <<>> /\ r.at = "head"
    BY <1>2, <2>1 DEF Registering, OpType, Adding
  <2> HIDE DEF r
  <2> QED
    BY <1>1, <1>4, <2>2 DEF OpOK, Removing, Linking
<1> QED
  BY <1>3, <1>4

-----------------------------------------------------------------------------
(***************************************************************************)
(* The steps on the lists.                                                 *)
(***************************************************************************)
\* A step of the operation of t, which becomes o.
LEMMA OpSet ==
    ASSUME Sound, NEW t \in Thread, NEW o, Goes(t, o), ListsTyped',
           Len(items) <= Len(items'), OpOK(o, Len(items'))
    PROVE  Sound' /\ \A u \in Thread : op'[u] = IF u = t THEN o ELSE op[u]
<1>0. op' = [op EXCEPT ![t] = o] /\ UNCHANGED <<env, signals, frame, failure>>
  BY DEF Goes
<1>1. \A u \in Thread : op'[u] = IF u = t THEN o ELSE op[u]
  BY <1>0 DEF Sound, Ops
<1>2. op' = [u \in Thread |-> op'[u]]
  BY <1>0 DEF Sound, Ops
<1>3. Len(items) \in Nat /\ Len(items') \in Nat
  BY DEF Sound, ListsTyped
<1>4. Ops'
  <2>1. \A u \in Thread : OpOK(op[u], Len(items'))
    BY <1>3, OpGrows DEF Sound, Ops
  <2> QED
    BY <1>1, <1>2, <2>1 DEF Ops
<1>5. Frames'
  <2>1. \A u \in Thread : FrameOK(world, frame[u], Len(items'))
    BY <1>3, FrameGrows DEF Sound, Frames
  <2> QED
    BY <1>0, <2>1 DEF Sound, Frames, env
<1>6. Signals'
  BY <1>0 DEF Sound, Signals, env, signals
<1> QED
  BY <1>0, <1>1, <1>4, <1>5, <1>6 DEF Sound

\* One that writes nothing into the lists.
LEMMA OpMoves ==
    ASSUME Sound, NEW t \in Thread, NEW o, Goes(t, o), UNCHANGED <<items, g_callbacks>>,
           OpOK(o, Len(items))
    PROVE  Sound'
<1>1. ListsTyped' /\ Len(items') = Len(items) /\ Len(items) \in Nat
  BY DEF Sound, ListsTyped
<1> QED
  BY <1>1, OpSet

\* One that fails.
LEMMA OpFails ==
    ASSUME Sound, NEW how \in {"freed", "nohead"}, Fails(how)
    PROVE  Sound' /\ UNCHANGED <<items, g_callbacks, op, careless>> /\ failure' = how
<1>0. failure' = how /\ UNCHANGED <<env, signals, lists, frame>>
  BY DEF Fails
<1>1. Signals'
  BY <1>0 DEF Sound, Signals, env, signals, Failures
<1>2. ListsTyped' /\ Ops' /\ Frames'
  BY <1>0 DEF Sound, ListsTyped, Ops, Frames, lists, env
<1> QED
  BY <1>0, <1>1, <1>2 DEF Sound, lists

LEMMA registersKeeps ==
    ASSUME Sound, NEW t \in Thread, NEW todo \in Seq(Types), todo # <<>>, NEW cb \in Callbacks,
           registers(t, todo, cb)
    PROVE  Sound'
<1> DEFINE o == [Registering(todo, cb) EXCEPT !.at = IF hasArray THEN "head" ELSE "array"]
<1>1. Goes(t, o) /\ UNCHANGED <<items, g_callbacks>>
  BY DEF registers
<1>2. o \in OpType(Len(items)) /\ o.todo # <<>> /\ o.at \in {"head", "array"}
  BY ItemsTyped DEF Sound, Registering, OpType, Adding
<1> HIDE DEF o
<1>3. OpOK(o, Len(items))
  BY <1>2 DEF OpOK, Removing, Linking
<1> QED
  BY <1>1, <1>3, OpMoves

LEMMA makesArrayKeeps ==
    ASSUME Sound, NEW t \in Thread, makesArray(t)
    PROVE  Sound'
<1> DEFINE o == [op[t] EXCEPT !.at = "head"]
<1>1. Goes(t, o) /\ items' = items /\ g_callbacks' = [ty \in Types |-> 0] /\ op[t].at = "array"
  BY DEF makesArray
<1>2. op[t] \in OpType(Len(items)) /\ op[t].todo # <<>>
  BY <1>1, AtWork
<1>3. o \in OpType(Len(items)) /\ o.todo # <<>> /\ o.at = "head"
  BY <1>2 DEF OpType, Adding
<1> HIDE DEF o
<1>4. OpOK(o, Len(items))
  BY <1>3 DEF OpOK, Removing, Linking
<1>5. ListsTyped' /\ Len(items) \in Nat
  BY <1>1, ItemsTyped DEF Sound, ListsTyped
<1> QED
  BY <1>1, <1>4, <1>5, OpSet

LEMMA readsHeadKeeps ==
    ASSUME Sound, NEW t \in Thread, readsHead(t)
    PROVE  Sound'
<1> DEFINE at == IF g_callbacks[ListOf(op[t])] = 0 THEN "first" ELSE "again"
           o == [op[t] EXCEPT !.at = at]
<1>1. Goes(t, o) /\ UNCHANGED <<items, g_callbacks>> /\ op[t].at = "head" /\ at \in {"first", "again"}
  BY DEF readsHead
<1> HIDE DEF at
<1>2. op[t] \in OpType(Len(items)) /\ op[t].todo # <<>>
  BY <1>1, AtWork
<1>3. o \in OpType(Len(items)) /\ o.todo # <<>> /\ o.at \in {"first", "again"}
  BY <1>1, <1>2 DEF OpType, Adding
<1> HIDE DEF o
<1>4. OpOK(o, Len(items))
  BY <1>3 DEF OpOK, Removing, Linking
<1> QED
  BY <1>1, <1>4, OpMoves

\* A new item is allocated.
LEMMA NewTyped ==
    ASSUME Sound, NEW t \in Thread, op[t].at # "none", items' = Append(items, New(op[t])),
           g_callbacks' \in [Types -> 0..(Len(items) + 1)]
    PROVE  /\ ListsTyped' /\ Len(items') = Len(items) + 1 /\ Len(items) \in Nat
           /\ \A i \in DOMAIN items : items'[i] = items[i]
           /\ items'[Len(items) + 1] = New(op[t])
<1> DEFINE n == Len(items)
           item == New(op[t])
<1>1. n \in Nat /\ items \in Seq(ItemType(n)) /\ \A i \in DOMAIN items : items[i] \in ItemType(n)
  BY DEF Sound, ListsTyped
<1>2. item \in ItemType(n + 1)
  <2>1. ListOf(op[t]) \in Types /\ op[t].cb \in Callbacks
    BY AtWork DEF OpType
  <2> QED
    BY <1>1, <2>1 DEF New, ItemType
<1> HIDE DEF item
<1>3. ItemType(n) \subseteq ItemType(n + 1)
  BY <1>1 DEF ItemType
<1>4. items \in Seq(ItemType(n + 1))
  BY <1>1, <1>3
<1>5. items' \in Seq(ItemType(n + 1)) /\ Len(items') = n + 1
  BY <1>2, <1>4 DEF item
<1>6. (\A i \in DOMAIN items : items'[i] = items[i]) /\ items'[n + 1] = item
  BY <1>4 DEF item
<1> QED
  BY <1>1, <1>5, <1>6 DEF ListsTyped, item

LEMMA putsFirstKeeps ==
    ASSUME Sound, NEW t \in Thread, putsFirst(t)
    PROVE  Sound'
<1> DEFINE ty == ListOf(op[t])
           n == Len(items)
<1>1. /\ Goes(t, Rest(op[t])) /\ op[t].at = "first" /\ items' = Append(items, New(op[t]))
      /\ g_callbacks' = [g_callbacks EXCEPT ![ty] = n + 1]
  BY DEF putsFirst
<1>2. op[t] \in OpType(n) /\ op[t].todo # <<>> /\ ty \in Types
  BY <1>1, AtWork
<1>3. g_callbacks' \in [Types -> 0..(n + 1)]
  <2>1. g_callbacks \in [Types -> 0..n] /\ n \in Nat
    BY DEF Sound, ListsTyped
  <2> HIDE DEF n, ty
  <2>2. n + 1 \in 0..(n + 1) /\ g_callbacks \in [Types -> 0..(n + 1)]
    BY <2>1
  <2> QED
    BY <1>1, <2>2
<1>4. ListsTyped' /\ Len(items') = n + 1 /\ n \in Nat
  BY <1>1, <1>3, NewTyped
<1>5. OpOK(Rest(op[t]), n + 1)
  BY <1>2, <1>4, RestOK, OpGrows
<1> QED
  BY <1>1, <1>4, <1>5, OpSet

LEMMA createsKeeps ==
    ASSUME Sound, NEW t \in Thread, creates(t)
    PROVE  Sound'
<1> DEFINE ty == ListOf(op[t])
           n == Len(items)
           head == g_callbacks[ty]
           o == [op[t] EXCEPT !.at = "walk", !.i = head, !.other = n + 1]
<1>1. op[t].at = "again" /\ IF head = 0 THEN Fails("nohead")
                           ELSE /\ items' = Append(items, New(op[t])) /\ g_callbacks' = g_callbacks
                                /\ Goes(t, o)
  BY DEF creates
<1>2. op[t] \in OpType(n) /\ op[t].todo # <<>> /\ head \in 0..n /\ n \in Nat
      /\ g_callbacks \in [Types -> 0..(n + 1)]
  BY <1>1, AtWork, ItemsTyped DEF Sound, ListsTyped
<1>3. CASE head = 0
  BY <1>1, <1>3, OpFails
<1>4. CASE head # 0
  <2>1. ListsTyped' /\ Len(items') = n + 1
    BY <1>1, <1>2, <1>4, NewTyped
  <2>2. Goes(t, o)
    BY <1>1, <1>4
  <2> HIDE DEF head
  <2>3. o \in OpType(n + 1) /\ o.todo # <<>> /\ o.i = head /\ o.other = n + 1
    <3> HIDE DEF n
    <3> DEFINE p == op[t]
    <3>1. p \in OpType(n) /\ p.todo # <<>> /\ head \in 0..(n + 1) /\ n + 1 \in 0..(n + 1)
      BY <1>2
    <3>2. "walk" \in Adding \cup Removing
      BY DEF Adding, Linking
    <3> HIDE DEF p
    <3>3. LET q == [p EXCEPT !.at = "walk", !.i = head, !.other = n + 1]
          IN  q \in OpType(n + 1) /\ q.todo # <<>> /\ q.i = head /\ q.other = n + 1
      BY <1>2, <3>1, <3>2 DEF OpType
    <3> QED
      BY <3>3 DEF p
  <2> HIDE DEF o
  <2>4. OpOK(o, n + 1)
    BY <1>2, <1>4, <2>3 DEF OpOK
  <2> QED
    BY <1>2, <2>1, <2>2, <2>4, OpSet
<1> QED
  BY <1>3, <1>4

\* What is left of an operation that goes on with the item j, or with other.
LEMMA OpGoesOn ==
    ASSUME Sound, NEW t \in Thread, op[t].at # "none", NEW at \in Removing \cup Linking,
           at \in Linking => op[t].at \in Linking,
           NEW j \in DOMAIN items, NEW other \in 0..Len(items), at \in Linking => other # 0
    PROVE  /\ OpOK([op[t] EXCEPT !.at = at, !.i = j, !.other = other], Len(items))
           /\ op[t].i = j => [op[t] EXCEPT !.at = at, !.other = other] = [op[t] EXCEPT !.at = at, !.i = j, !.other = other]
           /\ op[t].i = j /\ op[t].other = other
              => [op[t] EXCEPT !.at = at] = [op[t] EXCEPT !.at = at, !.i = j, !.other = other]
           /\ op[t].other = other
              => [op[t] EXCEPT !.at = at, !.i = j] = [op[t] EXCEPT !.at = at, !.i = j, !.other = other]
<1> DEFINE p == op[t]
           o == [p EXCEPT !.at = at, !.i = j, !.other = other]
<1>1. p \in OpType(Len(items)) /\ p.todo # <<>>
  BY AtWork
<1>2. j \in 0..Len(items) /\ j # 0
  BY ItemsTyped DEF Sound
<1>0. at \in Adding \cup Removing
  BY DEF Adding
<1> HIDE DEF p
<1>3. o \in OpType(Len(items)) /\ o.todo = p.todo /\ o.at = at /\ o.i = j /\ o.other = other
  BY <1>0, <1>1, <1>2 DEF OpType
<1>4. /\ p.i = j => [p EXCEPT !.at = at, !.other = other] = o
      /\ p.i = j /\ p.other = other => [p EXCEPT !.at = at] = o
      /\ p.other = other => [p EXCEPT !.at = at, !.i = j] = o
  BY <1>1 DEF OpType
<1>5. OpOK(o, Len(items))
  <2> HIDE DEF o
  <2> QED
    BY <1>1, <1>2, <1>3 DEF OpOK
<1> QED
  BY <1>4, <1>5 DEF p

LEMMA addNextKeeps ==
    ASSUME Sound, NEW t \in Thread, addNext(t)
    PROVE  Sound'
<1> DEFINE i == op[t].i
           next == items[i].next
<1>1. /\ op[t].at = "walk"
      /\ IF Dead(items, i) THEN Fails("freed")
         ELSE /\ UNCHANGED <<items, g_callbacks>>
              /\ Goes(t, IF next = 0 THEN [op[t] EXCEPT !.at = "link"] ELSE [op[t] EXCEPT !.i = next])
  BY DEF addNext
<1>2. i \in DOMAIN items /\ op[t].other \in DOMAIN items /\ op[t].other # 0 /\ op[t].other \in 0..Len(items)
      /\ (next # 0 => next \in DOMAIN items)
  BY <1>1, AtWork, ItemsTyped DEF Sound, Linking
<1>3. CASE Dead(items, i)
  BY <1>1, <1>3, OpFails
<1>4. CASE ~Dead(items, i) /\ next = 0
  <2>1. OpOK([op[t] EXCEPT !.at = "link"], Len(items))
    BY <1>1, <1>2, OpGoesOn DEF Linking
  <2> QED
    BY <1>1, <1>4, <2>1, OpMoves
<1>5. CASE ~Dead(items, i) /\ next # 0
  <2>1. OpOK([op[t] EXCEPT !.i = next], Len(items))
    <3> HIDE DEF next
    <3> DEFINE p == op[t]
               o == [p EXCEPT !.i = next]
    <3>1. p \in OpType(Len(items)) /\ p.todo # <<>> /\ p.at = "walk" /\ p.other # 0
          /\ next \in 0..Len(items)
      BY <1>1, <1>2, <1>5, AtWork, ItemsTyped DEF Sound
    <3> HIDE DEF p
    <3>2. o \in OpType(Len(items)) /\ o.todo # <<>> /\ o.i = next /\ o.other # 0
      BY <3>1 DEF OpType
    <3> HIDE DEF o
    <3>3. OpOK(o, Len(items))
      BY <1>5, <3>2 DEF OpOK
    <3> QED
      BY <3>3 DEF o, p
  <2> QED
    BY <1>1, <1>5, <2>1, OpMoves
<1> QED
  BY <1>3, <1>4, <1>5

\* A field of an item is written.
LEMMA ItemWritten ==
    ASSUME Sound, NEW i \in DOMAIN items, NEW item \in ItemType(Len(items)),
           items' = [items EXCEPT ![i] = item], g_callbacks' = g_callbacks
    PROVE  /\ ListsTyped' /\ Len(items') = Len(items) /\ DOMAIN items' = DOMAIN items
           /\ \A k \in DOMAIN items : items'[k] = IF k = i THEN item ELSE items[k]
<1>1. items \in Seq(ItemType(Len(items)))
  BY DEF Sound, ListsTyped
<1> DEFINE n == Len(items)
<1>2. n = Len(items)
  OBVIOUS
<1> HIDE DEF n
<1>3. items' \in Seq(ItemType(n)) /\ Len(items') = n
  BY <1>1, <1>2
<1>4. \A k \in DOMAIN items : items'[k] = IF k = i THEN item ELSE items[k]
  BY <1>1
<1>5. DOMAIN items' = DOMAIN items
  OBVIOUS
<1> QED
  BY <1>2, <1>3, <1>4, <1>5 DEF Sound, ListsTyped

LEMMA linksLastKeeps ==
    ASSUME Sound, NEW t \in Thread, linksLast(t)
    PROVE  Sound'
<1> DEFINE i == op[t].i
           item == [items[i] EXCEPT !.next = op[t].other]
<1>1. /\ op[t].at = "link"
      /\ IF Dead(items, i) THEN Fails("freed")
         ELSE items' = [items EXCEPT ![i] = item] /\ g_callbacks' = g_callbacks /\ Goes(t, Rest(op[t]))
  BY DEF linksLast
<1>2. i \in DOMAIN items /\ op[t] \in OpType(Len(items)) /\ op[t].todo # <<>> /\ Len(items) \in Nat
      /\ items[i] \in ItemType(Len(items)) /\ op[t].other \in 0..Len(items)
  BY <1>1, AtWork, ItemsTyped DEF Sound, Linking, OpType
<1>3. CASE Dead(items, i)
  BY <1>1, <1>3, OpFails
<1>4. CASE ~Dead(items, i)
  <2>1. item \in ItemType(Len(items))
    BY <1>2 DEF ItemType
  <2> HIDE DEF item, i
  <2>2. ListsTyped' /\ Len(items') = Len(items)
    BY <1>1, <1>2, <1>4, <2>1, ItemWritten
  <2>3. OpOK(Rest(op[t]), Len(items))
    BY <1>2, RestOK
  <2> QED
    BY <1>1, <1>2, <1>4, <2>2, <2>3, OpSet
<1> QED
  BY <1>3, <1>4

LEMMA unregisterKeeps ==
    ASSUME Sound, NEW t \in Thread, NEW ty \in Types, NEW cb \in Callbacks,
           unregisterCallback(t, ty, cb)
    PROVE  Sound'
<1> DEFINE head == g_callbacks[ty]
           o == [at |-> "compare", todo |-> <<ty>>, cb |-> cb, i |-> head, other |-> 0]
<1>1. Goes(t, o) /\ UNCHANGED <<items, g_callbacks>> /\ head # 0
  BY DEF unregisterCallback
<1>2. head \in 0..Len(items) /\ Len(items) \in Nat
  BY ItemsTyped DEF Sound
<1> HIDE DEF head
<1>3. <<ty>> \in Seq(Types) /\ <<ty>> # <<>>
  OBVIOUS
<1>4. o \in OpType(Len(items)) /\ o.todo # <<>> /\ o.at = "compare" /\ o.i = head
  BY <1>2, <1>3 DEF OpType, Removing
<1> HIDE DEF o
<1>5. OpOK(o, Len(items))
  BY <1>1, <1>4 DEF OpOK, Removing, Linking
<1> QED
  BY <1>1, <1>5, OpMoves

LEMMA comparesKeeps ==
    ASSUME Sound, NEW t \in Thread, compares(t)
    PROVE  Sound'
<1> DEFINE i == op[t].i
           at == IF items[i].cb = op[t].cb THEN "unlink" ELSE "seek"
<1>1. /\ op[t].at = "compare"
      /\ IF Dead(items, i) THEN Fails("freed")
         ELSE UNCHANGED <<items, g_callbacks>> /\ Goes(t, [op[t] EXCEPT !.at = at])
  BY DEF compares
<1>2. i \in DOMAIN items /\ op[t].other \in 0..Len(items) /\ at \in {"unlink", "seek"}
  BY <1>1, AtWork DEF Removing, OpType
<1> HIDE DEF at
<1>3. CASE Dead(items, i)
  BY <1>1, <1>3, OpFails
<1>4. CASE ~Dead(items, i)
  <2>1. OpOK([op[t] EXCEPT !.at = at], Len(items))
    BY <1>1, <1>2, OpGoesOn DEF Removing, Linking
  <2> QED
    BY <1>1, <1>4, <2>1, OpMoves
<1> QED
  BY <1>3, <1>4

LEMMA unlinksKeeps ==
    ASSUME Sound, NEW t \in Thread, unlinks(t)
    PROVE  Sound'
<1> DEFINE i == op[t].i
           next == items[i].next
<1>1. /\ op[t].at = "unlink"
      /\ IF Dead(items, i) THEN Fails("freed")
         ELSE UNCHANGED <<items, g_callbacks>> /\ Goes(t, [op[t] EXCEPT !.at = "put", !.other = next])
  BY DEF unlinks
<1>2. i \in DOMAIN items /\ next \in 0..Len(items)
  BY <1>1, AtWork, ItemsTyped DEF Sound, Removing
<1>3. CASE Dead(items, i)
  BY <1>1, <1>3, OpFails
<1>4. CASE ~Dead(items, i)
  <2> HIDE DEF next
  <2>1. OpOK([op[t] EXCEPT !.at = "put", !.other = next], Len(items))
    <3> DEFINE o == [op[t] EXCEPT !.at = "put", !.i = op[t].i, !.other = next]
    <3>0. "put" \in Removing /\ "put" \notin Linking
      BY DEF Linking, Removing
    <3>1. OpOK(o, Len(items)) /\ [op[t] EXCEPT !.at = "put", !.other = next] = o
      BY <1>1, <1>2, <3>0, OpGoesOn
    <3> QED
      BY <3>1
  <2> QED
    BY <1>1, <1>4, <2>1, OpMoves
<1> QED
  BY <1>3, <1>4

LEMMA putsHeadKeeps ==
    ASSUME Sound, NEW t \in Thread, putsHead(t)
    PROVE  Sound'
<1>1. /\ op[t].at = "put" /\ items' = items /\ Goes(t, [op[t] EXCEPT !.at = "delete"])
      /\ g_callbacks' = [g_callbacks EXCEPT ![ListOf(op[t])] = op[t].other]
  BY DEF putsHead
<1>2. op[t].i \in DOMAIN items /\ op[t].other \in 0..Len(items) /\ ListOf(op[t]) \in Types
      /\ Len(items) \in Nat
  BY <1>1, AtWork, ItemsTyped DEF Sound, Removing, OpType
<1>3. ListsTyped'
  BY <1>1, <1>2 DEF Sound, ListsTyped
<1>4. OpOK([op[t] EXCEPT !.at = "delete"], Len(items))
  BY <1>1, <1>2, OpGoesOn DEF Removing, Linking
<1> QED
  BY <1>1, <1>2, <1>3, <1>4, OpSet

LEMMA seeksKeeps ==
    ASSUME Sound, NEW t \in Thread, seeks(t)
    PROVE  Sound'
<1> DEFINE i == op[t].i
           next == items[i].next
<1>1. /\ op[t].at = "seek"
      /\ IF Dead(items, i) THEN Fails("freed")
         ELSE /\ UNCHANGED <<items, g_callbacks>>
              /\ Goes(t, IF next = 0 THEN NoOp ELSE [op[t] EXCEPT !.at = "match", !.i = next])
  BY DEF seeks
<1>2. i \in DOMAIN items /\ op[t].other \in 0..Len(items) /\ (next # 0 => next \in DOMAIN items)
  BY <1>1, AtWork, ItemsTyped DEF Sound, Removing, OpType
<1>3. CASE Dead(items, i)
  BY <1>1, <1>3, OpFails
<1>4. CASE ~Dead(items, i) /\ next = 0
  BY <1>1, <1>4, OpMoves DEF OpOK
<1>5. CASE ~Dead(items, i) /\ next # 0
  <2> HIDE DEF next
  <2>1. OpOK([op[t] EXCEPT !.at = "match", !.i = next], Len(items))
    <3> DEFINE o == [op[t] EXCEPT !.at = "match", !.i = next, !.other = op[t].other]
    <3>0. "match" \in Removing /\ "match" \notin Linking
      BY DEF Linking, Removing
    <3>1. OpOK(o, Len(items)) /\ [op[t] EXCEPT !.at = "match", !.i = next] = o
      BY <1>1, <1>2, <1>5, <3>0, OpGoesOn
    <3> QED
      BY <3>1
  <2> QED
    BY <1>1, <1>5, <2>1, OpMoves
<1> QED
  BY <1>3, <1>4, <1>5

LEMMA matchesKeeps ==
    ASSUME Sound, NEW t \in Thread, matches(t)
    PROVE  Sound'
<1> DEFINE i == op[t].i
           at == IF items[i].cb = op[t].cb THEN "delete" ELSE "seek"
<1>1. /\ op[t].at = "match"
      /\ IF Dead(items, i) THEN Fails("freed")
         ELSE UNCHANGED <<items, g_callbacks>> /\ Goes(t, [op[t] EXCEPT !.at = at])
  BY DEF matches
<1>2. i \in DOMAIN items /\ op[t].other \in 0..Len(items) /\ at \in {"delete", "seek"}
  BY <1>1, AtWork DEF Removing, OpType
<1> HIDE DEF at
<1>3. CASE Dead(items, i)
  BY <1>1, <1>3, OpFails
<1>4. CASE ~Dead(items, i)
  <2>1. OpOK([op[t] EXCEPT !.at = at], Len(items))
    BY <1>1, <1>2, OpGoesOn DEF Removing, Linking
  <2> QED
    BY <1>1, <1>4, <2>1, OpMoves
<1> QED
  BY <1>3, <1>4

LEMMA deletesKeeps ==
    ASSUME Sound, NEW t \in Thread, deletes(t)
    PROVE  Sound'
<1> DEFINE i == op[t].i
           item == [items[i] EXCEPT !.live = FALSE]
<1>1. /\ op[t].at = "delete"
      /\ IF Dead(items, i) THEN Fails("freed")
         ELSE items' = [items EXCEPT ![i] = item] /\ g_callbacks' = g_callbacks /\ Goes(t, NoOp)
  BY DEF deletes
<1>2. i \in DOMAIN items /\ items[i] \in ItemType(Len(items)) /\ Len(items) \in Nat
  BY <1>1, AtWork, ItemsTyped DEF Sound, Removing
<1>3. CASE Dead(items, i)
  BY <1>1, <1>3, OpFails
<1>4. CASE ~Dead(items, i)
  <2>1. item \in ItemType(Len(items))
    BY <1>2 DEF ItemType
  <2> HIDE DEF item, i
  <2>2. ListsTyped' /\ Len(items') = Len(items)
    BY <1>1, <1>2, <1>4, <2>1, ItemWritten
  <2> QED
    BY <1>1, <1>2, <1>4, <2>2, OpSet DEF OpOK
<1> QED
  BY <1>3, <1>4

-----------------------------------------------------------------------------
(***************************************************************************)
(* Threads, init and the calls of the app.                                 *)
(***************************************************************************)
\* A step that touches neither the lists nor the handler.
LEMMA EnvKeeps ==
    ASSUME Sound, failure = "none", UNCHANGED <<world, lists, frame, failure>>, Signals'
    PROVE  Sound'
<1>1. ListsTyped' /\ Ops' /\ Frames'
  BY DEF Sound, ListsTyped, Ops, Frames, lists
<1> QED
  BY <1>1 DEF Sound

LEMMA SpawnKeeps ==
    ASSUME Sound, NEW t \in Thread, NEW u \in Thread, Spawn(t, u)
    PROVE  Sound'
<1>1. /\ failure = "none" /\ UNCHANGED <<world, phase, inits, signals, lists, frame, failure>>
      /\ running' = running \cup {u} /\ covered' \in {covered, covered \cup {u}}
  BY DEF Spawn, Ready
<1>2. phase \in [at : {"out", "checked", "handled"}, by : running']
  <2>1. phase \in [at : {"out", "checked", "handled"}, by : running]
    BY DEF Sound, Signals
  <2> QED
    BY <1>1, <2>1
<1>3. Signals'
  BY <1>1, <1>2 DEF Sound, Signals, signals
<1> QED
  BY <1>1, <1>3, EnvKeeps

LEMMA initChecksKeeps ==
    ASSUME Sound, NEW t \in Thread, initChecks(t)
    PROVE  Sound'
<1>1. /\ failure = "none" /\ t \in running /\ UNCHANGED <<world, running, covered, lists, frame, failure>>
      /\ UNCHANGED <<kernel_act, others, seen>> /\ g_default_act' \in {g_default_act, kernel_act}
      /\ phase' = phase \/ phase' = [at |-> "checked", by |-> t]
  BY DEF initChecks, Ready
<1>2. inits' \in 0..world.inits
  <2>1. inits \in 0..world.inits /\ world.inits \in Nat
    BY HookerAssumption DEF Sound, Signals
  <2> QED
    BY <2>1 DEF initChecks
<1>3. phase' \in [at : {"out", "checked", "handled"}, by : running]
  BY <1>1 DEF Sound, Signals
<1>4. Signals'
  BY <1>1, <1>2, <1>3 DEF Sound, Signals
<1> QED
  BY <1>1, <1>4, EnvKeeps

\* What the last two stages of init change.
LEMMA initGoesOn ==
    ASSUME Sound, NEW at \in {"out", "handled"}, phase' = [phase EXCEPT !.at = at]
    PROVE  phase' \in [at : {"out", "checked", "handled"}, by : running] /\ phase'.at = at
           /\ phase'.by = phase.by /\ phase.by \in running
  BY DEF Sound, Signals

LEMMA initHandlesKeeps ==
    ASSUME Sound, NEW sys, initHandles(sys)
    PROVE  Sound'
<1> DEFINE at == IF initCode(sys) = 0 THEN "handled" ELSE "out"
<1>1. /\ failure = "none" /\ UNCHANGED <<world, running, covered, inits, lists, frame, failure>>
      /\ UNCHANGED <<others, seen, g_default_act>> /\ kernel_act' \in {kernel_act, "hooker"}
      /\ phase' = [phase EXCEPT !.at = at] /\ at \in {"out", "handled"}
  BY DEF initHandles
<1> HIDE DEF at
<1>2. phase' \in [at : {"out", "checked", "handled"}, by : running]
  BY <1>1, initGoesOn
<1>3. Signals'
  BY <1>1, <1>2 DEF Sound, Signals
<1> QED
  BY <1>1, <1>3, EnvKeeps

LEMMA initFiltersKeeps ==
    ASSUME Sound, NEW sys, initFilters(sys)
    PROVE  Sound'
<1>1. /\ failure = "none" /\ phase' = [phase EXCEPT !.at = "out"]
      /\ covered' \in {covered, covered \cup {phase.by}}
      /\ UNCHANGED <<world, running, inits, signals, items, hasArray, g_callbacks, op, careless, frame, failure>>
  BY DEF initFilters
<1>2. phase' \in [at : {"out", "checked", "handled"}, by : running] /\ phase.by \in running
  BY <1>1, initGoesOn
<1>3. Signals'
  BY <1>1, <1>2 DEF Sound, Signals, signals
<1>4. ListsTyped' /\ Ops' /\ Frames'
  BY <1>1 DEF Sound, ListsTyped, Ops, Frames
<1> QED
  BY <1>1, <1>3, <1>4 DEF Sound

\* What a call of the app leaves to the kernel.
LEMMA KernelKeeps ==
    ASSUME Sound, NEW t, NEW call, call \in AppCalls \/ call = [nr |-> "other", ask |-> "path"],
           Kernel(t, call), UNCHANGED <<env, g_default_act>>, failure' \in Failures
    PROVE  Signals'
<1>1. UNCHANGED <<world, running, covered, phase, inits>>
  BY DEF env
<1>2. kernel_act' \in {"app", kernel_act}
  BY DEF Kernel
<1>3. others' \subseteq {"prctl", "seccomp"}
  <2>1. call.ask = "set" /\ call.nr # "rt_sigaction" => call.nr \in {"prctl", "seccomp"}
    BY DEF AppCalls
  <2> QED
    BY <2>1 DEF Kernel, Sound, Signals
<1>4. seen' \in BOOLEAN
  BY DEF Kernel, Shows, Sound, Signals
<1> QED
  BY <1>1, <1>2, <1>3, <1>4 DEF Sound, Signals

LEMMA SignalsStay ==
    ASSUME Sound, UNCHANGED <<env, kernel_act, others>>, seen' \in BOOLEAN,
           g_default_act' \in {"app", g_default_act}, failure' \in Failures
    PROVE  Signals'
<1>1. UNCHANGED <<world, running, covered, phase, inits>>
  BY DEF env
<1> QED
  BY <1>1 DEF Sound, Signals

LEMMA NoKernelStays ==
    ASSUME Sound, UNCHANGED env, NoKernel, g_default_act' \in {"app", g_default_act},
           failure' \in Failures
    PROVE  Signals'
<1>1. seen' \in BOOLEAN /\ UNCHANGED <<kernel_act, others>>
  BY DEF NoKernel, Sound, Signals
<1> QED
  BY <1>1, SignalsStay

-----------------------------------------------------------------------------
(***************************************************************************)
(* The handler.                                                            *)
(***************************************************************************)
\* What is known of a thread that is in the handler.
LEMMA InHandler ==
    ASSUME Sound, NEW t \in Thread, frame[t].at # "app"
    PROVE  Activation(frame[t], Len(items)) /\ Kept(world, frame[t])
<1>1. frame[t] # NoFrame
  BY DEF NoFrame
<1> QED
  BY <1>1 DEF Sound, Frames, FrameOK

\* A step that only moves one activation, and may answer the call.
LEMMA ThreadMoves ==
    ASSUME Sound, failure = "none", NEW t \in Thread, NEW g, frame' = [frame EXCEPT ![t] = g],
           UNCHANGED <<world, lists, failure>>, Signals', FrameOK(world, g, Len(items))
    PROVE  Sound' /\ \A u \in Thread : frame'[u] = IF u = t THEN g ELSE frame[u]
<1>0. ListsTyped' /\ Ops' /\ items' = items
  BY DEF Sound, ListsTyped, Ops, lists
<1>1. \A u \in Thread : frame'[u] = IF u = t THEN g ELSE frame[u]
  BY DEF Sound, Frames
<1>2. frame' = [u \in Thread |-> frame'[u]]
  BY DEF Sound, Frames
<1>3. \A u \in Thread : FrameOK(world', frame'[u], Len(items'))
  BY <1>0, <1>1 DEF Sound, Frames
<1>4. Frames'
  BY <1>2, <1>3 DEF Frames
<1> QED
  BY <1>0, <1>1, <1>4 DEF Sound

\* A step that ends the process.
LEMMA ProcessLost ==
    ASSUME Sound, UNCHANGED <<world, lists, frame>>, Signals',
           failure' = "null" => \E t \in Thread : frame[t].at # "app" /\ frame[t].asked # <<>>
    PROVE  Sound'
<1>1. ListsTyped' /\ Ops' /\ Frames'
  BY DEF Sound, ListsTyped, Ops, Frames, lists
<1> QED
  BY <1>1 DEF Sound

\* The activation a trapped call starts.
Started(call) ==
    [at |-> "dispatch", call |-> call, stack |-> <<>>, again |-> FALSE,
     mItem |-> IF call.nr \in Types THEN g_callbacks[call.nr] ELSE 0,
     ctx |-> Context(call), asked |-> <<>>]

\* What AppCall does.
LEMMA AppCallIs ==
    ASSUME Sound, NEW t \in Thread, NEW call, NEW ip, AppCall(t, call, ip)
    PROVE  /\ failure = "none" /\ Ready(t) /\ frame[t].at = "app" /\ UNCHANGED <<env, g_default_act, lists>>
           /\ \/ ~(t \in covered /\ Trapped(call.nr, ip)) /\ Kernel(t, call) /\ UNCHANGED <<frame, failure>>
              \/ /\ t \in covered /\ Trapped(call.nr, ip) /\ kernel_act = "hooker" /\ NoKernel
                 /\ frame' = [frame EXCEPT ![t] = Started(call)] /\ failure' = failure
              \/ /\ t \in covered /\ Trapped(call.nr, ip) /\ kernel_act # "hooker" /\ NoKernel
                 /\ frame' = frame /\ failure' \in {"none", "killed"}
<1>1. failure = "none" /\ Ready(t) /\ frame[t].at = "app" /\ UNCHANGED <<env, g_default_act, lists>>
  BY DEF AppCall, Ready
<1>2. CASE ~(t \in covered /\ Trapped(call.nr, ip))
  BY <1>1, <1>2 DEF AppCall
<1>3. CASE t \in covered /\ Trapped(call.nr, ip)
  <2>1. /\ NoKernel /\ failure' = IF kernel_act = "default" THEN "killed" ELSE "none"
        /\ frame' = IF kernel_act = "hooker" THEN [frame EXCEPT ![t] = Started(call)] ELSE frame
    BY <1>3 DEF AppCall, Started
  <2> QED
    BY <1>1, <1>3, <2>1
<1> QED
  BY <1>2, <1>3

LEMMA AppCallKeeps ==
    ASSUME Sound, NEW t \in Thread, NEW call \in AppCalls, NEW ip, AppCall(t, call, ip)
    PROVE  Sound'
<1>0. failure = "none" /\ UNCHANGED <<env, g_default_act, lists>> /\ world' = world
  BY AppCallIs DEF env
<1>1. CASE Kernel(t, call) /\ UNCHANGED <<frame, failure>>
  <2>1. Signals'
    BY <1>0, <1>1, KernelKeeps DEF Failures
  <2> QED
    BY <1>0, <1>1, <2>1, EnvKeeps
<1>2. CASE NoKernel /\ frame' = [frame EXCEPT ![t] = Started(call)] /\ failure' = failure
  <2> DEFINE item == IF call.nr \in Types THEN g_callbacks[call.nr] ELSE 0
             g == Started(call)
  <2>0. g = [at |-> "dispatch", call |-> call, stack |-> <<>>, again |-> FALSE,
             mItem |-> item, ctx |-> Context(call), asked |-> <<>>]
    BY DEF Started
  <2>1. Signals'
    BY <1>0, <1>2, NoKernelStays DEF Failures
  <2>2. item \in 0..Len(items)
    BY ItemsTyped DEF Sound
  <2> HIDE DEF item, g
  <2>3. Activation(g, Len(items))
    <3>1. <<>> \in Seq(Level)
      OBVIOUS
    <3> QED
      BY <2>0, <2>2, <3>1 DEF Activation
  <2>4. Kept(world, g)
    BY <2>0, ContextHeld DEF Kept, Untouched
  <2>5. FrameOK(world, g, Len(items))
    BY <2>3, <2>4 DEF FrameOK
  <2> QED
    BY <1>0, <1>2, <2>1, <2>5, ThreadMoves DEF g
<1>3. CASE NoKernel /\ frame' = frame /\ failure' \in {"none", "killed"}
  <2>1. Signals'
    BY <1>0, <1>3, NoKernelStays DEF Failures
  <2> QED
    BY <1>0, <1>3, <2>1, ProcessLost
<1> QED
  BY <1>1, <1>2, <1>3, AppCallIs

\* What doCallOriginSysCall does: the call is lost in the filter, or made.
Made(f) ==
    LET macros == SECCOMP(world.arch)
    IN  Call(world.arch, f.ctx[macros.nr], [n \in 1..6 |-> f.ctx[macros.parm[n]]])

Asked(f) ==
    [f EXCEPT !.asked = Append(@, Made(f)), !.ctx[SECCOMP(world.arch).result] = "result"]

LEMMA OriginIs ==
    ASSUME NEW t \in Thread, NEW f, doCallOriginSysCall(t, f)
    PROVE  \/ failure' = "recursion" /\ NoKernel /\ UNCHANGED frame /\ Trapped(f.call.nr, Own)
           \/ /\ frame' = [frame EXCEPT ![t] = Asked(f)] /\ failure' = failure
              /\ Kernel(t, f.call) \/ Kernel(t, [nr |-> "other", ask |-> "path"])
<1> DEFINE same == Made(f)[SECCOMP(world.arch).nr] = f.call.nr
<1>1. IF same /\ Trapped(f.call.nr, Own) THEN failure' = "recursion" /\ NoKernel /\ UNCHANGED frame
      ELSE /\ Kernel(t, IF same THEN f.call ELSE [nr |-> "other", ask |-> "path"])
           /\ frame' = [frame EXCEPT ![t] = Asked(f)] /\ UNCHANGED failure
  BY DEF doCallOriginSysCall, Made, Asked
<1> HIDE DEF same
<1> QED
  BY <1>1

\* The activation once the kernel has been asked.
LEMMA AskedOK ==
    ASSUME Sound, NEW f, Activation(f, Len(items)), f.at = "callback", f.asked = <<>>, f.mItem = 0,
           \A k \in DOMAIN f.stack : k # Len(f.stack) => f.stack[k].calls > 0,
           ~f.again => f.ctx = Held(world, f.call)
    PROVE  LET g == Asked(f)
           IN  /\ FrameOK(world, g, Len(items)) /\ g.at = "callback" /\ g.mItem = 0 /\ g.call = f.call
               /\ g.stack = f.stack /\ g.asked # <<>>
<1> DEFINE regs == Made(f)
           x == SECCOMP(world.arch).result
           ctx == [f.ctx EXCEPT ![x] = "result"]
           g == Asked(f)
<1>1. ~f.again => regs = Held(world, f.call)
  <2>1. world \in Worlds
    BY DEF Sound, Signals
  <2> QED
    BY <2>1, OriginalMade DEF Made
<1>2. g = [f EXCEPT !.asked = Append(@, regs), !.ctx[x] = "result"]
  BY DEF Asked
<1> HIDE DEF regs, x, g
<1>3. g = [f EXCEPT !.asked = <<regs>>, !.ctx = ctx]
  BY <1>2 DEF Activation
<1> HIDE DEF ctx
<1>4. Activation(g, Len(items)) /\ g.at = "callback" /\ g.mItem = 0 /\ g.asked = <<regs>>
      /\ g.stack = f.stack /\ g.again = f.again /\ g.call = f.call
  BY <1>3 DEF Activation
<1>5. g.asked # <<>> /\ g.asked = <<g.asked[1]>> /\ g.asked[1] = regs
  BY <1>4
<1>6. Kept(world, g)
  BY <1>1, <1>4, <1>5 DEF Kept, Untouched
<1> QED
  BY <1>4, <1>5, <1>6 DEF FrameOK, g

\* The call of the kernel, by a thread whose activation was brought to f.
LEMMA OriginKeeps ==
    ASSUME Sound, failure = "none", NEW t \in Thread, NEW f, doCallOriginSysCall(t, f),
           Activation(f, Len(items)), f.at = "callback", f.asked = <<>>, f.mItem = 0,
           \A k \in DOMAIN f.stack : k # Len(f.stack) => f.stack[k].calls > 0,
           ~f.again => f.ctx = Held(world, f.call),
           UNCHANGED <<env, g_default_act, lists>>
    PROVE  Sound'
<1>0. world' = world /\ f.call \in AppCalls
  BY DEF env, Activation
<1>1. CASE failure' = "recursion" /\ NoKernel /\ UNCHANGED frame
  <2>1. Signals'
    BY <1>1, NoKernelStays DEF Failures
  <2> QED
    BY <1>0, <1>1, <2>1, ProcessLost
<1>2. CASE /\ frame' = [frame EXCEPT ![t] = Asked(f)] /\ failure' = failure
           /\ Kernel(t, f.call) \/ Kernel(t, [nr |-> "other", ask |-> "path"])
  <2>1. Signals'
    <3>1. failure' \in Failures
      BY <1>2 DEF Failures
    <3> QED
      BY <1>0, <1>2, <3>1, KernelKeeps
  <2>2. FrameOK(world, Asked(f), Len(items))
    BY AskedOK
  <2> QED
    BY <1>0, <1>2, <2>1, <2>2, ThreadMoves
<1> QED
  BY <1>1, <1>2, OriginIs

\* The callback of the item is called.
Called(f) ==
    [f EXCEPT !.at = "callback", !.stack = Append(@, [cb |-> items[f.mItem].cb, calls |-> 0])]

LEMMA DispatchIs ==
    ASSUME Sound, NEW t \in Thread, Dispatch(t)
    PROVE  LET f == frame[t]
           IN  /\ failure = "none" /\ f.at = "dispatch" /\ UNCHANGED <<env, g_default_act, lists>>
               /\ Activation(f, Len(items)) /\ Kept(world, f) /\ t \in running
               /\ \/ f.mItem = 0 /\ doCallOriginSysCall(t, [f EXCEPT !.at = "callback"])
                  \/ f.mItem # 0 /\ Dead(items, f.mItem) /\ failure' = "freed" /\ NoKernel /\ UNCHANGED frame
                  \/ /\ f.mItem # 0 /\ ~Dead(items, f.mItem) /\ frame' = [frame EXCEPT ![t] = Called(f)]
                     /\ NoKernel /\ UNCHANGED failure
<1> DEFINE f == frame[t]
<1>1. failure = "none" /\ f.at = "dispatch" /\ UNCHANGED <<env, g_default_act, lists>> /\ t \in running
  BY DEF Dispatch, Ready
<1>2. Activation(f, Len(items)) /\ Kept(world, f)
  BY <1>1, InHandler
<1>3. IF f.mItem = 0 THEN doCallOriginSysCall(t, [f EXCEPT !.at = "callback"])
      ELSE IF Dead(items, f.mItem) THEN failure' = "freed" /\ NoKernel /\ UNCHANGED frame
      ELSE frame' = [frame EXCEPT ![t] = Called(f)] /\ NoKernel /\ UNCHANGED failure
  BY DEF Dispatch, Called
<1> QED
  BY <1>1, <1>2, <1>3

\* Before the kernel is asked for a call nothing is registered for.
LEMMA DispatchAsks ==
    ASSUME Sound, NEW f, Activation(f, Len(items)), Kept(world, f), f.at = "dispatch"
    PROVE  LET h == [f EXCEPT !.at = "callback"]
           IN  /\ Activation(h, Len(items)) /\ h.at = "callback" /\ h.asked = <<>> /\ h.mItem = f.mItem
               /\ h.stack = f.stack /\ h.call = f.call
               /\ \A k \in DOMAIN h.stack : k # Len(h.stack) => h.stack[k].calls > 0
               /\ ~h.again => h.ctx = Held(world, h.call)
<1> DEFINE h == [f EXCEPT !.at = "callback"]
<1>1. f.asked = <<>> /\ (~f.again => f.ctx = Held(world, f.call))
      /\ \A k \in DOMAIN f.stack : k # Len(f.stack) => f.stack[k].calls > 0
  BY DEF Kept, Untouched
<1>2. Activation(h, Len(items)) /\ h.at = "callback" /\ h.asked = f.asked /\ h.mItem = f.mItem
      /\ h.stack = f.stack /\ h.ctx = f.ctx /\ h.call = f.call /\ h.again = f.again
  BY DEF Activation
<1> HIDE DEF h
<1> QED
  BY <1>1, <1>2 DEF h

LEMMA CalledOK ==
    ASSUME Sound, NEW f, Activation(f, Len(items)), Kept(world, f), f.at = "dispatch", f.mItem # 0
    PROVE  LET g == Called(f)
           IN  /\ FrameOK(world, g, Len(items)) /\ g.at = "callback" /\ g.call = f.call /\ g.mItem = f.mItem
               /\ g.stack = Append(f.stack, [cb |-> items[f.mItem].cb, calls |-> 0])
               /\ f.stack \in Seq(Level)
<1> DEFINE cb == items[f.mItem].cb
           level == [cb |-> cb, calls |-> 0]
           s == f.stack
           z == Append(s, level)
           g == Called(f)
<1>1. /\ s \in Seq(Level) /\ f.asked = <<>> /\ (~f.again => f.ctx = Held(world, f.call))
      /\ \A k \in DOMAIN s : s[k].calls > 0
  BY DEF Kept, Untouched, Activation
<1>2. level \in Level /\ level.calls = 0
  <2>1. cb \in Callbacks
    BY ItemsTyped DEF Sound, Activation
  <2> QED
    BY <2>1 DEF Level
<1>3. g = [f EXCEPT !.at = "callback", !.stack = Append(@, level)]
  BY DEF Called
<1> HIDE DEF level, s, g
<1>4. z \in Seq(Level) /\ Len(z) = Len(s) + 1 /\ DOMAIN z = 1..(Len(s) + 1) /\ Len(s) \in Nat
      /\ DOMAIN s = 1..Len(s) /\ \A k \in 1..Len(s) : z[k] = s[k]
  BY <1>1, <1>2
<1>5. g = [f EXCEPT !.at = "callback", !.stack = z]
  BY <1>3 DEF Activation, s
<1> HIDE DEF z
<1>6. /\ Activation(g, Len(items)) /\ g.at = "callback" /\ g.call = f.call /\ g.mItem = f.mItem
      /\ g.ctx = f.ctx /\ g.asked = f.asked /\ g.stack = z /\ g.again = f.again
  BY <1>4, <1>5 DEF Activation
<1>7. ASSUME NEW k \in DOMAIN z, k # Len(z)
      PROVE  z[k].calls > 0
  <2>1. k \in 1..Len(s)
    BY <1>4, <1>7
  <2> QED
    BY <1>1, <1>4, <2>1
<1>8. Kept(world, g)
  BY <1>1, <1>6, <1>7 DEF Kept, Untouched
<1> QED
  BY <1>1, <1>6, <1>8 DEF FrameOK, g, z, s, level

LEMMA DispatchKeeps ==
    ASSUME Sound, NEW t \in Thread, Dispatch(t)
    PROVE  Sound'
<1> DEFINE f == frame[t]
           h == [f EXCEPT !.at = "callback"]
<1>0. /\ failure = "none" /\ f.at = "dispatch" /\ UNCHANGED <<env, g_default_act, lists>>
      /\ Activation(f, Len(items)) /\ Kept(world, f) /\ world' = world
  BY DispatchIs DEF env
<1> HIDE DEF f
<1>1. CASE f.mItem = 0 /\ doCallOriginSysCall(t, h)
  <2>1. /\ Activation(h, Len(items)) /\ h.at = "callback" /\ h.asked = <<>> /\ h.mItem = 0
        /\ \A k \in DOMAIN h.stack : k # Len(h.stack) => h.stack[k].calls > 0
        /\ ~h.again => h.ctx = Held(world, h.call)
    BY <1>0, <1>1, DispatchAsks
  <2> HIDE DEF h
  <2> QED
    BY <1>0, <1>1, <2>1, OriginKeeps
<1>2. CASE failure' = "freed" /\ NoKernel /\ UNCHANGED frame
  <2>1. Signals'
    BY <1>0, <1>2, NoKernelStays DEF Failures
  <2> QED
    BY <1>0, <1>2, <2>1, ProcessLost
<1>3. CASE f.mItem # 0 /\ frame' = [frame EXCEPT ![t] = Called(f)] /\ NoKernel /\ UNCHANGED failure
  <2>1. Signals'
    BY <1>0, <1>3, NoKernelStays DEF Failures
  <2>2. FrameOK(world, Called(f), Len(items))
    BY <1>0, <1>3, CalledOK
  <2> QED
    BY <1>0, <1>3, <2>1, <2>2, ThreadMoves
<1> QED
  BY <1>1, <1>2, <1>3, DispatchIs DEF f

\* doSyscall is called once more by the innermost callback.
Passing(f) ==
    [f EXCEPT !.stack[Len(f.stack)].calls = @ + 1, !.again = @ \/ Last(f.stack).calls > 0]

LEMMA PassingOK ==
    ASSUME NEW f, Activation(f, Len(items)), Kept(world, f), f.at = "callback", f.stack # <<>>
    PROVE  LET h == Passing(f)
           IN  /\ Activation(h, Len(items)) /\ h.at = "callback" /\ h.call = f.call /\ h.mItem = f.mItem
               /\ h.asked = f.asked /\ DOMAIN h.stack = DOMAIN f.stack
               /\ \A k \in DOMAIN f.stack : h.stack[k].calls > 0 /\ h.stack[k].cb = f.stack[k].cb
               /\ ~h.again /\ f.asked = <<>> => h.ctx = Held(world, h.call)
<1> DEFINE h == Passing(f)
           s == f.stack
           l == Len(s)
           top == [s[l] EXCEPT !.calls = @ + 1]
           z == [s EXCEPT ![l] = top]
           again == f.again \/ Last(s).calls > 0
<1>1. h = [f EXCEPT !.stack = z, !.again = again]
  BY DEF Activation, Passing
<1>2. s \in Seq(Level) /\ f.again \in BOOLEAN
  BY DEF Activation
<1> HIDE DEF s
<1>3. l \in Nat /\ l > 0 /\ DOMAIN s = 1..l /\ s[l] \in Level /\ Last(s) = s[l]
  BY <1>2 DEF Last, s
<1>4. top \in Level /\ top.calls = s[l].calls + 1 /\ s[l].calls \in Nat /\ top.cb = s[l].cb
  BY <1>3 DEF Level
<1> HIDE DEF top
<1>5. z \in Seq(Level) /\ Len(z) = l /\ DOMAIN z = 1..l /\ z[l] = top
      /\ \A k \in 1..l : k # l => z[k] = s[k]
  BY <1>2, <1>3, <1>4
<1>6. again \in BOOLEAN /\ (~again => ~f.again /\ Last(s).calls = 0)
  BY <1>2, <1>3, <1>4
<1> HIDE DEF z, again, l, h
<1>7. /\ Activation(h, Len(items)) /\ h.at = f.at /\ h.call = f.call /\ h.mItem = f.mItem /\ h.ctx = f.ctx
      /\ h.asked = f.asked /\ h.stack = z /\ h.again = again
  BY <1>1, <1>5, <1>6 DEF Activation
<1>8. \A k \in 1..l : z[k].calls > 0 /\ z[k].cb = s[k].cb
  BY <1>3, <1>4, <1>5 DEF Kept, s, l
<1>9. ~h.again /\ f.asked = <<>> => h.ctx = Held(world, h.call)
  BY <1>6, <1>7 DEF Kept, Untouched, s
<1> QED
  BY <1>3, <1>5, <1>7, <1>8, <1>9 DEF s, h

\* The call is given to the next item.
Given(f, next) == [Passing(f) EXCEPT !.at = "dispatch", !.mItem = next]

LEMMA PassIs ==
    ASSUME Sound, NEW t \in Thread, Pass(t)
    PROVE  LET f == frame[t]
               next == items[f.mItem].next
           IN  /\ failure = "none" /\ f.at = "callback" /\ f.stack # <<>> /\ Last(f.stack).calls < Passes(f)
               /\ UNCHANGED <<env, g_default_act, lists>> /\ t \in running
               /\ Activation(f, Len(items)) /\ Kept(world, f)
               /\ \/ f.mItem = 0 /\ failure' = "null" /\ NoKernel /\ UNCHANGED frame
                  \/ f.mItem # 0 /\ Dead(items, f.mItem) /\ failure' = "freed" /\ NoKernel /\ UNCHANGED frame
                  \/ /\ f.mItem # 0 /\ ~Dead(items, f.mItem) /\ next = 0
                     /\ doCallOriginSysCall(t, [Passing(f) EXCEPT !.mItem = 0])
                  \/ /\ f.mItem # 0 /\ ~Dead(items, f.mItem) /\ next # 0
                     /\ frame' = [frame EXCEPT ![t] = Given(f, next)]
                     /\ NoKernel /\ UNCHANGED failure
<1> DEFINE f == frame[t]
           h == Passing(f)
<1>1. /\ failure = "none" /\ f.at = "callback" /\ f.stack # <<>> /\ Last(f.stack).calls < Passes(f)
      /\ UNCHANGED <<env, g_default_act, lists>> /\ doSyscall(t) /\ t \in running
  BY DEF Pass, Ready
<1>2. Activation(f, Len(items)) /\ Kept(world, f)
  BY <1>1, InHandler
<1>3. h.mItem = f.mItem
  BY <1>1, <1>2, PassingOK
<1>4. IF h.mItem = 0 THEN failure' = "null" /\ NoKernel /\ UNCHANGED frame
      ELSE IF Dead(items, h.mItem) THEN failure' = "freed" /\ NoKernel /\ UNCHANGED frame
      ELSE IF items[h.mItem].next = 0 THEN doCallOriginSysCall(t, [h EXCEPT !.mItem = 0])
      ELSE frame' = [frame EXCEPT ![t] = Given(f, items[h.mItem].next)] /\ NoKernel /\ UNCHANGED failure
  BY <1>1 DEF doSyscall, Passing, Given
<1> HIDE DEF h
<1> QED
  BY <1>1, <1>2, <1>3, <1>4 DEF h

\* Before the kernel is asked behind the last item.
LEMMA PassAsks ==
    ASSUME Sound, NEW f, Activation(f, Len(items)), Kept(world, f), f.at = "callback", f.stack # <<>>,
           f.mItem # 0
    PROVE  LET g == [Passing(f) EXCEPT !.mItem = 0]
           IN  /\ Activation(g, Len(items)) /\ g.at = "callback" /\ g.asked = <<>> /\ g.mItem = 0
               /\ g.call = f.call
               /\ \A k \in DOMAIN g.stack : k # Len(g.stack) => g.stack[k].calls > 0
               /\ ~g.again => g.ctx = Held(world, g.call)
<1> DEFINE h == Passing(f)
           g == [h EXCEPT !.mItem = 0]
<1>1. /\ Activation(h, Len(items)) /\ h.at = "callback" /\ h.call = f.call /\ h.asked = f.asked
      /\ \A k \in DOMAIN h.stack : h.stack[k].calls > 0
      /\ ~h.again /\ f.asked = <<>> => h.ctx = Held(world, h.call)
  BY PassingOK
<1>2. f.asked = <<>> /\ 0 \in 0..Len(items)
  BY ItemsTyped DEF Kept, Sound
<1> HIDE DEF h
<1>3. Activation(g, Len(items)) /\ g.mItem = 0 /\ g.at = h.at /\ g.call = h.call /\ g.ctx = h.ctx
      /\ g.asked = h.asked /\ g.stack = h.stack /\ g.again = h.again
  BY <1>1, <1>2 DEF Activation
<1> HIDE DEF g
<1> QED
  BY <1>1, <1>2, <1>3 DEF h, g

LEMMA PassGives ==
    ASSUME Sound, NEW f, Activation(f, Len(items)), Kept(world, f), f.at = "callback", f.stack # <<>>,
           f.mItem # 0, NEW next \in DOMAIN items, NEW g, g = Given(f, next)
    PROVE  /\ FrameOK(world, g, Len(items)) /\ g.at = "dispatch" /\ g.mItem = next /\ g.call = f.call
           /\ DOMAIN g.stack = DOMAIN f.stack /\ \A k \in DOMAIN f.stack : g.stack[k].cb = f.stack[k].cb
<1> DEFINE h == Passing(f)
<1>1. /\ Activation(h, Len(items)) /\ h.at = "callback" /\ h.call = f.call /\ h.asked = f.asked
      /\ DOMAIN h.stack = DOMAIN f.stack
      /\ \A k \in DOMAIN f.stack : h.stack[k].calls > 0 /\ h.stack[k].cb = f.stack[k].cb
      /\ ~h.again /\ f.asked = <<>> => h.ctx = Held(world, h.call)
  BY PassingOK
<1>2. f.asked = <<>> /\ next \in 0..Len(items) /\ g = [h EXCEPT !.at = "dispatch", !.mItem = next]
  BY ItemsTyped DEF Kept, Sound, Given
<1> HIDE DEF h
<1>3. Activation(g, Len(items)) /\ g.mItem = next /\ g.at = "dispatch" /\ g.call = h.call /\ g.ctx = h.ctx
      /\ g.asked = h.asked /\ g.stack = h.stack /\ g.again = h.again
  BY <1>1, <1>2 DEF Activation
<1>4. Kept(world, g)
  BY <1>1, <1>2, <1>3 DEF Kept, Untouched
<1> QED
  BY <1>1, <1>3, <1>4 DEF FrameOK, h

LEMMA PassKeeps ==
    ASSUME Sound, NEW t \in Thread, Pass(t)
    PROVE  Sound'
<1> DEFINE f == frame[t]
           next == items[f.mItem].next
           g == [Passing(f) EXCEPT !.mItem = 0]
<1>0. /\ failure = "none" /\ f.at = "callback" /\ f.stack # <<>>
      /\ UNCHANGED <<env, g_default_act, lists>>
      /\ Activation(f, Len(items)) /\ Kept(world, f) /\ world' = world
  BY PassIs DEF env
<1> HIDE DEF f
<1>1. CASE f.mItem = 0 /\ failure' = "null" /\ NoKernel /\ UNCHANGED frame
  <2>1. f.asked # <<>> /\ f.at # "app"
    BY <1>0, <1>1 DEF Kept
  <2>2. Signals'
    BY <1>0, <1>1, NoKernelStays DEF Failures
  <2> QED
    BY <1>0, <1>1, <2>1, <2>2, ProcessLost DEF f
<1>2. CASE failure' = "freed" /\ NoKernel /\ UNCHANGED frame
  <2>1. Signals'
    BY <1>0, <1>2, NoKernelStays DEF Failures
  <2> QED
    BY <1>0, <1>2, <2>1, ProcessLost
<1>3. CASE f.mItem # 0 /\ doCallOriginSysCall(t, g)
  <2>1. /\ Activation(g, Len(items)) /\ g.at = "callback" /\ g.asked = <<>> /\ g.mItem = 0
        /\ \A k \in DOMAIN g.stack : k # Len(g.stack) => g.stack[k].calls > 0
        /\ ~g.again => g.ctx = Held(world, g.call)
    BY <1>0, <1>3, PassAsks
  <2> HIDE DEF g
  <2> QED
    BY <1>0, <1>3, <2>1, OriginKeeps
<1>4. CASE /\ f.mItem # 0 /\ next # 0
           /\ frame' = [frame EXCEPT ![t] = Given(f, next)]
           /\ NoKernel /\ UNCHANGED failure
  <2>1. Signals'
    BY <1>0, <1>4, NoKernelStays DEF Failures
  <2>2. next \in DOMAIN items
    BY <1>0, <1>4, ItemsTyped DEF Sound, Activation
  <2> HIDE DEF next
  <2>3. FrameOK(world, Given(f, next), Len(items))
    BY <1>0, <1>4, <2>2, PassGives
  <2> QED
    BY <1>0, <1>4, <2>1, <2>3, ThreadMoves
<1> QED
  BY <1>1, <1>2, <1>3, <1>4, PassIs DEF f

\* The activation once its innermost callback has returned.
Returned(f) ==
    Return(IF f.stack # <<>> /\ Last(f.stack).calls = 0
           THEN [f EXCEPT !.ctx[SECCOMP(world.arch).result] = "answer"] ELSE f)

LEMMA FinishIs ==
    ASSUME Sound, NEW t \in Thread, Finish(t)
    PROVE  LET f == frame[t]
           IN  /\ failure = "none" /\ f.at = "callback" /\ frame' = [frame EXCEPT ![t] = Returned(f)]
               /\ g_default_act' \in {"app", g_default_act} /\ UNCHANGED <<env, kernel_act, others, lists, failure>>
               /\ Activation(f, Len(items)) /\ Kept(world, f)
               /\ IF dumped(f, [nr |-> "rt_sigaction", ask |-> "get"]) THEN Shows(g_default_act)
                  ELSE UNCHANGED seen
<1> DEFINE f == frame[t]
<1>1. /\ failure = "none" /\ f.at = "callback" /\ frame' = [frame EXCEPT ![t] = Returned(f)]
      /\ g_default_act' \in {"app", g_default_act}
      /\ UNCHANGED <<env, kernel_act, others, lists, failure>>
      /\ IF dumped(f, [nr |-> "rt_sigaction", ask |-> "get"]) THEN Shows(g_default_act)
         ELSE UNCHANGED seen
  BY DEF Finish, Ready, Returned
<1>2. Activation(f, Len(items)) /\ Kept(world, f)
  BY <1>1, InHandler
<1> QED
  BY <1>1, <1>2

LEMMA ReturnedOK ==
    ASSUME NEW n, NEW f, Activation(f, n), Kept(world, f), f.at = "callback"
    PROVE  LET g == Returned(f)
           IN  /\ FrameOK(world, g, n)
               /\ g = NoFrame \/ (/\ g.at = "callback" /\ g.mItem = f.mItem /\ g.call = f.call
                                  /\ g.stack # <<>> /\ Last(g.stack).calls > 0
                                  /\ \A k \in DOMAIN g.stack : k \in DOMAIN f.stack /\ g.stack[k] = f.stack[k])
<1> DEFINE answered == f.stack # <<>> /\ Last(f.stack).calls = 0
           x == SECCOMP(world.arch).result
           h == IF answered THEN [f EXCEPT !.ctx[x] = "answer"] ELSE f
           s == f.stack
           z == Front(s)
           y == [h EXCEPT !.stack = z]
           g == Returned(f)
<1>1. h = f \/ h = [f EXCEPT !.ctx[x] = "answer"]
  OBVIOUS
<1>2. g = Return(h)
  BY DEF Returned
<1> HIDE DEF h, g, x
<1>3. /\ Activation(h, n) /\ h.at = "callback" /\ h.call = f.call /\ h.mItem = f.mItem
      /\ h.asked = f.asked /\ h.stack = s /\ h.again = f.again
  <2> DEFINE ctx == IF h = f THEN f.ctx ELSE [f.ctx EXCEPT ![x] = "answer"]
  <2>1. h = [f EXCEPT !.ctx = ctx]
    BY <1>1 DEF Activation
  <2> HIDE DEF ctx
  <2> QED
    BY <2>1 DEF Activation
<1>4. CASE Len(h.stack) <= 1
  BY <1>2, <1>4 DEF Return, FrameOK, g
<1>5. CASE ~(Len(h.stack) <= 1)
  <2>0. g = y
    BY <1>2, <1>3, <1>5 DEF Return, Activation
  <2>1. s \in Seq(Level) /\ Len(s) \in Nat /\ Len(s) > 1
    BY <1>3, <1>5 DEF Activation
  <2> HIDE DEF s
  <2>2. z \in Seq(Level) /\ Len(z) = Len(s) - 1 /\ DOMAIN z = 1..(Len(s) - 1) /\ DOMAIN s = 1..Len(s)
        /\ \A k \in 1..(Len(s) - 1) : z[k] = s[k]
    BY <2>1 DEF z, Front
  <2> HIDE DEF z
  <2>3. /\ Activation(y, n) /\ y.at = "callback" /\ y.call = f.call /\ y.mItem = f.mItem
        /\ y.asked = f.asked /\ y.stack = z /\ y.again = f.again
    BY <1>3, <2>2 DEF Activation
  <2>4. \A k \in DOMAIN z : k \in DOMAIN s /\ z[k] = s[k] /\ z[k].calls > 0
    <3>1. \A k \in DOMAIN s : k # Len(s) => s[k].calls > 0
      BY DEF Kept, s
    <3> QED
      BY <2>1, <2>2, <3>1
  <2>5. Last(z) = z[Len(z)] /\ Len(z) \in DOMAIN z /\ z # <<>>
    BY <2>1, <2>2 DEF Last
  <2>6. Last(z).calls > 0 /\ Last(z).calls # 0
    BY <2>4, <2>5
  <2>7. ~Untouched(y)
    BY <2>3, <2>5, <2>6 DEF Untouched
  <2> HIDE DEF y
  <2>8. Kept(world, y)
    <3>1. /\ f.asked = <<>> \/ f.asked = <<f.asked[1]>>
          /\ f.asked # <<>> => f.mItem = 0
          /\ f.at = "callback" /\ f.mItem = 0 => f.asked # <<>>
          /\ ~f.again /\ f.asked # <<>> => f.asked[1] = Held(world, f.call)
      BY DEF Kept
    <3> QED
      BY <2>3, <2>4, <2>7, <3>1 DEF Kept
  <2> QED
    BY <2>0, <2>3, <2>4, <2>5, <2>6, <2>8 DEF FrameOK, g, s
<1> QED
  BY <1>4, <1>5

LEMMA FinishKeeps ==
    ASSUME Sound, NEW t \in Thread, Finish(t)
    PROVE  Sound'
<1> DEFINE f == frame[t]
           g == Returned(f)
<1>0. /\ failure = "none" /\ f.at = "callback" /\ frame' = [frame EXCEPT ![t] = g]
      /\ g_default_act' \in {"app", g_default_act}
      /\ UNCHANGED <<env, kernel_act, others, lists, failure>>
      /\ Activation(f, Len(items)) /\ Kept(world, f)
      /\ IF dumped(f, [nr |-> "rt_sigaction", ask |-> "get"]) THEN Shows(g_default_act) ELSE UNCHANGED seen
  BY FinishIs
<1>1. FrameOK(world, g, Len(items))
  BY <1>0, ReturnedOK
<1>2. seen' \in BOOLEAN
  BY <1>0 DEF Shows, Sound, Signals
<1> HIDE DEF g, f
<1>3. Signals'
  BY <1>0, <1>2, SignalsStay DEF Failures
<1>4. world' = world
  BY <1>0 DEF env
<1> QED
  BY <1>0, <1>1, <1>3, <1>4, ThreadMoves

-----------------------------------------------------------------------------
LEMMA SoundInit == HookerInit => Sound
<1> SUFFICES ASSUME HookerInit PROVE Sound
  OBVIOUS
<1> USE DEF HookerInit
<1>1. Signals
  <2>1. world.inits \in Nat /\ inits = 0
    BY HookerAssumption
  <2>2. inits \in 0..world.inits
    BY <2>1
  <2>3. PICK t \in Thread : running = {t} /\ phase = [at |-> "out", by |-> t]
    OBVIOUS
  <2>4. phase \in [at : {"out", "checked", "handled"}, by : running]
    BY <2>3
  <2> QED
    BY <2>2, <2>3, <2>4 DEF Signals, Failures
<1>2. ListsTyped
  <2>1. items = <<>> /\ Len(items) = 0 /\ \A ty \in Types : g_callbacks[ty] = 0
    OBVIOUS
  <2> QED
    BY <2>1 DEF ListsTyped
<1>3. Ops
  <2>1. op = [t \in Thread |-> op[t]] /\ \A t \in Thread : op[t] = NoOp
    OBVIOUS
  <2> QED
    BY <2>1 DEF Ops, OpOK
<1>4. Frames
  <2>1. frame = [t \in Thread |-> frame[t]] /\ \A t \in Thread : frame[t] = NoFrame
    OBVIOUS
  <2> QED
    BY <2>1 DEF Frames, FrameOK
<1> QED
  BY <1>1, <1>2, <1>3, <1>4 DEF Sound

LEMMA TypesInOrder == TypeOrder \in Seq(Types) /\ TypeOrder # <<>>
<1>1. TypeOrder \in Seq(STRING) /\ "prctl" \in ToSet(TypeOrder)
  BY HookerAssumption DEF Types
<1>2. \A n \in 1..Len(TypeOrder) : TypeOrder[n] \in Types
  BY <1>1 DEF Types, ToSet
<1>3. TypeOrder # <<>>
  BY <1>1 DEF ToSet
<1> QED
  BY <1>1, <1>2, <1>3

\* Each step, taken apart.
LEMMA registersBoth ==
    ASSUME Sound, NEW t \in Thread,
           (\E ty \in Types, cb \in world.cbs : registerCallback(t, ty, cb)) \/ addAll(t)
    PROVE  \E todo \in Seq(Types), cb \in Callbacks : todo # <<>> /\ registers(t, todo, cb)
<1>1. ASSUME NEW ty \in Types, NEW cb \in world.cbs, registerCallback(t, ty, cb)
      PROVE  \E todo \in Seq(Types), z \in Callbacks : todo # <<>> /\ registers(t, todo, z)
  <2>1. <<ty>> \in Seq(Types) /\ <<ty>> # <<>>
    OBVIOUS
  <2>2. cb \in Callbacks
    BY HookerAssumption DEF Sound, Signals
  <2> QED
    BY <1>1, <2>1, <2>2 DEF registerCallback
<1>2. CASE addAll(t)
  <2>1. "dumper" \in Callbacks
    BY HookerAssumption DEF Callbacks
  <2> QED
    BY <1>2, <2>1, TypesInOrder DEF addAll
<1> QED
  BY <1>1, <1>2

LEMMA SoundNext == Sound /\ [HookerNext]_vars => Sound'
<1> SUFFICES ASSUME Sound, [HookerNext]_vars PROVE Sound'
  OBVIOUS
<1>1. ASSUME NEW t \in Thread,
             (\E ty \in Types, cb \in world.cbs : registerCallback(t, ty, cb)) \/ addAll(t)
      PROVE  Sound'
  BY <1>1, registersBoth, registersKeeps
<1>2. ASSUME NEW t \in Thread, NEW ty \in Types, NEW cb \in world.cbs, unregisterCallback(t, ty, cb)
      PROVE  Sound'
  <2>1. cb \in Callbacks
    BY HookerAssumption DEF Sound, Signals
  <2> QED
    BY <1>2, <2>1, unregisterKeeps
<1>3. ASSUME NEW t \in Thread, ListStep(t)
      PROVE  Sound'
  BY <1>3, makesArrayKeeps, readsHeadKeeps, putsFirstKeeps, createsKeeps, addNextKeeps, linksLastKeeps,
     comparesKeeps, unlinksKeeps, putsHeadKeeps, seeksKeeps, matchesKeeps, deletesKeeps DEF ListStep
<1>4. ASSUME NEW t \in Thread, NEW call \in world.calls, NEW ip \in Sites, AppCall(t, call, ip)
      PROVE  Sound'
  <2>1. call \in AppCalls
    BY HookerAssumption DEF Sound, Signals
  <2> QED
    BY <1>4, <2>1, AppCallKeeps
<1>5. CASE UNCHANGED vars
  <2>1. UNCHANGED <<world, running, covered, phase, inits, kernel_act, others, seen, g_default_act,
                    items, g_callbacks, op, frame, failure>>
    BY <1>5 DEF vars
  <2> QED
    BY <2>1 DEF Sound, Signals, ListsTyped, Ops, Frames
<1> QED
  BY <1>1, <1>2, <1>3, <1>4, <1>5, SpawnKeeps, initChecksKeeps, initHandlesKeeps, initFiltersKeeps,
     DispatchKeeps, PassKeeps, FinishKeeps DEF HookerNext

-----------------------------------------------------------------------------
\* The invariant holds in every state of SvcerHooker.
THEOREM HookerSound == HookerSpec => []Sound
  BY SoundInit, SoundNext, PTL DEF HookerSpec

\* However many threads register, remove, and handle calls at once, and
\* whatever the callbacks do, the variables of the hook keep their types: no
\* pointer leads out of the items that were allocated, and init is called no
\* more often than the world says.
THEOREM HookerTyped == HookerSpec => []HookerTypeOK
<1>1. Sound => HookerTypeOK
  <2> SUFFICES ASSUME Sound PROVE HookerTypeOK
    OBVIOUS
  <2>1. /\ items \in Seq([ty : Types, cb : Callbacks, next : 0..Len(items), live : BOOLEAN])
        /\ g_callbacks \in [Types -> 0..Len(items)]
    BY DEF Sound, ListsTyped, ItemType
  <2>2. \A t \in Thread : frame[t].at \in {"app", "dispatch", "callback"}
    BY DEF Sound, Frames, FrameOK, NoFrame, Activation
  <2>3. \A t \in Thread : op[t].at # "none" => op[t].i \in 0..Len(items) /\ op[t].other \in 0..Len(items)
    BY AtWork DEF OpType
  <2>4. phase.by \in running /\ phase.at \in {"out", "checked", "handled"}
    BY DEF Sound, Signals
  <2> QED
    BY <2>1, <2>2, <2>3, <2>4 DEF Sound, Signals, Failures, HookerTypeOK
<1> QED
  BY <1>1, HookerSound, PTL

\* The kernel is asked at most once per trapped call, with the registers of
\* the trapped call as long as no callback calls doSyscall twice, on the three
\* architectures of SyscallAsm.
THEOREM KernelAskedOnceHolds == HookerSpec => []KernelAskedOnce
<1>1. Sound => KernelAskedOnce
  <2> SUFFICES ASSUME Sound, NEW t \in Thread, frame[t].at # "app"
               PROVE  /\ Len(frame[t].asked) <= 1
                      /\ failure = "null" => \E u \in Thread : frame[u].at # "app" /\ frame[u].asked # <<>>
                      /\ ~frame[t].again => \A regs \in ToSet(frame[t].asked) : regs = Context(frame[t].call)
    BY DEF KernelAskedOnce
  <2> DEFINE a == frame[t].asked
  <2>1. (a = <<>> \/ a = <<a[1]>>) /\ (~frame[t].again /\ a # <<>> => a[1] = Context(frame[t].call))
    BY InHandler, ContextHeld DEF Kept
  <2>2. Len(a) <= 1 /\ ToSet(a) \subseteq {a[1]} /\ (a = <<>> => ToSet(a) = {})
    <3> HIDE DEF a
    <3>1. CASE a = <<>>
      BY <3>1 DEF ToSet
    <3>2. CASE a = <<a[1]>>
      BY <3>2 DEF ToSet
    <3> QED
      BY <2>1, <3>1, <3>2
  <2>3. failure = "null" => \E u \in Thread : frame[u].at # "app" /\ frame[u].asked # <<>>
    BY DEF Sound
  <2> HIDE DEF a
  <2> QED
    BY <2>1, <2>2, <2>3 DEF a
<1> QED
  BY <1>1, HookerSound, PTL

-----------------------------------------------------------------------------
(***************************************************************************)
(* What the filter of the hook says.                                       *)
(***************************************************************************)
RangeType == [start : Nat, end : Nat]

\* The calls a section of the filter lets through.
Passed(r, ip) ==
    High(ip) = High(r.start) /\ Low(r.start) <= Low(ip) /\ Low(ip) < Low(r.end)

LEMMA PassedIsWithin ==
    ASSUME NEW r \in RangeType, NEW ip \in Nat, Passed(r, ip), r.start < r.end
    PROVE  r.start <= ip /\ ip < r.end
<1>1. r.start \in Nat /\ r.end \in Nat
  BY DEF RangeType
<1>2. r.start <= ip
  BY <1>1, LowOrders DEF Passed
<1>3. High(r.start) <= High(r.end)
  BY <1>1, HighOrders
<1>4. ASSUME r.end <= ip
      PROVE  FALSE
  <2>1. High(r.end) <= High(ip)
    BY <1>1, <1>4, HighOrders
  <2>2. High(r.end) = High(ip)
    BY <1>1, <1>3, <2>1, WordParts DEF Passed
  <2>3. Low(r.end) <= Low(ip)
    BY <1>1, <1>4, <2>2, LowOrders
  <2> QED
    BY <1>1, <2>3, WordParts DEF Passed
<1> QED
  BY <1>1, <1>2, <1>4

LEMMA WithinIsPassed ==
    ASSUME NEW r \in RangeType, NEW ip \in Nat, High(r.start) = High(r.end),
           r.start <= ip, ip < r.end
    PROVE  Passed(r, ip)
<1>1. r.start \in Nat /\ r.end \in Nat
  BY DEF RangeType
<1>2. High(r.start) <= High(ip) /\ High(ip) <= High(r.end)
  BY <1>1, HighOrders
<1>3. High(ip) = High(r.start)
  BY <1>1, <1>2, WordParts
<1>4. Low(r.start) <= Low(ip)
  BY <1>1, <1>3, LowOrders
<1>5. ~(Low(r.end) <= Low(ip))
  BY <1>1, <1>3, LowOrders
<1> QED
  BY <1>1, <1>3, <1>4, <1>5, WordParts DEF Passed

\* The section of a library: the call goes through, or to what comes next.
LEMMA RangeSays ==
    ASSUME NEW prog \in Seq(Insns), NEW nr, NEW ip \in Nat, NEW run,
           Runs(prog, SeccompData(nr, ip), run), NEW r \in RangeType, NEW arch, arch # "arm",
           NEW b \in Seq(Insns), NEW k, Rests(prog, k, doInitSyscallLibFilterByAddr(arch, r) \o b),
           NEW v, SaysAt(prog, run, k + 6, v)
    PROVE  SaysAt(prog, run, k, IF Passed(r, ip) THEN "allow" ELSE v)
<1> DEFINE a == doInitSyscallLibFilterByAddr(arch, r)
           data == SeccompData(nr, ip)
<1>1. /\ High(r.start) \in Int /\ Low(r.start) \in Int /\ Low(r.end) \in Int /\ Low(ip) \in Int
  BY WordParts DEF RangeType
<1>2. a = <<Load("ip_high"), Jump("jeq", High(r.start), 0, 4), Load("ip"),
            Jump("jge", Low(r.start), 0, 2), Jump("jge", Low(r.end), 1, 0), Ret("allow")>>
  BY DEF doInitSyscallLibFilterByAddr
<1>3. a \in Seq(Insns) /\ Len(a) = 6
  <2>1. /\ Load("ip_high") \in Insns /\ Load("ip") \in Insns /\ Ret("allow") \in Insns
        /\ Jump("jeq", High(r.start), 0, 4) \in Insns /\ Jump("jge", Low(r.start), 0, 2) \in Insns
        /\ Jump("jge", Low(r.end), 1, 0) \in Insns
    BY <1>1, InsnsMade
  <2> HIDE DEF a
  <2> QED
    BY <1>2, <2>1
<1> HIDE DEF a
<1>4. k \in Nat \ {0}
  BY DEF Rests
<1>5. \A n \in 1..6 : k - 1 + n \in DOMAIN prog /\ prog[k - 1 + n] = a[n]
  <2>1. Rests(prog, k, a \o b)
    BY DEF a
  <2>2. GoesOn(prog, k, a)
    BY <1>3, <2>1, RestsThen
  <2> QED
    BY <1>3, <2>2 DEF GoesOn
<1>6. /\ k \in DOMAIN prog /\ k + 1 \in DOMAIN prog /\ k + 2 \in DOMAIN prog
      /\ k + 3 \in DOMAIN prog /\ k + 4 \in DOMAIN prog /\ k + 5 \in DOMAIN prog
      /\ prog[k] = Load("ip_high")
      /\ prog[k + 1] = Jump("jeq", High(r.start), 0, 4)
      /\ prog[k + 2] = Load("ip")
      /\ prog[k + 3] = Jump("jge", Low(r.start), 0, 2)
      /\ prog[k + 4] = Jump("jge", Low(r.end), 1, 0)
      /\ prog[k + 5] = Ret("allow")
  <2>1. \A n \in 0..5 : k + n \in DOMAIN prog /\ prog[k + n] = a[n + 1]
    <3> SUFFICES ASSUME NEW n \in 0..5 PROVE k + n \in DOMAIN prog /\ prog[k + n] = a[n + 1]
      OBVIOUS
    <3>1. n + 1 \in 1..6 /\ k - 1 + (n + 1) = k + n
      BY <1>4
    <3> QED
      BY <1>5, <3>1
  <2>2. k + 0 = k
    BY <1>4
  <2> QED
    BY <1>2, <2>1, <2>2
<1>7. data["ip"] = Low(ip) /\ data["ip_high"] = High(ip)
  BY DEF SeccompData
<1>r. Runs(prog, data, run)
  OBVIOUS
<1> HIDE DEF data
<1>8. SaysAt(prog, run, k + 5, "allow")
  BY <1>6, <1>r, RetSays
<1>9. ASSUME NEW l \in Points(prog)
      PROVE  run[k][l] = IF Passed(r, ip) THEN "allow" ELSE v
  <2>1. run[k][l] = run[k + 1][k] /\ prog[k].field = "ip_high" /\ k \in Points(prog)
    BY <1>6, <1>r, LoadSays
  <2>2. run[k + 1][k] = IF High(ip) = High(r.start) THEN run[k + 2][k] ELSE run[k + 6][k]
    <3>1. EqGoes(data, run, k + 1, k, "ip_high", High(r.start), 0, 4)
      BY <1>6, <1>r, <2>1, EqSays
    <3>2. (k + 1) + 1 + 0 = k + 2 /\ (k + 1) + 1 + 4 = k + 6
      BY <1>4
    <3> QED
      BY <1>7, <3>1, <3>2 DEF EqGoes
  <2>3. run[k + 6][k] = v /\ run[k + 6][k + 2] = v /\ run[k + 5][k + 2] = "allow"
    BY <1>6, <1>8 DEF SaysAt, Points
  <2>4. run[k + 2][k] = run[k + 3][k + 2] /\ prog[k + 2].field = "ip" /\ k + 2 \in Points(prog)
    <3>1. run[k + 2][k] = run[(k + 2) + 1][k + 2] /\ prog[k + 2].field = "ip"
          /\ k + 2 \in Points(prog)
      BY <1>6, <2>1, <1>r, LoadSays
    <3>2. (k + 2) + 1 = k + 3
      BY <1>4
    <3> QED
      BY <3>1, <3>2
  <2>5. run[k + 3][k + 2] = IF Low(ip) >= Low(r.start) THEN run[k + 4][k + 2] ELSE v
    <3>1. GeGoes(data, run, k + 3, k + 2, "ip", Low(r.start), 0, 2)
      BY <1>6, <1>r, <2>4, GeSays
    <3>2. (k + 3) + 1 + 0 = k + 4 /\ (k + 3) + 1 + 2 = k + 6
      BY <1>4
    <3> QED
      BY <1>7, <2>3, <3>1, <3>2 DEF GeGoes
  <2>6. run[k + 4][k + 2] = IF Low(ip) >= Low(r.end) THEN v ELSE "allow"
    <3>1. GeGoes(data, run, k + 4, k + 2, "ip", Low(r.end), 1, 0)
      BY <1>6, <1>r, <2>4, GeSays
    <3>2. (k + 4) + 1 + 1 = k + 6 /\ (k + 4) + 1 + 0 = k + 5
      BY <1>4
    <3> QED
      BY <1>7, <2>3, <3>1, <3>2 DEF GeGoes
  <2> QED
    BY <1>1, <2>1, <2>2, <2>3, <2>4, <2>5, <2>6 DEF Passed
<1> QED
  BY <1>6, <1>9 DEF SaysAt

\* finder lets the call at ip through, because it is made in lib.
Lets(mode, finder, lib, ip) ==
    lib \in mode /\ finder[lib].start < finder[lib].end /\ Passed(finder[lib], ip)

LEMMA RangeInsns ==
    ASSUME NEW r \in RangeType, NEW arch, arch # "arm"
    PROVE  LET a == doInitSyscallLibFilterByAddr(arch, r)
           IN  a \in Seq(Insns) /\ Len(a) = 6
<1> DEFINE a == doInitSyscallLibFilterByAddr(arch, r)
<1>1. High(r.start) \in Int /\ Low(r.start) \in Int /\ Low(r.end) \in Int
  BY WordParts DEF RangeType
<1>2. a = <<Load("ip_high"), Jump("jeq", High(r.start), 0, 4), Load("ip"),
            Jump("jge", Low(r.start), 0, 2), Jump("jge", Low(r.end), 1, 0), Ret("allow")>>
  BY DEF doInitSyscallLibFilterByAddr
<1>3. /\ Load("ip_high") \in Insns /\ Load("ip") \in Insns /\ Ret("allow") \in Insns
      /\ Jump("jeq", High(r.start), 0, 4) \in Insns /\ Jump("jge", Low(r.start), 0, 2) \in Insns
      /\ Jump("jge", Low(r.end), 1, 0) \in Insns
  BY <1>1, InsnsMade
<1> HIDE DEF a
<1>4. a \in Seq(Insns) /\ Len(a) = 6
  BY <1>2, <1>3
<1> QED
  BY <1>4 DEF a

LEMMA LibInsns ==
    ASSUME NEW arch, arch # "arm", NEW mode, NEW finder, NEW lib, finder[lib] \in RangeType
    PROVE  LET a == LibFilter(arch, mode, finder, lib)
           IN  a \in Seq(Insns) /\ Len(a) \in {0, 6}
  BY RangeInsns DEF LibFilter

\* The section of a library that may be ignored.
LEMMA LibSays ==
    ASSUME NEW prog \in Seq(Insns), NEW nr, NEW ip \in Nat, NEW run,
           Runs(prog, SeccompData(nr, ip), run), NEW arch, arch # "arm", NEW mode,
           NEW finder, NEW lib, finder[lib] \in RangeType, NEW b \in Seq(Insns),
           NEW k, Rests(prog, k, LibFilter(arch, mode, finder, lib) \o b),
           NEW v, SaysAt(prog, run, k + Len(LibFilter(arch, mode, finder, lib)), v)
    PROVE  SaysAt(prog, run, k, IF Lets(mode, finder, lib, ip) THEN "allow" ELSE v)
<1> DEFINE a == LibFilter(arch, mode, finder, lib)
           r == finder[lib]
<1>1. CASE lib \in mode /\ r.start < r.end
  <2>1. a = doInitSyscallLibFilterByAddr(arch, r)
    BY <1>1 DEF LibFilter
  <2>0. Len(a) = 6
    BY <2>1, RangeInsns
  <2> HIDE DEF a
  <2>2. SaysAt(prog, run, k + 6, v)
    BY <2>0 DEF a
  <2>3. Rests(prog, k, doInitSyscallLibFilterByAddr(arch, r) \o b)
    BY <2>1 DEF a
  <2>4. SaysAt(prog, run, k, IF Passed(r, ip) THEN "allow" ELSE v)
    BY <2>2, <2>3, RangeSays
  <2> QED
    BY <1>1, <2>4 DEF Lets
<1>2. CASE ~(lib \in mode /\ r.start < r.end)
  <2>1. a = <<>>
    BY <1>2 DEF LibFilter
  <2>2. k \in Nat
    BY DEF Rests
  <2>3. Len(a) = 0 /\ k + Len(a) = k
    BY <2>1, <2>2
  <2> QED
    BY <1>2, <2>3 DEF Lets
<1> QED
  BY <1>1, <1>2

\* The numbers the filter is for.
Chosen(arch, nr) == nr \in {NR(arch).openat, NR(arch).prctl, NR(arch).rt_sigaction}

LEMMA NumberInsns ==
    ASSUME NEW arch \in {"aarch64", "x86_64"}
    PROVE  LET a == doInitSyscallNumberFilter(arch)
           IN  /\ a \in Seq(Insns) /\ Len(a) = 5
               /\ a[1] = Load("nr") /\ a[2] = Jump("jeq", NR(arch).openat, 3, 0)
               /\ a[3] = Jump("jeq", NR(arch).prctl, 2, 0)
               /\ a[4] = Jump("jeq", NR(arch).rt_sigaction, 1, 0) /\ a[5] = Ret("allow")
<1> DEFINE x == Load("nr")
           p == Jump("jeq", NR(arch).openat, 3, 0)
           q == Jump("jeq", NR(arch).prctl, 2, 0)
           y == Jump("jeq", NR(arch).rt_sigaction, 1, 0)
           z == Ret("allow")
           a == doInitSyscallNumberFilter(arch)
<1>1. NR(arch).openat \in Int /\ NR(arch).prctl \in Int /\ NR(arch).rt_sigaction \in Int
  BY DEF NR, NR_arm64, NR_x86_64
<1>2. x \in Insns /\ p \in Insns /\ q \in Insns /\ y \in Insns /\ z \in Insns
  BY <1>1, InsnsMade
<1>3. a = <<x>> \o <<>> \o <<p, q, y, z>>
  BY DEF doInitSyscallNumberFilter
<1> HIDE DEF x, p, q, y, z, a
<1>4. <<x>> \o <<>> = <<x>>
  OBVIOUS
<1>5. /\ a \in Seq(Insns) /\ Len(a) = 5
      /\ a[1] = x /\ a[2] = p /\ a[3] = q /\ a[4] = y /\ a[5] = z
  BY <1>2, <1>3, <1>4
<1> QED
  BY <1>5 DEF x, p, q, y, z, a

LEMMA NumberSays ==
    ASSUME NEW prog \in Seq(Insns), NEW nr, NEW ip \in Nat, NEW run,
           Runs(prog, SeccompData(nr, ip), run), NEW arch \in {"aarch64", "x86_64"},
           NEW b \in Seq(Insns), Rests(prog, 1, doInitSyscallNumberFilter(arch) \o b),
           NEW v, SaysAt(prog, run, 6, v)
    PROVE  run[1][0] = IF Chosen(arch, nr) THEN v ELSE "allow"
<1> DEFINE a == doInitSyscallNumberFilter(arch)
           data == SeccompData(nr, ip)
<1>1. /\ a \in Seq(Insns) /\ Len(a) = 5
      /\ a[1] = Load("nr") /\ a[2] = Jump("jeq", NR(arch).openat, 3, 0)
      /\ a[3] = Jump("jeq", NR(arch).prctl, 2, 0)
      /\ a[4] = Jump("jeq", NR(arch).rt_sigaction, 1, 0) /\ a[5] = Ret("allow")
  BY NumberInsns
<1>r. Runs(prog, data, run) /\ Rests(prog, 1, a \o b)
  OBVIOUS
<1>7. data["nr"] = nr
  BY DEF SeccompData
<1> HIDE DEF a, data
<1>2. GoesOn(prog, 1, a)
  BY <1>1, <1>r, RestsThen
<1>3. Len(a) = 5 /\ \A n \in 1..5 : 1 - 1 + n = n
  BY <1>1
<1>4. \A n \in 1..5 : n \in DOMAIN prog /\ prog[n] = a[n]
  BY <1>2, <1>3 DEF GoesOn
<1>5. /\ 1 \in DOMAIN prog /\ 2 \in DOMAIN prog /\ 3 \in DOMAIN prog /\ 4 \in DOMAIN prog
      /\ 5 \in DOMAIN prog
      /\ prog[1] = Load("nr") /\ prog[2] = Jump("jeq", NR(arch).openat, 3, 0)
      /\ prog[3] = Jump("jeq", NR(arch).prctl, 2, 0)
      /\ prog[4] = Jump("jeq", NR(arch).rt_sigaction, 1, 0) /\ prog[5] = Ret("allow")
  BY <1>1, <1>4
<1>6. 0 \in Points(prog) /\ 1 \in Points(prog)
  BY <1>5 DEF Points
<1>8. run[1][0] = run[1 + 1][1] /\ prog[1].field = "nr"
  BY <1>5, <1>6, <1>r, LoadSays
<1>9. /\ EqGoes(data, run, 2, 1, "nr", NR(arch).openat, 3, 0)
      /\ EqGoes(data, run, 3, 1, "nr", NR(arch).prctl, 2, 0)
      /\ EqGoes(data, run, 4, 1, "nr", NR(arch).rt_sigaction, 1, 0)
  BY <1>5, <1>6, <1>8, <1>r, EqSays
<1>10. run[6][1] = v /\ run[5][1] = "allow"
  <2>1. SaysAt(prog, run, 5, "allow")
    BY <1>5, <1>r, RetSays
  <2> QED
    BY <1>6, <2>1 DEF SaysAt
<1> QED
  BY <1>7, <1>8, <1>9, <1>10 DEF EqGoes, Chosen

FinderType == [Libs -> RangeType]

\* The calls the filter traps.
Traps(arch, mode, finder, nr, ip) ==
    /\ Chosen(arch, nr) /\ ~Passed(finder["self"], ip)
    /\ \A lib \in {"vdso", "libc", "linker"} : ~Lets(mode, finder, lib, ip)

LEMMA VerdictIs ==
    ASSUME NEW arch \in {"aarch64", "x86_64"}, NEW mode, NEW finder \in FinderType,
           Accepted(SvcerProgram(arch, mode, finder)), NEW nr, NEW ip \in Nat
    PROVE  Verdict(SvcerProgram(arch, mode, finder), SeccompData(nr, ip)) = "trap"
           <=> Traps(arch, mode, finder, nr, ip)
<1> DEFINE prog == SvcerProgram(arch, mode, finder)
           num == doInitSyscallNumberFilter(arch)
           self == doInitSyscallLibFilterByAddr(arch, finder["self"])
           lv == LibFilter(arch, mode, finder, "vdso")
           lc == LibFilter(arch, mode, finder, "libc")
           ll == LibFilter(arch, mode, finder, "linker")
           e == <<Ret("trap")>>
           d == ll \o e
           c == lc \o d
           b == lv \o c
           a == self \o b
<1>1. /\ finder["self"] \in RangeType /\ finder["vdso"] \in RangeType
      /\ finder["libc"] \in RangeType /\ finder["linker"] \in RangeType /\ arch # "arm"
  BY DEF FinderType, Libs
<1>2. prog = num \o a
  BY DEF SvcerProgram, doInitSyscallLibFilter
<1>3. num \in Seq(Insns) /\ Len(num) = 5
  BY NumberInsns
<1>4. self \in Seq(Insns) /\ Len(self) = 6
  BY <1>1, RangeInsns
<1>5. lv \in Seq(Insns) /\ lc \in Seq(Insns) /\ ll \in Seq(Insns)
  BY <1>1, LibInsns
<1>6. e \in Seq(Insns) /\ Len(e) = 1 /\ e[1] = Ret("trap")
  BY InsnsMade
<1>7. d \in Seq(Insns)
  <2> HIDE DEF ll, e
  <2> QED
    BY <1>5, <1>6
<1> HIDE DEF d
<1>8. c \in Seq(Insns)
  <2> HIDE DEF lc
  <2> QED
    BY <1>5, <1>7
<1> HIDE DEF c
<1>9. b \in Seq(Insns)
  <2> HIDE DEF lv
  <2> QED
    BY <1>5, <1>8
<1> HIDE DEF b
<1>10. a \in Seq(Insns)
  <2> HIDE DEF self
  <2> QED
    BY <1>4, <1>9
<1> HIDE DEF a, num
<1>11. prog \in Seq(Insns) /\ Rests(prog, 1, num \o a)
  <2> HIDE DEF prog
  <2>1. prog \in Seq(Insns)
    BY <1>2, <1>3, <1>10
  <2>2. Rests(prog, 1, prog)
    BY <2>1 DEF Rests
  <2> QED
    BY <1>2, <2>1, <2>2
<1> DEFINE data == SeccompData(nr, ip)
<1>12. PICK run : Runs(prog, data, run) /\ Verdict(prog, data) = run[1][0]
  BY <1>11, VerdictRuns
<1> HIDE DEF prog
<1>13. Rests(prog, 6, a)
  <2>1. Rests(prog, 1 + Len(num), a)
    BY <1>3, <1>10, <1>11, RestsThen
  <2>2. 1 + Len(num) = 6
    BY <1>3
  <2> QED
    BY <2>1, <2>2
<1>14. Rests(prog, 12, b)
  <2>1. Rests(prog, 6, self \o b)
    BY <1>13 DEF a
  <2> HIDE DEF self
  <2>2. Rests(prog, 6 + Len(self), b)
    BY <1>4, <1>9, <1>11, <2>1, RestsThen
  <2>3. 6 + Len(self) = 12
    BY <1>4
  <2> QED
    BY <2>2, <2>3
<1> DEFINE k3 == 12 + Len(lv)
           k4 == k3 + Len(lc)
           k5 == k4 + Len(ll)
<1>15. Rests(prog, 12, lv \o c) /\ Rests(prog, k3, c)
  <2>1. Rests(prog, 12, lv \o c)
    BY <1>14 DEF b
  <2> HIDE DEF lv
  <2> QED
    BY <1>5, <1>8, <1>11, <2>1, RestsThen
<1> HIDE DEF k3
<1>16. Rests(prog, k3, lc \o d) /\ Rests(prog, k4, d)
  <2>1. Rests(prog, k3, lc \o d)
    BY <1>15 DEF c
  <2> HIDE DEF lc
  <2> QED
    BY <1>5, <1>7, <1>11, <2>1, RestsThen
<1> HIDE DEF k4
<1>17. Rests(prog, k4, ll \o e) /\ Rests(prog, k5, e)
  <2>1. Rests(prog, k4, ll \o e)
    BY <1>16 DEF d
  <2> HIDE DEF ll, e
  <2> QED
    BY <1>5, <1>6, <1>11, <2>1, RestsThen
<1> HIDE DEF k5, e
<1>18. SaysAt(prog, run, k5, "trap")
  <2>1. k5 \in DOMAIN prog /\ prog[k5] = Ret("trap")
    <3>1. k5 \in Nat \ {0} /\ Len(prog) = k5 - 1 + 1 /\ prog[k5 - 1 + 1] = e[1]
      BY <1>6, <1>17 DEF Rests
    <3> QED
      BY <1>6, <1>11, <3>1
  <2> QED
    BY <1>12, <2>1, RetSays
<1> DEFINE v4 == IF Lets(mode, finder, "linker", ip) THEN "allow" ELSE "trap"
           v3 == IF Lets(mode, finder, "libc", ip) THEN "allow" ELSE v4
           v2 == IF Lets(mode, finder, "vdso", ip) THEN "allow" ELSE v3
           v1 == IF Passed(finder["self"], ip) THEN "allow" ELSE v2
<1>19. SaysAt(prog, run, k4, v4)
  BY <1>1, <1>6, <1>11, <1>12, <1>17, <1>18, LibSays DEF k5
<1> HIDE DEF v4
<1>20. SaysAt(prog, run, k3, v3)
  BY <1>1, <1>7, <1>11, <1>12, <1>16, <1>19, LibSays DEF k4
<1> HIDE DEF v3
<1>21. SaysAt(prog, run, 12, v2)
  BY <1>1, <1>8, <1>11, <1>12, <1>15, <1>20, LibSays DEF k3
<1> HIDE DEF v2
<1>22. SaysAt(prog, run, 6, v1)
  <2>1. SaysAt(prog, run, 6 + 6, v2)
    BY <1>21
  <2> QED
    BY <1>1, <1>9, <1>11, <1>12, <1>13, <2>1, RangeSays DEF a
<1> HIDE DEF v1
<1>23. run[1][0] = IF Chosen(arch, nr) THEN v1 ELSE "allow"
  BY <1>10, <1>11, <1>12, <1>22, NumberSays DEF num
<1>24. v1 = "trap" <=> /\ ~Passed(finder["self"], ip)
                       /\ \A lib \in {"vdso", "libc", "linker"} : ~Lets(mode, finder, lib, ip)
  BY DEF v1, v2, v3, v4
<1> QED
  BY <1>12, <1>23, <1>24 DEF Traps, prog

LEMMA ArmInsns ==
    ASSUME NEW r \in RangeType
    PROVE  LET a == doInitSyscallLibFilterByAddr("arm", r)
           IN  a \in Seq(Insns) /\ Len(a) = 4
<1> DEFINE a == doInitSyscallLibFilterByAddr("arm", r)
<1>1. r.start \in Int /\ r.end \in Int
  BY DEF RangeType
<1>2. a = <<Load("ip"), Jump("jge", r.start, 0, 2), Jump("jge", r.end, 1, 0), Ret("allow")>>
  BY DEF doInitSyscallLibFilterByAddr
<1>3. /\ Load("ip") \in Insns /\ Ret("allow") \in Insns
      /\ Jump("jge", r.start, 0, 2) \in Insns /\ Jump("jge", r.end, 1, 0) \in Insns
  BY <1>1, InsnsMade
<1> HIDE DEF a
<1>4. a \in Seq(Insns) /\ Len(a) = 4
  BY <1>2, <1>3
<1> QED
  BY <1>4 DEF a

LEMMA ArmLibInsns ==
    ASSUME NEW mode, NEW finder, NEW lib, finder[lib] \in RangeType
    PROVE  LET a == LibFilter("arm", mode, finder, lib)
           IN  a \in Seq(Insns) /\ Len(a) <= 4
<1> DEFINE a == LibFilter("arm", mode, finder, lib)
           r == finder[lib]
<1>1. CASE lib \in mode /\ r.start < r.end
  <2>1. a = doInitSyscallLibFilterByAddr("arm", r)
    BY <1>1 DEF LibFilter
  <2> DEFINE b == doInitSyscallLibFilterByAddr("arm", r)
  <2>2. b \in Seq(Insns) /\ Len(b) = 4
    BY ArmInsns
  <2> HIDE DEF b
  <2>3. Len(b) <= 4
    BY <2>2
  <2> QED
    BY <2>1, <2>2, <2>3 DEF b
<1>2. CASE ~(lib \in mode /\ r.start < r.end)
  <2>1. a = <<>>
    BY <1>2 DEF LibFilter
  <2> HIDE DEF a
  <2>2. a \in Seq(Insns) /\ Len(a) <= 4
    BY <2>1
  <2> QED
    BY <2>2 DEF a
<1> QED
  BY <1>1, <1>2

LEMMA Joined ==
    ASSUME NEW a \in Seq(Insns), NEW b \in Seq(Insns)
    PROVE  a \o b \in Seq(Insns) /\ Len(a \o b) = Len(a) + Len(b) /\ Len(a) \in Nat /\ Len(b) \in Nat
  OBVIOUS

LEMMA JoinedFirst ==
    ASSUME NEW a \in Seq(Insns), NEW b \in Seq(Insns), NEW n \in 1..Len(a)
    PROVE  (a \o b)[n] = a[n]
  OBVIOUS

\* On 32-bit ARM the jump of __NR_open leaves the filter, and the kernel
\* refuses it.
LEMMA ArmIsRefused ==
    ASSUME NEW mode, NEW finder \in FinderType
    PROVE  ~Accepted(SvcerProgram("arm", mode, finder))
<1> DEFINE prog == SvcerProgram("arm", mode, finder)
           num == doInitSyscallNumberFilter("arm")
           self == doInitSyscallLibFilterByAddr("arm", finder["self"])
           lv == LibFilter("arm", mode, finder, "vdso")
           lc == LibFilter("arm", mode, finder, "libc")
           ll == LibFilter("arm", mode, finder, "linker")
           e == <<Ret("trap")>>
           x == Load("nr")
           j == Jump("jeq", NR("arm").open, 21, 1)
           p == Jump("jeq", NR("arm").openat, 3, 0)
           q == Jump("jeq", NR("arm").prctl, 2, 0)
           y == Jump("jeq", NR("arm").rt_sigaction, 1, 0)
           z == Ret("allow")
<1>1. /\ finder["self"] \in RangeType /\ finder["vdso"] \in RangeType
      /\ finder["libc"] \in RangeType /\ finder["linker"] \in RangeType
  BY DEF FinderType, Libs
<1>2. prog = num \o (self \o (lv \o (lc \o (ll \o e))))
  BY DEF SvcerProgram, doInitSyscallLibFilter
<1>3. num = <<x>> \o <<j>> \o <<p, q, y, z>>
  BY DEF doInitSyscallNumberFilter
<1>4. /\ NR("arm").open \in Int /\ NR("arm").openat \in Int /\ NR("arm").prctl \in Int
      /\ NR("arm").rt_sigaction \in Int
  BY DEF NR, NR_arm
<1>5. /\ x \in Insns /\ j \in Insns /\ p \in Insns /\ q \in Insns /\ y \in Insns /\ z \in Insns
      /\ e \in Seq(Insns) /\ Len(e) = 1
  BY <1>4, InsnsMade
<1>6. self \in Seq(Insns) /\ Len(self) = 4
  BY <1>1, ArmInsns
<1>7. /\ lv \in Seq(Insns) /\ Len(lv) <= 4 /\ lc \in Seq(Insns) /\ Len(lc) <= 4
      /\ ll \in Seq(Insns) /\ Len(ll) <= 4
  BY <1>1, ArmLibInsns
<1>8. IsJump(j) /\ j.jt = 21
  BY DEF Jump, IsJump
<1> HIDE DEF prog, num, self, lv, lc, ll, e, x, j, p, q, y, z
<1>9. num \in Seq(Insns) /\ Len(num) = 6 /\ num[2] = j
  BY <1>3, <1>5
<1> DEFINE d == ll \o e
           c == lc \o d
           b == lv \o c
           a == self \o b
<1>10. d \in Seq(Insns) /\ Len(d) = Len(ll) + 1
  BY <1>5, <1>7, Joined
<1> HIDE DEF d
<1>11. c \in Seq(Insns) /\ Len(c) = Len(lc) + Len(d)
  BY <1>7, <1>10
<1> HIDE DEF c
<1>12. b \in Seq(Insns) /\ Len(b) = Len(lv) + Len(c)
  BY <1>7, <1>11, Joined
<1> HIDE DEF b
<1>13. a \in Seq(Insns) /\ Len(a) = 4 + Len(b)
  BY <1>6, <1>12, Joined
<1>14. prog = num \o a
  BY <1>2 DEF b, c, d
<1> HIDE DEF a
<1>18. Len(prog) = 6 + Len(a) /\ prog[2] = j /\ prog \in Seq(Insns)
  <2>1. Len(prog) = 6 + Len(a) /\ prog \in Seq(Insns)
    BY <1>9, <1>13, <1>14, Joined
  <2>2. prog[2] = num[2]
    <3>1. 2 \in 1..Len(num)
      BY <1>9
    <3> QED
      BY <1>9, <1>13, <1>14, <3>1, JoinedFirst
  <2> QED
    BY <1>9, <2>1, <2>2
<1>19. Len(ll) \in Nat /\ Len(lc) \in Nat /\ Len(lv) \in Nat
  BY <1>7
<1>15. Len(prog) <= 23 /\ Len(prog) \in Nat /\ DOMAIN prog = 1..Len(prog) /\ 2 \in DOMAIN prog
       /\ prog[2] = j
  <2>1. Len(prog) <= 23 /\ Len(prog) \in Nat /\ 2 <= Len(prog)
    BY <1>7, <1>10, <1>11, <1>12, <1>13, <1>18, <1>19
  <2> QED
    BY <1>18, <2>1
<1>16. 2 + 1 + 21 \notin DOMAIN prog
  BY <1>15
<1>17. ~Accepted(prog)
  BY <1>8, <1>15, <1>16 DEF Accepted
<1> QED
  BY <1>17 DEF prog

-----------------------------------------------------------------------------
(***************************************************************************)
(* What the finder finds: the span of the lines of each library.           *)
(***************************************************************************)
Addressed(maps) == \A n \in DOMAIN maps : maps[n].start \in 0..MaxAddr /\ maps[n].end \in 0..MaxAddr

\* Among the first k lines.
Spans(maps, k, r, lib) ==
    /\ \A n \in 1..k : maps[n].name = lib => r.start <= maps[n].start /\ maps[n].end <= r.end
    /\ r.start = MaxAddr \/ \E n \in 1..k : maps[n].name = lib /\ maps[n].start = r.start
    /\ r.end = 0 \/ \E n \in 1..k : maps[n].name = lib /\ maps[n].end = r.end

FoundIn(maps, k, finder) ==
    finder \in FinderType /\ \A lib \in Libs : Spans(maps, k, finder[lib], lib)

LEMMA MaxAddrNat == MaxAddr \in Nat
<1>1. Word * Word >= 1
  BY WordAssumption
<1>2. Word * Word \in Int
  BY WordAssumption
<1> QED
  BY <1>1, <1>2 DEF MaxAddr

LEMMA FoundInFirst ==
    ASSUME NEW maps
    PROVE  FoundIn(maps, 0, SvcerFinder)
<1>1. NoRange \in RangeType /\ NoRange.start = MaxAddr /\ NoRange.end = 0
  BY MaxAddrNat DEF NoRange, RangeType
<1>2. \A lib : Spans(maps, 0, NoRange, lib)
  BY <1>1 DEF Spans
<1> QED
  BY <1>1, <1>2 DEF FoundIn, FinderType, SvcerFinder

LEMMA FoundInNext ==
    ASSUME NEW maps \in Seq([name : STRING, start : Int, end : Int]), Addressed(maps),
           NEW k \in Nat, k + 1 \in DOMAIN maps, NEW finder, FoundIn(maps, k, finder)
    PROVE  FoundIn(maps, k + 1, doSearchLine(finder, maps[k + 1]))
<1> DEFINE line == maps[k + 1]
           own == line.name
           old == finder[own]
           low == IF line.start < old.start THEN line.start ELSE old.start
           high == IF line.end > old.end THEN line.end ELSE old.end
           new == [start |-> low, end |-> high]
           next == doSearchLine(finder, line)
<1>1. finder \in FinderType /\ line.start \in 0..MaxAddr /\ line.end \in 0..MaxAddr
  BY DEF FoundIn, Addressed
<1>2. CASE own \in Libs
  <2>1. next = [finder EXCEPT ![own] = new]
    BY <1>2 DEF doSearchLine
  <2>2. old \in RangeType /\ Spans(maps, k, old, own)
    BY <1>1, <1>2 DEF FinderType, FoundIn
  <2>3. low \in Nat /\ high \in Nat /\ low <= old.start /\ low <= line.start /\ old.end <= high
        /\ line.end <= high /\ low \in {line.start, old.start} /\ high \in {line.end, old.end}
        /\ old.start \in Nat /\ old.end \in Nat
    <3>1. old.start \in Nat /\ old.end \in Nat
      BY <2>2 DEF RangeType
    <3>2. line.start \in Nat /\ line.end \in Nat
      BY <1>1, MaxAddrNat
    <3> HIDE DEF old, line
    <3>3. low \in Nat /\ low <= old.start /\ low <= line.start /\ low \in {line.start, old.start}
      BY <3>1, <3>2
    <3>4. high \in Nat /\ old.end <= high /\ line.end <= high /\ high \in {line.end, old.end}
      BY <3>1, <3>2
    <3> QED
      BY <3>1, <3>3, <3>4
  <2>0. \A n \in DOMAIN maps : maps[n].start \in Int /\ maps[n].end \in Int
    BY MaxAddrNat DEF Addressed
  <2> HIDE DEF low, high
  <2>4. new \in RangeType /\ new.start = low /\ new.end = high
    BY <2>3 DEF RangeType
  <2> HIDE DEF new
  <2>k. DOMAIN maps = 1..Len(maps) /\ Len(maps) \in Nat
    OBVIOUS
  <2>5. ASSUME NEW n \in 1..(k + 1), maps[n].name = own
        PROVE  low <= maps[n].start /\ maps[n].end <= high
    <3>0. n \in DOMAIN maps
      BY <2>k
    <3>1. CASE n = k + 1
      BY <2>3, <3>1
    <3>2. CASE n # k + 1
      <4>1. n \in 1..k
        BY <3>2
      <4>2. old.start <= maps[n].start /\ maps[n].end <= old.end
        BY <2>2, <2>5, <4>1 DEF Spans
      <4> QED
        <5> HIDE DEF old, line
        <5>1. maps[n].start \in Int /\ maps[n].end \in Int /\ low \in Int /\ high \in Int
          BY <2>0, <2>3, <3>0
        <5> DEFINE p == maps[n].start
                   q == maps[n].end
                   x == old.start
                   y == old.end
        <5>2. /\ p \in Int /\ q \in Int /\ x \in Int /\ y \in Int
              /\ x <= p /\ q <= y /\ low <= x /\ y <= high
          BY <2>3, <4>2, <5>1
        <5> HIDE DEF p, q, x, y
        <5>3. low <= p /\ q <= high
          BY <5>1, <5>2
        <5> QED
          BY <5>3 DEF p, q
    <3> QED
      BY <3>1, <3>2
  <2>6. low = MaxAddr \/ \E n \in 1..(k + 1) : maps[n].name = own /\ maps[n].start = low
    <3>1. k + 1 \in 1..(k + 1) /\ \A n \in 1..k : n \in 1..(k + 1)
      OBVIOUS
    <3> QED
      BY <2>2, <2>3, <3>1 DEF Spans
  <2>7. high = 0 \/ \E n \in 1..(k + 1) : maps[n].name = own /\ maps[n].end = high
    <3>1. k + 1 \in 1..(k + 1) /\ \A n \in 1..k : n \in 1..(k + 1)
      OBVIOUS
    <3> QED
      BY <2>2, <2>3, <3>1 DEF Spans
  <2>8. Spans(maps, k + 1, new, own)
    BY <2>4, <2>5, <2>6, <2>7 DEF Spans
  <2>9. ASSUME NEW lib \in Libs, lib # own
        PROVE  Spans(maps, k + 1, finder[lib], lib)
    <3>1. Spans(maps, k, finder[lib], lib)
      BY DEF FoundIn
    <3>2. \A n \in 1..(k + 1) : n \in 1..k \/ n = k + 1
      OBVIOUS
    <3>3. \A n \in 1..k : n \in 1..(k + 1)
      OBVIOUS
    <3> QED
      BY <2>9, <3>1, <3>2, <3>3 DEF Spans
  <2>10. next \in FinderType /\ next[own] = new /\ \A lib \in Libs \ {own} : next[lib] = finder[lib]
    BY <1>1, <1>2, <2>1, <2>4 DEF FinderType
  <2> HIDE DEF next, own
  <2>11. \A lib \in Libs : Spans(maps, k + 1, next[lib], lib)
    BY <2>8, <2>9, <2>10
  <2> QED
    BY <2>10, <2>11 DEF FoundIn, next
<1>3. CASE own \notin Libs
  <2>1. next = finder
    BY <1>3 DEF doSearchLine
  <2>2. ASSUME NEW lib \in Libs
        PROVE  Spans(maps, k + 1, finder[lib], lib)
    <3>1. Spans(maps, k, finder[lib], lib)
      BY DEF FoundIn
    <3>2. \A n \in 1..(k + 1) : n \in 1..k \/ n = k + 1
      OBVIOUS
    <3>3. \A n \in 1..k : n \in 1..(k + 1)
      OBVIOUS
    <3> QED
      BY <1>3, <3>1, <3>2, <3>3 DEF Spans
  <2> QED
    BY <1>1, <2>1, <2>2 DEF FoundIn
<1> QED
  BY <1>2, <1>3

LEMMA FoundSpans ==
    ASSUME NEW maps \in Seq([name : STRING, start : Int, end : Int]), Addressed(maps)
    PROVE  FoundIn(maps, Len(maps), found(maps))
<1> DEFINE At(f, n) == IF n = 0 THEN SvcerFinder ELSE doSearchLine(f[n - 1], maps[n])
           Is(f, m) == f = [n \in 0..m |-> At(f, n)]
           l == Len(maps)
<1>0. l \in Nat /\ DOMAIN maps = 1..l
  OBVIOUS
<1>1. ASSUME NEW m \in Nat
      PROVE  \E f : Is(f, m)
  <2> DEFINE N == {k \in Nat : \E f : Is(f, k)}
  <2>1. 0 \in N
    <3>1. Is([n \in 0..0 |-> SvcerFinder], 0)
      OBVIOUS
    <3> QED
      BY <3>1
  <2>2. ASSUME NEW k \in N
        PROVE  k + 1 \in N
    <3>1. PICK f : Is(f, k)
      BY <2>2
    <3> DEFINE g == [n \in 0..(k + 1) |-> IF n = k + 1 THEN doSearchLine(f[k], maps[n]) ELSE f[n]]
    <3>0. k \in Nat /\ \A n \in 0..k : f[n] = At(f, n)
      BY <2>2, <3>1
    <3>2. ASSUME NEW n \in 0..(k + 1)
          PROVE  g[n] = At(g, n)
      <4>1. CASE n = k + 1
        BY <3>0, <4>1
      <4>2. CASE n # k + 1
        <5>1. n \in 0..k /\ (n # 0 => n - 1 \in 0..k)
          BY <3>0, <4>2
        <5>2. g[n] = f[n] /\ (n # 0 => g[n - 1] = f[n - 1])
          BY <3>0, <5>1
        <5> QED
          BY <3>0, <5>1, <5>2
      <4> QED
        BY <4>1, <4>2
    <3>3. Is(g, k + 1)
      <4>1. g = [n \in 0..(k + 1) |-> g[n]]
        OBVIOUS
      <4> HIDE DEF g
      <4> QED
        BY <3>2, <4>1
    <3> HIDE DEF g, Is
    <3> QED
      BY <3>0, <3>3
  <2> HIDE DEF N
  <2>3. N = Nat
    BY <2>1, <2>2, InductionOverNat DEF N
  <2> QED
    BY <2>3 DEF N
<1> DEFINE after == CHOOSE f : Is(f, l)
<1>2. Is(after, l)
  BY <1>0, <1>1
<1>3. found(maps) = after[l]
  BY DEF found
<1> HIDE DEF after, l
<1>4. \A n \in 0..l : after[n] = At(after, n)
  BY <1>2
<1> DEFINE N == {n \in Nat : n <= l => FoundIn(maps, n, after[n])}
<1>5. 0 \in N
  BY <1>0, <1>4, FoundInFirst
<1>6. ASSUME NEW n \in N
      PROVE  n + 1 \in N
  <2>1. SUFFICES ASSUME n + 1 <= l PROVE FoundIn(maps, n + 1, after[n + 1])
    OBVIOUS
  <2>2. FoundIn(maps, n, after[n]) /\ n \in Nat
    BY <1>0, <2>1
  <2>3. after[n + 1] = doSearchLine(after[n], maps[n + 1])
    BY <1>0, <1>4, <2>1, <2>2
  <2>4. n + 1 \in DOMAIN maps
    BY <1>0, <2>1, <2>2
  <2> QED
    BY <2>2, <2>3, <2>4, FoundInNext
<1> HIDE DEF N
<1>7. N = Nat
  BY <1>5, <1>6, InductionOverNat DEF N
<1>8. FoundIn(maps, l, after[l])
  BY <1>0, <1>7 DEF N
<1> QED
  BY <1>3, <1>8 DEF l

\* Covers, of any lines.
CoversIn(maps, lib, ip) ==
    \E n, m \in DOMAIN maps :
        /\ maps[n].name = lib /\ maps[m].name = lib
        /\ maps[n].start <= ip /\ ip < maps[m].end

Within(r, ip) == r.start <= ip /\ ip < r.end

LEMMA FoundCovers ==
    ASSUME NEW maps \in Seq([name : STRING, start : Int, end : Int]), Addressed(maps),
           NEW lib \in Libs, NEW ip \in 0..MaxAddr
    PROVE  Within(found(maps)[lib], ip) <=> CoversIn(maps, lib, ip)
<1> DEFINE r == found(maps)[lib]
<1>1. Spans(maps, Len(maps), r, lib) /\ r \in RangeType
  BY FoundSpans DEF FoundIn, FinderType
<1> HIDE DEF r
<1>2. /\ DOMAIN maps = 1..Len(maps) /\ MaxAddr \in Nat /\ r.start \in Nat /\ r.end \in Nat
      /\ \A n \in DOMAIN maps : /\ maps[n].start \in Int /\ maps[n].start <= MaxAddr
                                /\ maps[n].end \in Int /\ maps[n].end <= MaxAddr
  BY <1>1, MaxAddrNat DEF Addressed, RangeType
<1>3. ASSUME Within(r, ip)
      PROVE  CoversIn(maps, lib, ip)
  <2>1. r.start <= ip /\ ip < r.end
    BY <1>3 DEF Within
  <2>2. PICK m \in DOMAIN maps : maps[m].name = lib /\ maps[m].end = r.end
    <3>1. r.end # 0
      BY <1>2, <2>1
    <3> QED
      BY <1>1, <1>2, <3>1 DEF Spans
  <2>3. r.start # MaxAddr
    BY <1>2, <2>1, <2>2
  <2>4. PICK n \in DOMAIN maps : maps[n].name = lib /\ maps[n].start = r.start
    BY <1>1, <1>2, <2>3 DEF Spans
  <2> QED
    BY <2>1, <2>2, <2>4 DEF CoversIn
<1>4. ASSUME CoversIn(maps, lib, ip)
      PROVE  Within(r, ip)
  <2>1. PICK n \in DOMAIN maps, m \in DOMAIN maps :
            /\ maps[n].name = lib /\ maps[m].name = lib
            /\ maps[n].start <= ip /\ ip < maps[m].end
    BY <1>4 DEF CoversIn
  <2>2. r.start <= maps[n].start /\ maps[m].end <= r.end
    BY <1>1, <1>2, <2>1 DEF Spans
  <2>3. /\ maps[n].start \in Int /\ maps[m].end \in Int /\ r.start \in Int /\ r.end \in Int
        /\ ip \in Int
    BY <1>2
  <2>4. r.start <= ip
    BY <2>1, <2>2, <2>3
  <2>5. ip < r.end
    BY <2>1, <2>2, <2>3
  <2> QED
    BY <2>4, <2>5 DEF Within
<1> QED
  BY <1>3, <1>4 DEF r

-----------------------------------------------------------------------------
(***************************************************************************)
(* The installed filter.                                                   *)
(***************************************************************************)
Built == SvcerProgram(world.arch, world.mode, found(world.maps))

Installed ==
    /\ world \in Worlds
    /\ sInited <=> filter # <<>>
    /\ phase.at # "out" => ~sInited
    /\ phase.at = "handled" => isValid(found(world.maps))
    /\ filter # <<>> => filter = Built /\ Accepted(filter) /\ isValid(found(world.maps))
    /\ filter = <<>> => covered = {} /\ \A t \in Thread : frame[t].at = "app"
    /\ failure = "recursion" => \E nr : Trapped(nr, Own)

LEMMA InstalledInit == HookerInit => Installed
<1> SUFFICES ASSUME HookerInit PROVE Installed
  OBVIOUS
<1>1. phase.at = "out" /\ \A t \in Thread : frame[t].at = "app"
  BY DEF HookerInit, NoFrame
<1> QED
  BY <1>1 DEF HookerInit, Installed

LEMMA SearchFinds ==
    ASSUME NEW sys, initCode(sys) = 0
    PROVE  isValid(found(world.maps))
<1> DEFINE ret == search(world.links, world.maps, world.opened)
<1>1. ret = 0
  BY DEF initCode
<1>2. ~isValid(SvcerFinder)
  <2>1. ~(MaxAddr < 0)
    BY MaxAddrNat
  <2> QED
    BY <2>1 DEF isValid, SvcerFinder, NoRange, Libs
<1>3. doInitSysLibPath(world.links) = 0 /\ world.opened # "no"
  BY <1>1 DEF search
<1>4. isValid(IF world.opened = "read" THEN found(world.maps) ELSE SvcerFinder)
  BY <1>1, <1>3 DEF search
<1> QED
  BY <1>2, <1>4

\* What the steps of a handler change.
LEMMA OriginRecurs ==
    ASSUME NEW t, NEW f, doCallOriginSysCall(t, f), failure = "none"
    PROVE  failure' = "none" \/ (failure' = "recursion" /\ \E nr : Trapped(nr, Own))
  BY DEF doCallOriginSysCall

LEMMA HandlerStaysInstalled ==
    ASSUME Installed, UNCHANGED env, frame' = frame \/ filter # <<>>,
           failure' # "recursion" \/ (\E nr : Trapped(nr, Own))
    PROVE  Installed'
<1>1. UNCHANGED <<world, covered, phase, filter, sInited>>
  BY DEF env
<1>2. (\E nr : Trapped(nr, Own)) => (\E nr : Trapped(nr, Own))'
  BY <1>1 DEF Trapped, Own
<1> QED
  BY <1>1, <1>2 DEF Installed, Built

\* A step of init.
LEMMA InitStaysInstalled ==
    ASSUME Installed, UNCHANGED <<world, covered, filter, sInited, frame, failure>>,
           failure = "none", ~sInited, phase'.at = "handled" => isValid(found(world.maps))
    PROVE  Installed'
  BY DEF Installed, Built

LEMMA initFiltersInstalled ==
    ASSUME Sound, Installed, NEW sys, initFilters(sys)
    PROVE  Installed'
<1> DEFINE code == CASE sys = "sigprocmask"  -> -12
                     [] sys = "no_new_privs" -> -13
                     [] sys = "seccomp"      -> -14
                     [] OTHER -> IF Accepted(Built) THEN 0 ELSE -14
<1>1. /\ UNCHANGED <<world, frame, failure>> /\ failure = "none" /\ phase.at = "handled"
      /\ phase' = [phase EXCEPT !.at = "out"]
      /\ filter' = (IF code = 0 THEN Built ELSE filter) /\ sInited' = (code = 0)
      /\ covered' = (IF code = 0 THEN covered \cup {phase.by} ELSE covered)
  BY DEF initFilters, Built
<1>2. filter = <<>> /\ covered = {} /\ phase'.at = "out" /\ isValid(found(world.maps))
  BY <1>1, initGoesOn DEF Installed
<1>3. CASE code = 0
  <2>1. Accepted(Built)
    BY <1>3
  <2>2. Built # <<>>
    BY <2>1 DEF Accepted
  <2>3. Built' = Built
    BY <1>1 DEF Built
  <2> HIDE DEF code
  <2> QED
    BY <1>1, <1>2, <1>3, <2>1, <2>2, <2>3 DEF Installed
<1>4. CASE code # 0
  <2> HIDE DEF code
  <2> QED
    BY <1>1, <1>2, <1>4 DEF Installed
<1> QED
  BY <1>3, <1>4

LEMMA InstalledNext == Sound /\ Installed /\ [HookerNext]_vars => Installed'
<1> SUFFICES ASSUME Sound, Installed, [HookerNext]_vars PROVE Installed'
  OBVIOUS
<1>1. ASSUME NEW t \in Thread, NEW todo, NEW cb, registers(t, todo, cb) \/ unregisterCallback(t, todo, cb)
      PROVE  Installed'
  <2>1. UNCHANGED env /\ UNCHANGED frame /\ failure' # "recursion"
    BY <1>1 DEF registers, unregisterCallback, Begins, Ready, Goes
  <2> QED
    BY <2>1, HandlerStaysInstalled
<1>2. ASSUME NEW t \in Thread, ListStep(t)
      PROVE  Installed'
  <2>1. UNCHANGED env /\ UNCHANGED frame /\ failure' # "recursion"
    BY <1>2 DEF ListStep, makesArray, readsHead, putsFirst, creates, addNext, linksLast, compares,
                unlinks, putsHead, seeks, matches, deletes, Goes, Fails
  <2> QED
    BY <2>1, HandlerStaysInstalled
<1>3. ASSUME NEW t \in Thread, initChecks(t)
      PROVE  Installed'
  <2>1. /\ UNCHANGED <<world, covered, filter, sInited, frame, failure>> /\ ~sInited /\ failure = "none"
        /\ phase' = phase \/ phase' = [at |-> "checked", by |-> t]
    BY <1>3 DEF initChecks, Ready
  <2>2. phase'.at = "handled" => isValid(found(world.maps))
    BY <2>1 DEF Installed
  <2> QED
    BY <2>1, <2>2, InitStaysInstalled
<1>4. ASSUME NEW sys, initHandles(sys)
      PROVE  Installed'
  <2> DEFINE at == IF initCode(sys) = 0 THEN "handled" ELSE "out"
  <2>1. /\ UNCHANGED <<world, covered, filter, sInited, frame, failure>> /\ phase.at = "checked"
        /\ phase' = [phase EXCEPT !.at = at] /\ failure = "none" /\ at \in {"handled", "out"}
    BY <1>4 DEF initHandles
  <2>2. at = "handled" => isValid(found(world.maps))
    BY SearchFinds
  <2> HIDE DEF at
  <2>3. phase'.at = at
    BY <2>1, initGoesOn
  <2> QED
    BY <2>1, <2>2, <2>3, InitStaysInstalled DEF Installed
<1>5. ASSUME NEW t \in Thread, NEW u \in Thread, Spawn(t, u)
      PROVE  Installed'
  <2>1. /\ UNCHANGED <<world, phase, filter, sInited, frame, failure>> /\ failure = "none"
        /\ covered = {} => covered' = {}
    BY <1>5 DEF Spawn, Ready
  <2> QED
    BY <2>1 DEF Installed, Built
<1>6. ASSUME NEW t \in Thread, NEW call, NEW ip, AppCall(t, call, ip)
      PROVE  Installed'
  <2>1. UNCHANGED env /\ failure' # "recursion" /\ (frame' = frame \/ filter # <<>>)
    BY <1>6, AppCallIs DEF Trapped
  <2> QED
    BY <2>1, HandlerStaysInstalled
<1>7. ASSUME NEW t \in Thread, Dispatch(t)
      PROVE  Installed'
  <2>1. UNCHANGED env /\ failure = "none" /\ filter # <<>>
    BY <1>7 DEF Dispatch, Ready, Installed
  <2>2. failure' # "recursion" \/ (\E nr : Trapped(nr, Own))
    BY <1>7, <2>1, OriginRecurs DEF Dispatch
  <2> QED
    BY <2>1, <2>2, HandlerStaysInstalled
<1>8. ASSUME NEW t \in Thread, Pass(t)
      PROVE  Installed'
  <2>1. UNCHANGED env /\ failure = "none" /\ filter # <<>> /\ doSyscall(t)
    BY <1>8 DEF Pass, Ready, Installed
  <2>2. failure' # "recursion" \/ (\E nr : Trapped(nr, Own))
    BY <2>1, OriginRecurs DEF doSyscall
  <2> QED
    BY <2>1, <2>2, HandlerStaysInstalled
<1>9. ASSUME NEW t \in Thread, Finish(t)
      PROVE  Installed'
  <2>1. UNCHANGED env /\ failure' # "recursion" /\ filter # <<>>
    BY <1>9 DEF Finish, Ready, Installed
  <2> QED
    BY <2>1, HandlerStaysInstalled
<1>10. CASE UNCHANGED vars
  BY <1>10 DEF vars, Installed, Built, Trapped, Own
<1> QED
  BY <1>1, <1>2, <1>3, <1>4, <1>5, <1>6, <1>7, <1>8, <1>9, <1>10, initFiltersInstalled
     DEF HookerNext, registerCallback, addAll

THEOREM HookerInstalled == HookerSpec => []Installed
  BY InstalledInit, InstalledNext, HookerSound, PTL DEF HookerSpec

-----------------------------------------------------------------------------
\* What an installed filter traps.
LEMMA WorldLines ==
    ASSUME Installed
    PROVE  /\ world.maps \in Seq([name : STRING, start : Int, end : Int]) /\ Addressed(world.maps)
           /\ world.mode \subseteq {"vdso", "libc", "linker"}
           /\ world.arch \in {"aarch64", "arm", "x86_64"}
           /\ found(world.maps) \in FinderType
<1>1. /\ world.maps \in Seq([name : STRING, start : Int, end : Int]) /\ Addressed(world.maps)
      /\ world.mode \subseteq {"vdso", "libc", "linker"}
      /\ world.arch \in {"aarch64", "arm", "x86_64"}
  BY HookerAssumption DEF Installed, Mapped, Addressed
<1> QED
  BY <1>1, FoundSpans DEF FoundIn

LEMMA FilterSays ==
    ASSUME Installed, filter # <<>>, NEW nr, NEW ip \in Nat
    PROVE  /\ world.arch \in {"aarch64", "x86_64"}
           /\ Verdict(filter, SeccompData(nr, ip)) = "trap"
              <=> Traps(world.arch, world.mode, found(world.maps), nr, ip)
<1>1. filter = SvcerProgram(world.arch, world.mode, found(world.maps)) /\ Accepted(filter)
  BY DEF Installed, Built
<1>2. world.arch \in {"aarch64", "arm", "x86_64"} /\ found(world.maps) \in FinderType
  BY WorldLines
<1>3. world.arch # "arm"
  BY <1>1, <1>2, ArmIsRefused
<1> QED
  BY <1>1, <1>2, <1>3, VerdictIs

LEMMA PassedIfCovers ==
    ASSUME Installed, NEW lib \in Libs, InOneWindow(found(world.maps)[lib]),
           found(world.maps)[lib].start < found(world.maps)[lib].end, NEW ip \in 0..MaxAddr
    PROVE  Passed(found(world.maps)[lib], ip) <=> Covers(lib, ip)
<1> DEFINE r == found(world.maps)[lib]
<1>1. Within(r, ip) <=> CoversIn(world.maps, lib, ip)
  BY WorldLines, FoundCovers
<1>2. r \in RangeType /\ ip \in Nat
  BY WorldLines DEF FinderType
<1>3. High(r.start) = High(r.end)
  BY MaxAddrNat DEF InOneWindow, NoRange
<1> HIDE DEF r
<1>4. r.start < r.end
  BY DEF r
<1>5. Passed(r, ip) <=> Within(r, ip)
  BY <1>2, <1>3, <1>4, PassedIsWithin, WithinIsPassed DEF Within
<1> QED
  BY <1>1, <1>5 DEF r, Covers, CoversIn

LEMMA ChosenNumbers ==
    ASSUME NEW arch \in {"aarch64", "x86_64"},
           NEW table, table = get_sysnums(IF arch = "aarch64" THEN "arm64" ELSE arch, "DEFAULT").table,
           NEW pr \in DOMAIN table.entries
    PROVE  Chosen(arch, table.entries[pr]) <=> pr \in {"openat", "prctl", "rt_sigaction"}
<1>1. CASE arch = "aarch64"
  BY <1>1 DEF get_sysnums, sysnums_arm64, Table, Chosen, NR, NR_arm64
<1>2. CASE arch = "x86_64"
  BY <1>2 DEF get_sysnums, sysnums_x86_64, Table, Chosen, NR, NR_x86_64
<1> QED
  BY <1>1, <1>2

\* The installed filter traps exactly the three chosen calls made outside the
\* library and the libraries to ignore, for any layout of memory whose
\* libraries stay in one window of 4 GB.
THEOREM FilterExactHolds == HookerSpec => []FilterExact
<1>1. Installed => FilterExact
  <2> DEFINE finder == found(world.maps)
             table == get_sysnums(IF world.arch = "aarch64" THEN "arm64" ELSE world.arch, "DEFAULT").table
  <2> SUFFICES ASSUME Installed, filter # <<>>, \A lib \in Libs : InOneWindow(finder[lib]),
                      NEW pr \in DOMAIN table.entries, NEW ip \in 0..MaxAddr
               PROVE  Verdict(filter, SeccompData(table.entries[pr], ip)) = "trap" <=>
                        /\ pr \in {"openat", "prctl", "rt_sigaction"}
                        /\ \A lib \in {"self"} \cup world.mode : ~Covers(lib, ip)
    BY DEF FilterExact
  <2>1. ip \in Nat /\ world.mode \subseteq {"vdso", "libc", "linker"}
    BY MaxAddrNat, WorldLines
  <2>2. /\ world.arch \in {"aarch64", "x86_64"}
        /\ Verdict(filter, SeccompData(table.entries[pr], ip)) = "trap"
           <=> Traps(world.arch, world.mode, finder, table.entries[pr], ip)
    BY <2>1, FilterSays
  <2>3. Chosen(world.arch, table.entries[pr]) <=> pr \in {"openat", "prctl", "rt_sigaction"}
    <3>1. DOMAIN table.entries = DOMAIN table.entries
      OBVIOUS
    <3> QED
      BY <2>2, ChosenNumbers
  <2> HIDE DEF table
  <2>4. Passed(finder["self"], ip) <=> Covers("self", ip)
    <3>1. finder["self"].start < finder["self"].end
      BY DEF Installed, isValid
    <3> QED
      BY <3>1, PassedIfCovers DEF Libs
  <2>5. ASSUME NEW lib \in {"vdso", "libc", "linker"}
        PROVE  Lets(world.mode, finder, lib, ip) <=> lib \in world.mode /\ Covers(lib, ip)
    <3>0. lib \in Libs
      BY DEF Libs
    <3>1. CASE finder[lib].start < finder[lib].end
      BY <3>0, <3>1, PassedIfCovers DEF Lets
    <3>2. CASE ~(finder[lib].start < finder[lib].end)
      <4>1. Within(finder[lib], ip) <=> CoversIn(world.maps, lib, ip)
        BY <3>0, WorldLines, FoundCovers
      <4>2. finder[lib].start \in Nat /\ finder[lib].end \in Nat
        BY <3>0, WorldLines DEF FinderType, RangeType
      <4> HIDE DEF finder
      <4>3. ~Within(finder[lib], ip)
        BY <2>1, <3>2, <4>2 DEF Within
      <4> QED
        BY <3>2, <4>1, <4>3 DEF Lets, Covers, CoversIn
    <3> QED
      BY <3>1, <3>2
  <2> HIDE DEF finder
  <2>6. Traps(world.arch, world.mode, finder, table.entries[pr], ip) <=>
           /\ pr \in {"openat", "prctl", "rt_sigaction"} /\ ~Covers("self", ip)
           /\ \A lib \in {"vdso", "libc", "linker"} : ~(lib \in world.mode /\ Covers(lib, ip))
    BY <2>3, <2>4, <2>5 DEF Traps
  <2> QED
    BY <2>1, <2>2, <2>6
<1> QED
  BY <1>1, HookerInstalled, PTL

\* A call made by the library itself is trapped only if the library crosses a
\* boundary of 4 GB.
THEOREM NoReentryHolds == HookerSpec => []NoReentry
<1>1. Installed => NoReentry
  <2> DEFINE r == found(world.maps)["self"]
  <2> SUFFICES ASSUME Installed, failure = "recursion", InOneWindow(r) PROVE FALSE
    BY DEF NoReentry
  <2>1. PICK nr : Trapped(nr, Own)
    BY DEF Installed
  <2>2. filter # <<>> /\ Verdict(filter, SeccompData(NR(world.arch)[nr], Own)) = "trap"
    BY <2>1 DEF Trapped
  <2>3. r \in RangeType /\ r.start < r.end /\ Own = r.start
    BY <2>2, WorldLines DEF Installed, isValid, FinderType, Libs, Own
  <2>4. r.start \in Nat /\ r.end \in Nat
    BY <2>3 DEF RangeType
  <2>5. ~Passed(r, r.start)
    BY <2>2, <2>3, <2>4, FilterSays DEF Traps
  <2>6. High(r.start) = High(r.end)
    BY <2>3, MaxAddrNat DEF InOneWindow, NoRange
  <2> HIDE DEF r
  <2>7. Passed(r, r.start)
    BY <2>3, <2>4, <2>6, WithinIsPassed
  <2> QED
    BY <2>5, <2>7
<1> QED
  BY <1>1, HookerInstalled, PTL

-----------------------------------------------------------------------------
(***************************************************************************)
(* While the hook is on guard no call of the app that concerns SIGSYS, and *)
(* no prctl, gets to the kernel: it is trapped, and the handler that has   *)
(* it stays among the items of a shield, which answer it.                  *)
(***************************************************************************)
Hooked == {"rt_sigaction", "prctl"}

Shield(its, heads, S) == Answering(its, S) /\ \A ty \in Types : heads[ty] \in S

Behind(its, S, f) ==
    f.call.nr \in Hooked =>
        /\ f.mItem \in S
        /\ \A k \in DOMAIN f.stack : Behaviour[f.stack[k].cb] # "retry"
        /\ f.stack # <<>> /\ Last(f.stack).calls = 0 => Last(f.stack).cb = its[f.mItem].cb

AllBehind(its, S, fr) == \A t \in Thread : fr[t].at # "app" => Behind(its, S, fr[t])

\* Nothing is in the lists before there is an array of heads.
Arrayed ==
    /\ \A t \in Thread : op[t].at \notin {"none", "array"} => hasArray
    /\ ~hasArray => \A ty \in Types : g_callbacks[ty] = 0

\* The thread that is in init is the only one.
Lonely == phase.at = "handled" /\ running = {phase.by}

\* Who has been shown the hook's handler has been so while it was not on guard.
Unguarded == (sInited /\ ~Guarded) \/ (phase.at = "handled" /\ running # {phase.by})

Intact ==
    /\ Arrayed
    /\ ~sInited => others = {}
    /\ Guarded => kernel_act = "hooker" /\ "prctl" \notin others
    /\ Guarded /\ failure = "none" =>
          \E S : Shield(items, g_callbacks, S) /\ AllBehind(items, S, frame)
    /\ kernel_act = "hooker" => sInited \/ late \/ phase.at = "handled"
    /\ Lonely => kernel_act = "hooker"
    /\ g_default_act = "hooker" => late
    /\ seen => late \/ Unguarded

LEMMA IntactInit == HookerInit => Intact
<1> SUFFICES ASSUME HookerInit PROVE Intact
  OBVIOUS
<1>1. /\ others = {} /\ sInited = FALSE /\ kernel_act = "default" /\ phase.at = "out" /\ seen = FALSE
      /\ g_default_act = "zero" /\ \A t \in Thread : op[t].at = "none"
      /\ \A ty \in Types : g_callbacks[ty] = 0
  BY DEF HookerInit, NoOp
<1>2. Arrayed
  BY <1>1 DEF Arrayed
<1>3. ~Guarded /\ ~Lonely
  BY <1>1 DEF Guarded, Lonely
<1> QED
  BY <1>1, <1>2, <1>3 DEF Intact

-----------------------------------------------------------------------------
\* The steps on the lists.
LEMMA ListIntact ==
    ASSUME Intact, UNCHANGED <<env, signals, frame>>, failure = "none", Arrayed', shielded' => shielded,
           \A S : shielded' /\ failure' = "none" /\ Shield(items, g_callbacks, S)
                  => /\ Shield(items', g_callbacks', S)
                     /\ \A j \in S : items'[j].cb = items[j].cb
    PROVE  Intact'
<1>0. UNCHANGED <<world, running, covered, phase, sInited, late, kernel_act, others, seen, g_default_act>>
  BY DEF env, signals
<1>1. Guarded' => Guarded
  BY <1>0 DEF Guarded
<1>2. ASSUME Guarded', failure' = "none"
      PROVE  (\E S : Shield(items, g_callbacks, S) /\ AllBehind(items, S, frame))'
  <2>1. PICK S : Shield(items, g_callbacks, S) /\ AllBehind(items, S, frame)
    BY <1>1, <1>2 DEF Intact
  <2>2. Shield(items', g_callbacks', S) /\ \A j \in S : items'[j].cb = items[j].cb
    BY <1>2, <2>1 DEF Guarded
  <2>3. AllBehind(items', S, frame)
    BY <2>1, <2>2 DEF AllBehind, Behind
  <2>4. \E z : Shield(items', g_callbacks', z) /\ AllBehind(items', z, frame)
    BY <2>2, <2>3
  <2> QED
    BY <2>4
<1>3. Unguarded => Unguarded'
  BY <1>0, <1>1 DEF Unguarded
<1> QED
  BY <1>0, <1>1, <1>2, <1>3 DEF Intact, Lonely

\* One that writes nothing into the lists.
LEMMA ListStaysIntact ==
    ASSUME Intact, UNCHANGED <<env, signals, frame, items, g_callbacks, shielded>>, failure = "none", Arrayed'
    PROVE  Intact'
  BY ListIntact

LEMMA FillsSays ==
    ASSUME NEW old, Fills(old), shielded'
    PROVE  shielded /\ old = 0
  BY DEF Fills

\* An operation that goes on.
LEMMA ArrayedOn ==
    ASSUME Sound, Intact, NEW t \in Thread, NEW o, Goes(t, o), hasArray => hasArray',
           hasArray' \/ o.at \in {"none", "array"},
           ~hasArray' => g_callbacks' = g_callbacks
    PROVE  Arrayed'
<1>1. \A u \in Thread : op'[u] = IF u = t THEN o ELSE op[u]
  BY DEF Goes, Sound, Ops
<1> QED
  BY <1>1 DEF Intact, Arrayed

LEMMA FailsIntact ==
    ASSUME Intact, failure = "none", NEW how, Fails(how)
    PROVE  Intact'
<1>1. UNCHANGED <<env, signals, frame, items, g_callbacks, shielded, op, hasArray>>
  BY DEF Fails, lists
<1>2. Arrayed'
  BY <1>1 DEF Intact, Arrayed
<1> QED
  BY <1>1, <1>2, ListStaysIntact

\* The next step of a thread at work on a list, which writes nothing into it.
LEMMA StepIntact ==
    ASSUME Sound, Intact, NEW t \in Thread, op[t].at \notin {"none", "array"}, failure = "none",
           NEW o, Goes(t, o), UNCHANGED <<items, hasArray, g_callbacks, shielded>>
    PROVE  Intact'
<1>1. hasArray
  BY DEF Intact, Arrayed
<1>2. Arrayed' /\ UNCHANGED <<env, signals, frame>>
  BY <1>1, ArrayedOn DEF Goes
<1> QED
  BY <1>2, ListStaysIntact

LEMMA registersIntact ==
    ASSUME Sound, Intact, NEW t \in Thread, NEW todo, NEW cb, registers(t, todo, cb)
    PROVE  Intact'
<1> DEFINE o == [Registering(todo, cb) EXCEPT !.at = IF hasArray THEN "head" ELSE "array"]
<1>1. Goes(t, o) /\ UNCHANGED <<items, hasArray, g_callbacks, shielded>> /\ failure = "none"
  BY DEF registers, Begins, Ready
<1>2. hasArray \/ o.at = "array"
  BY DEF Registering
<1> HIDE DEF o
<1>3. Arrayed' /\ UNCHANGED <<env, signals, frame>>
  BY <1>1, <1>2, ArrayedOn DEF Goes
<1> QED
  BY <1>1, <1>3, ListStaysIntact

LEMMA makesArrayIntact ==
    ASSUME Sound, Intact, NEW t \in Thread, makesArray(t)
    PROVE  Intact'
<1> DEFINE o == [op[t] EXCEPT !.at = "head"]
<1>1. /\ failure = "none" /\ Goes(t, o) /\ hasArray' = TRUE /\ items' = items
      /\ Fills(IF hasArray THEN 1 ELSE 0)
  BY DEF makesArray
<1> HIDE DEF o
<1>2. Arrayed' /\ UNCHANGED <<env, signals, frame>>
  BY <1>1, ArrayedOn DEF Goes
<1>3. ASSUME NEW S, shielded', Shield(items, g_callbacks, S)
      PROVE  FALSE
  <2>0. "prctl" \in Types /\ ~hasArray
    <3>1. (IF hasArray THEN 1 ELSE 0) = 0
      BY <1>1, <1>3, FillsSays
    <3> QED
      BY <3>1, HookerAssumption
  <2>1. g_callbacks["prctl"] = 0
    BY <1>1, <1>3, <2>0 DEF Intact, Arrayed
  <2>2. 0 \in DOMAIN items
    BY <1>3, <2>0, <2>1 DEF Shield, Answering
  <2> QED
    BY <2>2, ItemsTyped DEF Sound
<1>4. shielded' => shielded
  BY <1>1, FillsSays
<1> QED
  BY <1>1, <1>2, <1>3, <1>4, ListIntact

LEMMA putsFirstIntact ==
    ASSUME Sound, Intact, NEW t \in Thread, putsFirst(t)
    PROVE  Intact'
<1>1. /\ failure = "none" /\ op[t].at = "first" /\ Goes(t, Rest(op[t])) /\ hasArray' = hasArray
      /\ shielded' = (shielded /\ g_callbacks[ListOf(op[t])] = 0)
  BY DEF putsFirst, Fills
<1>2. hasArray /\ ListOf(op[t]) \in Types
  BY <1>1, AtWork DEF Intact, Arrayed
<1>3. Arrayed' /\ UNCHANGED <<env, signals, frame>>
  BY <1>1, <1>2, ArrayedOn DEF Goes
<1>4. ASSUME NEW S, shielded', Shield(items, g_callbacks, S)
      PROVE  FALSE
  <2>1. 0 \in DOMAIN items
    BY <1>1, <1>2, <1>4 DEF Shield, Answering
  <2> QED
    BY <2>1, ItemsTyped DEF Sound
<1> QED
  BY <1>1, <1>3, <1>4, ListIntact

LEMMA createsIntact ==
    ASSUME Sound, Intact, NEW t \in Thread, creates(t)
    PROVE  Intact'
<1> DEFINE head == g_callbacks[ListOf(op[t])]
           o == [op[t] EXCEPT !.at = "walk", !.i = head, !.other = Len(items) + 1]
<1>1. /\ failure = "none" /\ op[t].at = "again"
      /\ IF head = 0 THEN Fails("nohead")
         ELSE /\ items' = Append(items, New(op[t])) /\ Goes(t, o)
              /\ UNCHANGED <<hasArray, g_callbacks, careless, shielded>>
  BY DEF creates
<1> HIDE DEF o
<1>2. CASE head = 0
  BY <1>1, <1>2, FailsIntact
<1>3. CASE head # 0
  <2>1. hasArray
    BY <1>1 DEF Intact, Arrayed
  <2>2. Arrayed' /\ UNCHANGED <<env, signals, frame>>
    BY <1>1, <1>3, <2>1, ArrayedOn DEF Goes
  <2>3. g_callbacks' \in [Types -> 0..(Len(items) + 1)]
    <3>1. g_callbacks' \in [Types -> 0..Len(items)] /\ Len(items) \in Nat
      BY <1>1, <1>3 DEF Sound, ListsTyped
    <3> QED
      BY <3>1
  <2>4. \A i \in DOMAIN items : items'[i] = items[i]
    BY <1>1, <1>3, <2>3, NewTyped
  <2>5. DOMAIN items \subseteq DOMAIN items'
    <3>1. ListsTyped' /\ Len(items') = Len(items) + 1
      BY <1>1, <1>3, <2>3, NewTyped
    <3>2. DOMAIN items' = 1..(Len(items) + 1)
      BY <3>1 DEF ListsTyped
    <3> QED
      BY <3>2, ItemsTyped DEF Sound
  <2>6. ASSUME NEW S, Shield(items, g_callbacks, S)
        PROVE  Shield(items', g_callbacks', S) /\ \A j \in S : items'[j].cb = items[j].cb
    BY <1>1, <1>3, <2>4, <2>5, <2>6 DEF Shield, Answering
  <2> QED
    BY <1>1, <1>3, <2>2, <2>6, ListIntact
<1> QED
  BY <1>2, <1>3

LEMMA linksLastIntact ==
    ASSUME Sound, Intact, NEW t \in Thread, linksLast(t)
    PROVE  Intact'
<1> DEFINE i == op[t].i
           item == [items[i] EXCEPT !.next = op[t].other]
<1>1. /\ failure = "none" /\ op[t].at = "link"
      /\ IF Dead(items, i) THEN Fails("freed")
         ELSE /\ items' = [items EXCEPT ![i] = item] /\ Goes(t, Rest(op[t]))
              /\ shielded' = (shielded /\ items[i].next = 0)
              /\ UNCHANGED <<hasArray, g_callbacks>>
  BY DEF linksLast, Fills
<1>2. CASE Dead(items, i)
  BY <1>1, <1>2, FailsIntact
<1>3. CASE ~Dead(items, i)
  <2>1. hasArray /\ i \in DOMAIN items /\ items[i] \in ItemType(Len(items))
    BY <1>1, AtWork, ItemsTyped DEF Intact, Arrayed, Linking, Sound
  <2>2. Arrayed' /\ UNCHANGED <<env, signals, frame>>
    BY <1>1, <1>3, <2>1, ArrayedOn DEF Goes
  <2>3. item.cb = items[i].cb /\ item.live = items[i].live
    BY <2>1 DEF ItemType
  <2> HIDE DEF item
  <2>4. DOMAIN items' = DOMAIN items /\ items'[i] = item
        /\ \A k \in DOMAIN items : k # i => items'[k] = items[k]
    BY <1>1, <1>3, <2>1
  <2>5. ASSUME NEW S, shielded', Shield(items, g_callbacks, S)
        PROVE  Shield(items', g_callbacks', S) /\ \A j \in S : items'[j].cb = items[j].cb
    <3>0. 0 \notin DOMAIN items
      BY ItemsTyped DEF Sound
    <3>1. items[i].next = 0
      BY <1>1, <1>3, <2>5
    <3>2. i \in S => Behaviour[items[i].cb] = "dump"
      BY <2>5, <3>0, <3>1 DEF Shield, Answering
    <3>3. S \subseteq DOMAIN items /\ \A j \in S : items'[j].cb = items[j].cb /\ items'[j].live = items[j].live
      BY <2>3, <2>4, <2>5 DEF Shield, Answering
    <3>4. \A j \in S : Behaviour[items'[j].cb] = "dump" \/ items'[j].next \in S
      BY <2>4, <2>5, <3>2, <3>3 DEF Shield, Answering
    <3>5. Answering(items', S)
      BY <2>4, <2>5, <3>3, <3>4 DEF Shield, Answering
    <3> QED
      BY <1>1, <1>3, <2>5, <3>3, <3>5 DEF Shield
  <2> QED
    BY <1>1, <2>2, <2>5, <1>3, ListIntact
<1> QED
  BY <1>2, <1>3

\* putsHead and deletes give the shield up.
LEMMA RemovalIntact ==
    ASSUME Sound, Intact, NEW t \in Thread, op[t].at \notin {"none", "array"}, failure = "none",
           NEW o, Goes(t, o), hasArray' = hasArray, ~shielded'
    PROVE  Intact'
<1>1. hasArray
  BY DEF Intact, Arrayed
<1>2. Arrayed' /\ UNCHANGED <<env, signals, frame>>
  BY <1>1, ArrayedOn DEF Goes
<1> QED
  BY <1>2, ListIntact

LEMMA ListStepIntact ==
    ASSUME Sound, Intact, NEW t \in Thread, ListStep(t)
    PROVE  Intact'
<1>1. ASSUME readsHead(t) \/ addNext(t) \/ compares(t) \/ unlinks(t) \/ seeks(t) \/ matches(t)
      PROVE  Intact'
  <2>1. failure = "none" /\ op[t].at \notin {"none", "array"}
    BY <1>1 DEF readsHead, addNext, compares, unlinks, seeks, matches
  <2>2. \/ Fails("freed")
        \/ \E o : Goes(t, o) /\ UNCHANGED <<items, hasArray, g_callbacks, shielded>>
    BY <1>1 DEF readsHead, addNext, compares, unlinks, seeks, matches
  <2> QED
    BY <2>1, <2>2, StepIntact, FailsIntact
<1>2. CASE putsHead(t)
  <2>1. /\ failure = "none" /\ op[t].at = "put" /\ hasArray' = hasArray /\ Fills(1)
        /\ \E o : Goes(t, o)
    BY <1>2 DEF putsHead
  <2>2. ~shielded'
    BY <2>1, FillsSays
  <2> QED
    BY <2>1, <2>2, RemovalIntact
<1>3. CASE deletes(t)
  <2>1. failure = "none" /\ op[t].at = "delete"
        /\ (Fails("freed") \/ (Goes(t, NoOp) /\ hasArray' = hasArray /\ Fills(1)))
    BY <1>3 DEF deletes
  <2>2. Fills(1) => ~shielded'
    BY FillsSays
  <2> QED
    BY <2>1, <2>2, RemovalIntact, FailsIntact
<1> QED
  BY <1>1, <1>2, <1>3, makesArrayIntact, putsFirstIntact, createsIntact, linksLastIntact DEF ListStep

LEMMA unregisterIntact ==
    ASSUME Sound, Intact, NEW t \in Thread, NEW ty \in Types, NEW cb, unregisterCallback(t, ty, cb)
    PROVE  Intact'
<1>1. /\ failure = "none" /\ g_callbacks[ty] # 0 /\ UNCHANGED <<items, hasArray, g_callbacks, shielded>>
      /\ \E o : Goes(t, o)
  BY DEF unregisterCallback, Begins, Ready
<1>2. hasArray
  BY <1>1 DEF Intact, Arrayed
<1>3. Arrayed' /\ UNCHANGED <<env, signals, frame>>
  BY <1>1, <1>2, ArrayedOn DEF Goes
<1> QED
  BY <1>1, <1>3, ListStaysIntact


-----------------------------------------------------------------------------
\* The steps of init.
LEMMA SpawnIntact ==
    ASSUME Sound, Intact, NEW t \in Thread, NEW u \in Thread, Spawn(t, u)
    PROVE  Intact'
<1>1. /\ failure = "none" /\ t \in running /\ u \notin running
      /\ UNCHANGED <<world, phase, sInited, late, signals, lists, frame, failure>>
      /\ running' = running \cup {u} /\ covered' \subseteq covered \cup {u}
  BY DEF Spawn, Ready
<1>2. UNCHANGED <<items, hasArray, g_callbacks, op, shielded, kernel_act, others, seen, g_default_act>>
  BY <1>1 DEF lists, signals
<1>3. running' # {phase'.by}
  BY <1>1
<1>4. Guarded' => Guarded
  BY <1>1, <1>2 DEF Guarded
<1>5. Arrayed'
  BY <1>2 DEF Intact, Arrayed
<1>6. Unguarded => Unguarded'
  BY <1>1, <1>3, <1>4 DEF Unguarded
<1>7. ~Lonely'
  BY <1>3 DEF Lonely
<1>8. ASSUME Guarded', failure' = "none"
      PROVE  (\E S : Shield(items, g_callbacks, S) /\ AllBehind(items, S, frame))'
  BY <1>1, <1>2, <1>4, <1>8 DEF Intact
<1> QED
  BY <1>1, <1>2, <1>4, <1>5, <1>6, <1>7, <1>8 DEF Intact

\* A step of init that ends without the filter.
LEMMA InitIntact ==
    ASSUME Sound, Intact, ~sInited, UNCHANGED <<sInited, late, others, seen, lists>>, phase.at # "handled",
           phase'.at = "handled" => kernel_act' = "hooker",
           kernel_act' = "hooker" => late \/ phase'.at = "handled",
           g_default_act' = "hooker" => late
    PROVE  Intact'
<1>1. UNCHANGED <<items, hasArray, g_callbacks, op>>
  BY DEF lists
<1>2. Arrayed'
  BY <1>1 DEF Intact, Arrayed
<1>3. ~Guarded' /\ ~Unguarded
  BY DEF Guarded, Unguarded
<1>4. Lonely' => kernel_act' = "hooker"
  BY DEF Lonely
<1> QED
  BY <1>1, <1>2, <1>3, <1>4 DEF Intact

LEMMA initChecksIntact ==
    ASSUME Sound, Intact, NEW t \in Thread, initChecks(t)
    PROVE  Intact'
<1>1. /\ ~sInited /\ UNCHANGED <<sInited, late, others, seen, lists, kernel_act>> /\ phase.at = "out"
      /\ phase' = phase \/ phase' = [at |-> "checked", by |-> t]
      /\ g_default_act' \in {g_default_act, kernel_act}
  BY DEF initChecks
<1>2. phase'.at # "handled"
  BY <1>1
<1>3. kernel_act = "hooker" => late
  BY <1>1 DEF Intact
<1>4. g_default_act' = "hooker" => late
  BY <1>1, <1>3 DEF Intact
<1> QED
  BY <1>1, <1>2, <1>3, <1>4, InitIntact

LEMMA initHandlesIntact ==
    ASSUME Sound, Installed, Intact, NEW sys, initHandles(sys)
    PROVE  Intact'
<1> DEFINE at == IF initCode(sys) = 0 THEN "handled" ELSE "out"
<1>1. /\ UNCHANGED <<sInited, late, others, seen, lists, g_default_act>> /\ phase.at = "checked"
      /\ phase' = [phase EXCEPT !.at = at] /\ at \in {"handled", "out"}
      /\ kernel_act' = IF at = "handled" THEN "hooker" ELSE kernel_act
  BY DEF initHandles
<1> HIDE DEF at
<1>2. ~sInited /\ phase'.at = at
  BY <1>1, initGoesOn DEF Installed
<1>3. kernel_act = "hooker" => late
  BY <1>1, <1>2 DEF Intact
<1>4. g_default_act' = "hooker" => late
  BY <1>1 DEF Intact
<1> QED
  BY <1>1, <1>2, <1>3, <1>4, InitIntact

\* The items that let no call through are a shield of the lists that have one.
LEMMA ShieldMade ==
    ASSUME \A ty \in Types : Shielded(ty)
    PROVE  \E S : Shield(items, g_callbacks, S)
<1> DEFINE Q == {S \in SUBSET DOMAIN items : Answering(items, S)}
<1>1. Answering(items, UNION Q)
  BY DEF Answering
<1>2. \A ty \in Types : g_callbacks[ty] \in UNION Q
  BY DEF Shielded
<1> HIDE DEF Q
<1>3. Shield(items, g_callbacks, UNION Q)
  BY <1>1, <1>2 DEF Shield
<1> QED
  BY <1>3

LEMMA initFiltersIntact ==
    ASSUME Sound, Installed, Intact, NEW sys, initFilters(sys)
    PROVE  Intact'
<1>1. /\ failure = "none" /\ phase.at = "handled" /\ phase' = [phase EXCEPT !.at = "out"]
      /\ UNCHANGED <<world, running, signals, items, hasArray, g_callbacks, op, frame>>
      /\ sInited' => shielded' \in {FALSE, \A ty \in Types : Shielded(ty)}
      /\ covered' = covered \/ (sInited' /\ covered' = covered \cup {phase.by})
      /\ sInited' \/ late'
      /\ late => late'
  <2> DEFINE code == CASE sys = "sigprocmask"  -> -12
                       [] sys = "no_new_privs" -> -13
                       [] sys = "seccomp"      -> -14
                       [] OTHER -> IF Accepted(Built) THEN 0 ELSE -14
  <2>1. /\ failure = "none" /\ phase.at = "handled" /\ phase' = [phase EXCEPT !.at = "out"]
        /\ UNCHANGED <<world, running, signals, items, hasArray, g_callbacks, op, frame>>
        /\ sInited' = (code = 0) /\ late' = (late \/ code # 0)
        /\ covered' = IF code = 0 THEN covered \cup {phase.by} ELSE covered
        /\ shielded' = (code = 0 /\ \A ty \in Types : Shielded(ty))
    BY DEF initFilters, Built
  <2> HIDE DEF code
  <2> QED
    BY <2>1
<1>2. /\ phase'.at = "out" /\ ~sInited /\ covered = {} /\ \A u \in Thread : frame[u].at = "app"
      /\ phase.by \in running
  BY <1>1, initGoesOn DEF Installed
<1>3. UNCHANGED <<kernel_act, others, seen, g_default_act>>
  BY <1>1 DEF signals
<1>4. Guarded' => Lonely /\ sInited'
  BY <1>1, <1>2 DEF Guarded, Lonely
<1>5. ASSUME Guarded'
      PROVE  (\E S : Shield(items, g_callbacks, S) /\ AllBehind(items, S, frame))'
  <2>1. \A ty \in Types : Shielded(ty)
    BY <1>1, <1>5 DEF Guarded
  <2>2. PICK S : Shield(items, g_callbacks, S)
    BY <2>1, ShieldMade
  <2>3. AllBehind(items, S, frame)
    BY <1>2 DEF AllBehind
  <2> QED
    BY <1>1, <2>2, <2>3
<1>6. Arrayed'
  BY <1>1 DEF Intact, Arrayed
<1>7. seen' => late' \/ Unguarded'
  BY <1>1, <1>2, <1>3, <1>4 DEF Intact, Unguarded, Lonely
<1>8. ~Lonely'
  BY <1>2 DEF Lonely
<1> QED
  BY <1>1, <1>2, <1>3, <1>4, <1>5, <1>6, <1>7, <1>8 DEF Intact

-----------------------------------------------------------------------------
\* A step of a thread that brings its activation to g.
LEMMA ThreadIntact ==
    ASSUME Sound, Intact, UNCHANGED <<env, lists>>, failure = "none",
           NEW t \in Thread, NEW g, frame' = [frame EXCEPT ![t] = g],
           kernel_act' \in {kernel_act, "app"}, g_default_act' \in {g_default_act, "app"},
           ~sInited => others' = others,
           Guarded => kernel_act' = kernel_act /\ ("prctl" \in others' => "prctl" \in others),
           Lonely => kernel_act' = kernel_act,
           seen' => seen \/ late \/ Unguarded,
           \A S : Guarded /\ Shield(items, g_callbacks, S) /\ AllBehind(items, S, frame) /\ g.at # "app"
                  => Behind(items, S, g)
    PROVE  Intact'
<1>0. /\ UNCHANGED <<world, running, covered, phase, sInited, late>>
      /\ UNCHANGED <<items, hasArray, g_callbacks, op, shielded>>
  BY DEF env, lists
<1>1. \A u \in Thread : frame'[u] = IF u = t THEN g ELSE frame[u]
  BY DEF Sound, Frames
<1>2. Guarded' = Guarded /\ Lonely' = Lonely /\ (Unguarded => Unguarded') /\ Arrayed'
  BY <1>0 DEF Intact, Guarded, Lonely, Unguarded, Arrayed
<1>3. ASSUME Guarded
      PROVE  \E S : Shield(items, g_callbacks, S) /\ AllBehind(items, S, frame')
  <2>1. PICK S : Shield(items, g_callbacks, S) /\ AllBehind(items, S, frame)
    BY <1>3 DEF Intact
  <2>2. AllBehind(items, S, frame')
    BY <1>1, <1>3, <2>1 DEF AllBehind
  <2> QED
    BY <2>1, <2>2
<1>4. Guarded' => (\E S : Shield(items, g_callbacks, S) /\ AllBehind(items, S, frame))'
  BY <1>0, <1>2, <1>3
<1> QED
  BY <1>0, <1>2, <1>4 DEF Intact

\* One that ends the process.
LEMMA LostIntact ==
    ASSUME Intact, UNCHANGED <<env, lists, g_default_act>>, NoKernel, failure' # "none"
    PROVE  Intact'
<1>0. /\ UNCHANGED <<world, running, covered, phase, sInited, late, kernel_act, others, seen>>
      /\ UNCHANGED <<items, hasArray, g_callbacks, op, shielded>>
  BY DEF env, lists, NoKernel
<1>1. Guarded' = Guarded /\ Lonely' = Lonely /\ (Unguarded => Unguarded') /\ Arrayed'
  BY <1>0 DEF Intact, Guarded, Lonely, Unguarded, Arrayed
<1> QED
  BY <1>0, <1>1 DEF Intact

\* What the kernel does of a call.
LEMMA KernelLeaves ==
    ASSUME NEW t, NEW call, Kernel(t, call)
    PROVE  /\ kernel_act' \in {kernel_act, "app"}
           /\ t \notin covered => others' = others
           /\ seen' => seen \/ kernel_act = "hooker"
           /\ call.nr \notin Hooked => /\ kernel_act' = kernel_act /\ seen' = seen
                                       /\ "prctl" \in others' => "prctl" \in others
<1>1. /\ kernel_act' = IF call = [nr |-> "rt_sigaction", ask |-> "set"] THEN "app" ELSE kernel_act
      /\ others' = IF call.ask = "set" /\ call.nr # "rt_sigaction" /\ t \in covered
                   THEN others \cup {call.nr} ELSE others
      /\ IF call = [nr |-> "rt_sigaction", ask |-> "get"] THEN Shows(kernel_act) ELSE UNCHANGED seen
  BY DEF Kernel
<1>2. Shows(kernel_act) /\ seen' => seen \/ kernel_act = "hooker"
  BY DEF Shows
<1>3. ASSUME call.nr \notin Hooked
      PROVE  /\ call # [nr |-> "rt_sigaction", ask |-> "set"] /\ call # [nr |-> "rt_sigaction", ask |-> "get"]
             /\ call.nr # "prctl"
  BY <1>3 DEF Hooked
<1> QED
  BY <1>1, <1>2, <1>3

\* Whom the kernel shows the hook's handler.
LEMMA KernelShows ==
    ASSUME Sound, Intact, NEW t, Ready(t), NEW call, Kernel(t, call), Guarded => call.nr \notin Hooked
    PROVE  /\ seen' => seen \/ late \/ Unguarded
           /\ ~Lonely
<1>1. phase.at = "handled" => running # {phase.by}
  BY DEF Ready
<1>2. ASSUME seen', ~seen
      PROVE  late \/ Unguarded
  <2>1. kernel_act = "hooker" /\ ~Guarded
    BY <1>2, KernelLeaves
  <2> QED
    BY <1>1, <2>1 DEF Intact, Unguarded
<1> QED
  BY <1>1, <1>2 DEF Lonely

\* A call of the app that would replace the handler or put a filter in front is trapped.
LEMMA SetIsTrapped ==
    ASSUME Sound, Installed, sInited, world.mode = {}, NEW call, call.nr \in Hooked, NEW ip \in Sites
    PROVE  Trapped(call.nr, ip) /\ call.nr \in Types
<1> DEFINE r == found(world.maps)["self"]
<1>1. filter # <<>> /\ r \in RangeType /\ r.start < r.end
  BY WorldLines DEF Installed, isValid, FinderType, Libs
<1>2. PICK k \in DOMAIN world.maps : world.maps[k].name \in {"app", "libc"} /\ ip = world.maps[k].start
  BY DEF Sites
<1>3. ip \in 0..MaxAddr /\ ip \in Nat
  BY <1>2, MaxAddrNat, WorldLines DEF Addressed
<1>4. ~CoversIn(world.maps, "self", ip)
  <2>1. Mapped(world.maps)
    BY HookerAssumption DEF Installed
  <2> QED
    BY <1>2, <2>1 DEF Mapped, CoversIn
<1>5. ~(r.start <= ip /\ ip < r.end)
  BY <1>3, <1>4, WorldLines, FoundCovers DEF Within, Libs
<1> HIDE DEF r
<1>6. ~Passed(r, ip)
  BY <1>1, <1>3, <1>5, PassedIsWithin
<1>7. call.nr \in {"rt_sigaction", "prctl"}
  BY DEF Hooked
<1>8. world.arch \in {"aarch64", "x86_64"}
  BY <1>1, <1>3, FilterSays
<1>9. Chosen(world.arch, NR(world.arch)[call.nr])
  BY <1>7, <1>8 DEF Chosen
<1>10. Traps(world.arch, world.mode, found(world.maps), NR(world.arch)[call.nr], ip)
  BY <1>6, <1>9 DEF Traps, Lets, r
<1>11. Verdict(filter, SeccompData(NR(world.arch)[call.nr], ip)) = "trap"
  BY <1>1, <1>3, <1>10, FilterSays
<1> QED
  BY <1>1, <1>7, <1>11, HookerAssumption DEF Trapped

LEMMA AppCallIntact ==
    ASSUME Sound, Installed, Intact, NEW t \in Thread, NEW call \in AppCalls, NEW ip \in Sites,
           AppCall(t, call, ip)
    PROVE  Intact'
<1>0. /\ failure = "none" /\ Ready(t) /\ frame[t].at = "app" /\ UNCHANGED <<env, g_default_act, lists>>
      /\ t \in running /\ frame = [u \in Thread |-> frame[u]]
  BY AppCallIs DEF Ready, Sound, Frames
<1>1. CASE ~(t \in covered /\ Trapped(call.nr, ip)) /\ Kernel(t, call) /\ UNCHANGED <<frame, failure>>
  <2>1. Guarded => call.nr \notin Hooked
    BY <1>0, <1>1, SetIsTrapped DEF Guarded
  <2>2. ~sInited => t \notin covered
    BY DEF Installed
  <2>3. frame' = [frame EXCEPT ![t] = frame[t]]
    BY <1>0, <1>1
  <2>4. kernel_act' \in {kernel_act, "app"} /\ (~sInited => others' = others)
        /\ (Guarded => kernel_act' = kernel_act /\ ("prctl" \in others' => "prctl" \in others))
    BY <1>1, <2>1, <2>2, KernelLeaves
  <2>5. (seen' => seen \/ late \/ Unguarded) /\ ~Lonely
    BY <1>0, <1>1, <2>1, KernelShows
  <2> QED
    BY <1>0, <2>3, <2>4, <2>5, ThreadIntact
<1>2. CASE NoKernel /\ frame' = [frame EXCEPT ![t] = Started(call)] /\ failure' = failure
  <2>1. ASSUME NEW S, Shield(items, g_callbacks, S)
        PROVE  Behind(items, S, Started(call))
    <3>1. call.nr \in Hooked => call.nr \in Types
      BY HookerAssumption DEF Hooked
    <3>2. call.nr \in Hooked => Started(call).mItem \in S
      BY <2>1, <3>1 DEF Started, Shield
    <3>3. Started(call).stack = <<>> /\ Started(call).call = call
      BY DEF Started
    <3> QED
      BY <3>2, <3>3 DEF Behind
  <2>2. kernel_act' = kernel_act /\ others' = others /\ seen' = seen
    BY <1>2 DEF NoKernel
  <2> QED
    BY <1>0, <1>2, <2>1, <2>2, ThreadIntact
<1>3. CASE NoKernel /\ frame' = frame /\ failure' \in {"none", "killed"}
  <2>1. CASE failure' = "none"
    <3>1. frame' = [frame EXCEPT ![t] = frame[t]]
      BY <1>0, <1>3
    <3>2. kernel_act' = kernel_act /\ others' = others /\ seen' = seen
      BY <1>3 DEF NoKernel
    <3> QED
      BY <1>0, <3>1, <3>2, ThreadIntact
  <2>2. CASE failure' # "none"
    BY <1>0, <1>3, <2>2, LostIntact
  <2> QED
    BY <2>1, <2>2
<1> QED
  BY <1>1, <1>2, <1>3, AppCallIs

-----------------------------------------------------------------------------
\* The steps of the handler, which is at work once init has succeeded.
LEMMA Handling ==
    ASSUME Installed, NEW t \in Thread, frame[t].at # "app"
    PROVE  sInited /\ ~Lonely
  BY DEF Installed, Lonely

\* The call is given to the kernel by a thread whose activation was brought to f.
LEMMA OriginIntact ==
    ASSUME Sound, Installed, Intact, NEW t \in Thread, Ready(t), frame[t].at # "app",
           NEW f, Activation(f, Len(items)), doCallOriginSysCall(t, f),
           UNCHANGED <<env, g_default_act, lists>>, Guarded => f.call.nr \notin Hooked
    PROVE  Intact'
<1>0. failure = "none" /\ sInited
  BY Handling DEF Ready
<1>1. CASE failure' = "recursion" /\ NoKernel /\ UNCHANGED frame
  BY <1>1, LostIntact
<1>2. CASE /\ frame' = [frame EXCEPT ![t] = Asked(f)] /\ failure' = failure
           /\ Kernel(t, f.call) \/ Kernel(t, [nr |-> "other", ask |-> "path"])
  <2>1. PICK call : Kernel(t, call) /\ (Guarded => call.nr \notin Hooked)
    BY <1>2 DEF Hooked
  <2>2. /\ kernel_act' \in {kernel_act, "app"}
        /\ Guarded => kernel_act' = kernel_act /\ ("prctl" \in others' => "prctl" \in others)
    BY <2>1, KernelLeaves
  <2>3. (seen' => seen \/ late \/ Unguarded) /\ ~Lonely
    BY <2>1, KernelShows
  <2>4. Asked(f).call = f.call
    BY DEF Asked, Activation
  <2>5. \A S : Guarded => Behind(items, S, Asked(f))
    BY <2>4 DEF Behind
  <2> QED
    BY <1>0, <1>2, <2>2, <2>3, <2>5, ThreadIntact
<1> QED
  BY <1>1, <1>2, OriginIs

LEMMA DispatchIntact ==
    ASSUME Sound, Installed, Intact, NEW t \in Thread, Dispatch(t)
    PROVE  Intact'
<1> DEFINE f == frame[t]
           h == [f EXCEPT !.at = "callback"]
           g == Called(f)
<1>0. /\ failure = "none" /\ f.at = "dispatch" /\ UNCHANGED <<env, g_default_act, lists>> /\ Ready(t)
      /\ Activation(f, Len(items)) /\ Kept(world, f) /\ sInited /\ ~Lonely
  BY DispatchIs, Handling DEF Dispatch
<1>1. CASE f.mItem = 0 /\ doCallOriginSysCall(t, h)
  <2>1. Activation(h, Len(items)) /\ h.call = f.call
    BY <1>0, DispatchAsks
  <2>2. ASSUME Guarded
        PROVE  f.call.nr \notin Hooked
    <3>1. PICK S : Shield(items, g_callbacks, S) /\ AllBehind(items, S, frame)
      BY <1>0, <2>2 DEF Intact
    <3>2. Behind(items, S, f) /\ 0 \notin S
      BY <1>0, <3>1, ItemsTyped DEF AllBehind, Shield, Answering, Sound
    <3> QED
      BY <1>1, <3>2 DEF Behind
  <2> HIDE DEF h
  <2> QED
    BY <1>0, <1>1, <2>1, <2>2, OriginIntact
<1>2. CASE failure' = "freed" /\ NoKernel /\ UNCHANGED frame
  BY <1>0, <1>2, LostIntact
<1>3. CASE f.mItem # 0 /\ frame' = [frame EXCEPT ![t] = g] /\ NoKernel /\ UNCHANGED failure
  <2> DEFINE level == [cb |-> items[f.mItem].cb, calls |-> 0]
             s == f.stack
             z == Append(s, level)
  <2>1. g.call = f.call /\ g.mItem = f.mItem /\ g.stack = z /\ s \in Seq(Level)
    BY <1>0, <1>3, CalledOK
  <2>2. level.cb = items[f.mItem].cb
    OBVIOUS
  <2> HIDE DEF level, s
  <2>3. /\ Len(s) \in Nat /\ Len(z) = Len(s) + 1 /\ DOMAIN z = 1..(Len(s) + 1) /\ DOMAIN s = 1..Len(s)
        /\ z[Len(s) + 1] = level /\ \A k \in 1..Len(s) : z[k] = s[k]
    BY <2>1
  <2>4. Last(z) = level /\ \A k \in DOMAIN z : z[k] = level \/ (k \in DOMAIN s /\ z[k] = s[k])
    BY <2>3 DEF Last
  <2>5. ASSUME NEW S, Guarded, Shield(items, g_callbacks, S), AllBehind(items, S, frame)
        PROVE  Behind(items, S, g)
    <3>1. SUFFICES ASSUME f.call.nr \in Hooked
                   PROVE  Behind(items, S, g)
      BY <2>1 DEF Behind
    <3>2. f.mItem \in S /\ \A k \in DOMAIN s : Behaviour[s[k].cb] # "retry"
      BY <1>0, <2>5, <3>1 DEF AllBehind, Behind, s
    <3>3. Behaviour[level.cb] # "retry"
      BY <2>2, <2>5, <3>2 DEF Shield, Answering
    <3> HIDE DEF z, g
    <3> QED
      BY <2>1, <2>2, <2>4, <3>2, <3>3 DEF Behind
  <2>6. kernel_act' = kernel_act /\ others' = others /\ seen' = seen
    BY <1>3 DEF NoKernel
  <2> QED
    BY <1>0, <1>3, <2>5, <2>6, ThreadIntact
<1> QED
  BY <1>1, <1>2, <1>3, DispatchIs

\* A callback that is to answer the call gives it to an item of the shield.
LEMMA PassedOn ==
    ASSUME Sound, NEW t \in Thread, Pass(t), frame[t].call.nr \in Hooked,
           NEW S, Shield(items, g_callbacks, S), Behind(items, S, frame[t])
    PROVE  items[frame[t].mItem].next \in S
<1> DEFINE f == frame[t]
           l == Last(f.stack)
           b == Behaviour[l.cb]
<1>0. f.at = "callback" /\ f.stack # <<>> /\ l.calls < Passes(f)
  BY DEF Pass
<1>1. f.stack \in Seq(Level) /\ f.call \in AppCalls
  BY <1>0, InHandler DEF Activation
<1>2. l = f.stack[Len(f.stack)] /\ Len(f.stack) \in DOMAIN f.stack /\ l \in Level
  <2> DEFINE s == f.stack
  <2> HIDE DEF s
  <2>1. s \in Seq(Level) /\ s # <<>>
    BY <1>0, <1>1 DEF s
  <2>2. Last(s) = s[Len(s)] /\ Len(s) \in DOMAIN s /\ Last(s) \in Level
    BY <2>1 DEF Last
  <2> QED
    BY <2>2 DEF s
<1>3. l.cb \in Callbacks /\ l.calls \in Nat
  BY <1>2 DEF Level
<1>4. b \in {"pass", "answer", "dump"}
  <2>1. b # "retry"
    BY <1>2 DEF Behind
  <2> QED
    BY <1>3, <2>1, HookerAssumption DEF Callbacks
<1>5. Passes(f) = CASE b = "answer" -> 0 [] b = "pass" -> 1 [] b = "retry" -> 2
                    [] b = "dump" -> IF f.call.ask = "path" THEN 1 ELSE 0
  BY DEF Passes
<1>6. f.call.ask # "path"
  BY <1>1 DEF AppCalls, Hooked
<1> HIDE DEF b
<1>7. l.calls = 0 /\ b = "pass"
  <2>1. CASE b = "pass"
    <3>1. Passes(f) = 1
      BY <1>5, <2>1
    <3> QED
      BY <1>0, <1>3, <2>1, <3>1
  <2>2. CASE b # "pass"
    <3>1. Passes(f) = 0
      BY <1>4, <1>5, <1>6, <2>2
    <3> QED
      BY <1>0, <1>3, <3>1
  <2> QED
    BY <2>1, <2>2
<1>8. l.cb = items[f.mItem].cb /\ f.mItem \in S
  BY <1>0, <1>7 DEF Behind
<1> QED
  BY <1>7, <1>8 DEF Shield, Answering, b

LEMMA PassIntact ==
    ASSUME Sound, Installed, Intact, NEW t \in Thread, Pass(t)
    PROVE  Intact'
<1> DEFINE f == frame[t]
           next == items[f.mItem].next
           h == [Passing(f) EXCEPT !.mItem = 0]
           g == Given(f, next)
<1>0. /\ failure = "none" /\ f.at = "callback" /\ f.stack # <<>> /\ Ready(t)
      /\ UNCHANGED <<env, g_default_act, lists>> /\ Activation(f, Len(items)) /\ Kept(world, f)
      /\ sInited /\ ~Lonely
  BY PassIs, Handling DEF Pass
<1>1. CASE f.mItem = 0 /\ failure' = "null" /\ NoKernel /\ UNCHANGED frame
  BY <1>0, <1>1, LostIntact
<1>2. CASE failure' = "freed" /\ NoKernel /\ UNCHANGED frame
  BY <1>0, <1>2, LostIntact
<1>3. ASSUME NEW S, Shield(items, g_callbacks, S), AllBehind(items, S, frame), f.call.nr \in Hooked
      PROVE  next \in S
  <2>1. Behind(items, S, f)
    BY <1>0, <1>3 DEF AllBehind
  <2> QED
    BY <1>3, <2>1, PassedOn
<1>4. CASE f.mItem # 0 /\ next = 0 /\ doCallOriginSysCall(t, h)
  <2>1. Activation(h, Len(items)) /\ h.call = f.call
    BY <1>0, <1>4, PassAsks
  <2>2. ASSUME Guarded
        PROVE  f.call.nr \notin Hooked
    <3>1. PICK S : Shield(items, g_callbacks, S) /\ AllBehind(items, S, frame)
      BY <1>0, <2>2 DEF Intact
    <3>2. 0 \notin S
      BY <3>1, ItemsTyped DEF Shield, Answering, Sound
    <3> QED
      BY <1>3, <1>4, <3>1, <3>2
  <2> HIDE DEF h
  <2> QED
    BY <1>0, <1>4, <2>1, <2>2, OriginIntact
<1>5. CASE f.mItem # 0 /\ next # 0 /\ frame' = [frame EXCEPT ![t] = g] /\ NoKernel /\ UNCHANGED failure
  <2>1. next \in DOMAIN items
    BY <1>0, <1>5, ItemsTyped DEF Sound, Activation
  <2> HIDE DEF next
  <2>2. /\ FrameOK(world, g, Len(items)) /\ g.at = "dispatch" /\ g.mItem = next /\ g.call = f.call
        /\ DOMAIN g.stack = DOMAIN f.stack /\ \A k \in DOMAIN f.stack : g.stack[k].cb = f.stack[k].cb
    <3> HIDE DEF f
    <3>1. Activation(f, Len(items)) /\ Kept(world, f) /\ f.at = "callback" /\ f.stack # <<>> /\ f.mItem # 0
      BY <1>0, <1>5
    <3> QED
      BY <2>1, <3>1, PassGives
  <2> HIDE DEF g
  <2>3. g.stack # <<>> => Last(g.stack).calls > 0
    <3> DEFINE z == g.stack
    <3>1. g # NoFrame
      BY <2>2 DEF NoFrame
    <3>2. z \in Seq(Level) /\ \A k \in DOMAIN z : z[k].calls > 0
      BY <2>2, <3>1 DEF FrameOK, Activation, Kept
    <3> HIDE DEF z
    <3>3. z # <<>> => Last(z) = z[Len(z)] /\ Len(z) \in DOMAIN z
      BY <3>2 DEF Last
    <3> QED
      BY <3>2, <3>3 DEF z
  <2>4. ASSUME NEW S, Guarded, Shield(items, g_callbacks, S), AllBehind(items, S, frame)
        PROVE  Behind(items, S, g)
    <3>1. f.call.nr \in Hooked => \A k \in DOMAIN f.stack : Behaviour[f.stack[k].cb] # "retry"
      BY <1>0, <2>4 DEF AllBehind, Behind
    <3>2. f.call.nr \in Hooked => next \in S
      BY <1>3, <2>4
    <3> QED
      BY <2>2, <2>3, <3>1, <3>2 DEF Behind
  <2>5. kernel_act' = kernel_act /\ others' = others /\ seen' = seen
    BY <1>5 DEF NoKernel
  <2> QED
    BY <1>0, <1>5, <2>4, <2>5, ThreadIntact
<1> QED
  BY <1>1, <1>2, <1>4, <1>5, PassIs

LEMMA FinishIntact ==
    ASSUME Sound, Installed, Intact, NEW t \in Thread, Finish(t)
    PROVE  Intact'
<1> DEFINE f == frame[t]
           g == Returned(f)
<1>0. /\ failure = "none" /\ f.at = "callback" /\ frame' = [frame EXCEPT ![t] = g]
      /\ g_default_act' \in {"app", g_default_act} /\ UNCHANGED <<env, kernel_act, others, lists, failure>>
      /\ Activation(f, Len(items)) /\ Kept(world, f)
      /\ IF dumped(f, [nr |-> "rt_sigaction", ask |-> "get"]) THEN Shows(g_default_act)
         ELSE UNCHANGED seen
  BY FinishIs
<1>1. seen' => seen \/ late
  <2>1. Shows(g_default_act) /\ seen' => seen \/ g_default_act = "hooker"
    BY DEF Shows
  <2> QED
    BY <1>0, <2>1 DEF Intact
<1>2. g = NoFrame \/ (/\ g.at = "callback" /\ g.mItem = f.mItem /\ g.call = f.call
                      /\ g.stack # <<>> /\ Last(g.stack).calls > 0
                      /\ \A k \in DOMAIN g.stack : k \in DOMAIN f.stack /\ g.stack[k] = f.stack[k])
  BY <1>0, ReturnedOK
<1> HIDE DEF g
<1>3. ASSUME NEW S, Guarded, Shield(items, g_callbacks, S), AllBehind(items, S, frame), g.at # "app"
      PROVE  Behind(items, S, g)
  <2>1. Behind(items, S, f)
    BY <1>0, <1>3 DEF AllBehind
  <2>2. g # NoFrame
    BY <1>3 DEF NoFrame
  <2> QED
    BY <1>2, <2>1, <2>2 DEF Behind
<1> QED
  BY <1>0, <1>1, <1>3, ThreadIntact

LEMMA IntactNext == Sound /\ Installed /\ Intact /\ [HookerNext]_vars => Intact'
<1> SUFFICES ASSUME Sound, Installed, Intact, [HookerNext]_vars PROVE Intact'
  OBVIOUS
<1>1. ASSUME NEW t \in Thread, addAll(t) \/ \E ty \in Types, cb \in world.cbs : registerCallback(t, ty, cb)
      PROVE  Intact'
  BY <1>1, registersIntact DEF addAll, registerCallback
<1>2. ASSUME NEW t \in Thread, NEW call \in world.calls, NEW ip \in Sites, AppCall(t, call, ip)
      PROVE  Intact'
  <2>1. call \in AppCalls
    BY HookerAssumption DEF Installed
  <2> QED
    BY <1>2, <2>1, AppCallIntact
<1>3. CASE UNCHANGED vars
  BY <1>3 DEF vars, Intact, Guarded, Arrayed, Lonely, Unguarded
<1> QED
  BY <1>1, <1>2, <1>3, SpawnIntact, ListStepIntact, unregisterIntact, initChecksIntact, initHandlesIntact,
     initFiltersIntact, DispatchIntact, PassIntact, FinishIntact DEF HookerNext

\* While the hook is on guard the app can neither replace the handler of SIGSYS
\* nor install a filter of its own with prctl, for any number of threads, of
\* items and of callbacks, and any layout of memory.
THEOREM HookIntactHolds == HookerSpec => []HookIntact
<1>1. Intact => HookIntact
  BY DEF Intact, HookIntact
<1> QED
  BY <1>1, IntactInit, IntactNext, HookerSound, HookerInstalled, PTL DEF HookerSpec

\* While the hook is on guard, and unless init has failed late, no thread of the
\* app has been shown its handler, by the dumper or by the kernel.
THEOREM HookHiddenHolds == HookerSpec => []HookHidden
<1>1. Installed /\ Intact => HookHidden
  BY DEF Installed, Intact, Unguarded, Guarded, HookHidden
<1> QED
  BY <1>1, IntactInit, IntactNext, HookerSound, HookerInstalled, PTL DEF HookerSpec

-----------------------------------------------------------------------------
(***************************************************************************)
(* While nobody is careless no item that is freed can be reached: what a   *)
(* head, a live item, an operation and a handler point to is live and of   *)
(* their type.  The rest of Tidy says that the item which is about to be   *)
(* deleted is not among those, once nobody else is at work on its list.    *)
(***************************************************************************)
\* At x there is a live item of the type, or nothing.
Good(its, x, ty) == x # 0 => x \in DOMAIN its /\ its[x].live /\ its[x].ty = ty

LiveItems(its) == {j \in DOMAIN its : its[j].live}

Holding == Linking \cup Removing    \* an operation at work on an item
Second == Linking \cup {"put"}      \* and on another one
Taking == {"compare", "unlink", "put", "delete"}    \* one that may remove the head

HeadsGood(its, heads) == \A ty \in Types : Good(its, heads[ty], ty)

NextsGood(its) == \A j \in LiveItems(its) : Good(its, its[j].next, its[j].ty)

OpsGood(its, ops) ==
    \A t \in Thread :
        /\ ops[t].at \in Holding => Good(its, ops[t].i, ListOf(ops[t]))
        /\ ops[t].at \in Second => Good(its, ops[t].other, ListOf(ops[t]))

FramesGood(its, fr) ==
    \A t \in Thread : fr[t].at # "app" => Good(its, fr[t].mItem, fr[t].call.nr)

\* No item is behind two others.
OnePrevious(its) ==
    \A j, k \in LiveItems(its) : its[j].next = its[k].next /\ its[j].next # 0 => j = k

Unlinked(its, heads, n) ==
    (\A ty \in Types : heads[ty] # n) /\ \A j \in LiveItems(its) : its[j].next # n

\* The item an operation is about to link is nowhere else.
NewUnlinked(its, heads, ops) ==
    \A t \in Thread : ops[t].at \in Linking =>
        /\ Unlinked(its, heads, ops[t].other)
        /\ \A u \in Thread : ops[u].at \in Holding => ops[u].i # ops[t].other
        /\ \A u \in Thread \ {t} : ops[u].at \in Second => ops[u].other # ops[t].other

\* Only the item that is about to be deleted is before a head.
HeadsFirst(its, heads, ops) ==
    \A ty \in Types, j \in LiveItems(its) : its[j].next = heads[ty] /\ heads[ty] # 0
        => \E t \in Thread : ops[t].at = "delete" /\ ops[t].i = j

OneRemover(ops) ==
    \A t, u \in Thread :
        ops[t].at \in Removing /\ ops[u].at \in Removing /\ ListOf(ops[t]) = ListOf(ops[u]) => t = u

\* The item that is being removed is behind no other.
TakenFirst(its, ops) ==
    \A t \in Thread : ops[t].at \in Taking => \A j \in LiveItems(its) : its[j].next # ops[t].i

\* What follows it is behind it alone.
PutNext(its, ops) ==
    \A t \in Thread : ops[t].at = "put" /\ ops[t].other # 0 =>
        /\ ops[t].other # ops[t].i
        /\ \A j \in LiveItems(its) : its[j].next = ops[t].other => j = ops[t].i

DeletedGone(heads, ops) ==
    \A t \in Thread : ops[t].at = "delete" => \A ty \in Types : heads[ty] # ops[t].i

Tidy(its, heads, ops, fr) ==
    /\ HeadsGood(its, heads) /\ NextsGood(its) /\ OpsGood(its, ops) /\ FramesGood(its, fr)
    /\ OnePrevious(its) /\ NewUnlinked(its, heads, ops) /\ HeadsFirst(its, heads, ops)
    /\ OneRemover(ops) /\ TakenFirst(its, ops) /\ PutNext(its, ops) /\ DeletedGone(heads, ops)

Clean == ~careless => failure # "freed" /\ Tidy(items, g_callbacks, op, frame)

LEMMA CleanInit == HookerInit => Clean
<1> SUFFICES ASSUME HookerInit PROVE Clean
  OBVIOUS
<1>1. /\ failure = "none" /\ items = <<>> /\ DOMAIN items = {} /\ \A ty \in Types : g_callbacks[ty] = 0
      /\ \A t \in Thread : op[t].at = "none" /\ frame[t].at = "app"
  BY DEF HookerInit, NoOp, NoFrame
<1>2. LiveItems(items) = {}
  BY <1>1 DEF LiveItems
<1>3. \A t \in Thread : op[t].at \notin Holding \cup Second \cup Taking
  BY <1>1 DEF Holding, Second, Taking, Linking, Removing
<1>4. HeadsGood(items, g_callbacks) /\ NextsGood(items) /\ OpsGood(items, op) /\ FramesGood(items, frame)
  BY <1>1, <1>2, <1>3 DEF HeadsGood, NextsGood, OpsGood, FramesGood, Good
<1>5. OnePrevious(items) /\ NewUnlinked(items, g_callbacks, op) /\ HeadsFirst(items, g_callbacks, op)
  BY <1>1, <1>2, <1>3 DEF OnePrevious, NewUnlinked, HeadsFirst, Second
<1>6. OneRemover(op) /\ TakenFirst(items, op) /\ PutNext(items, op) /\ DeletedGone(g_callbacks, op)
  BY <1>1, <1>2, <1>3 DEF OneRemover, TakenFirst, PutNext, DeletedGone, Holding
<1> QED
  BY <1>1, <1>4, <1>5, <1>6 DEF Clean, Tidy

\* The operation o fits what the other threads do.
OpTidy(its, heads, ops, t, o) ==
    /\ o.at \in Holding => Good(its, o.i, ListOf(o))
    /\ o.at \in Second => Good(its, o.other, ListOf(o))
    /\ o.at \in Linking =>
          /\ Unlinked(its, heads, o.other) /\ o.i # o.other
          /\ \A u \in Thread \ {t} : /\ ops[u].at \in Holding => ops[u].i # o.other
                                     /\ ops[u].at \in Second => ops[u].other # o.other
    /\ \A u \in Thread \ {t} : ops[u].at \in Linking => /\ o.at \in Holding => o.i # ops[u].other
                                                        /\ o.at \in Second => o.other # ops[u].other
    /\ \A u \in Thread \ {t} : o.at \in Removing /\ ops[u].at \in Removing => ListOf(ops[u]) # ListOf(o)
    /\ o.at \in Taking => \A j \in LiveItems(its) : its[j].next # o.i
    /\ o.at = "put" /\ o.other # 0 => /\ o.other # o.i
                                      /\ \A j \in LiveItems(its) : its[j].next = o.other => j = o.i
    /\ o.at = "delete" => \A ty \in Types : heads[ty] # o.i

\* An operation goes on as o.
LEMMA TidyGoesOn ==
    ASSUME NEW its, NEW heads, NEW ops, NEW fr, Tidy(its, heads, ops, fr), ops = [u \in Thread |-> ops[u]],
           NEW t \in Thread, NEW o, ops[t].at # "delete", OpTidy(its, heads, ops, t, o),
           NEW ops2, ops2 = [ops EXCEPT ![t] = o]
    PROVE  Tidy(its, heads, ops2, fr)
<1>1. \A u \in Thread : ops2[u] = IF u = t THEN o ELSE ops[u]
  OBVIOUS
<1>2. OpsGood(its, ops2)
  BY <1>1 DEF Tidy, OpsGood, OpTidy
<1>3. NewUnlinked(its, heads, ops2)
  <2>1. \A u \in Thread : ops[u].at \in Linking =>
            /\ Unlinked(its, heads, ops[u].other)
            /\ \A v \in Thread : ops[v].at \in Holding => ops[v].i # ops[u].other
            /\ \A v \in Thread \ {u} : ops[v].at \in Second => ops[v].other # ops[u].other
    BY DEF Tidy, NewUnlinked
  <2>2. /\ o.at \in Linking =>
              /\ Unlinked(its, heads, o.other) /\ o.i # o.other
              /\ \A u \in Thread \ {t} : /\ ops[u].at \in Holding => ops[u].i # o.other
                                         /\ ops[u].at \in Second => ops[u].other # o.other
        /\ \A u \in Thread \ {t} : ops[u].at \in Linking => /\ o.at \in Holding => o.i # ops[u].other
                                                            /\ o.at \in Second => o.other # ops[u].other
    BY DEF OpTidy
  <2> QED
    BY <1>1, <2>1, <2>2 DEF NewUnlinked
<1>4. HeadsFirst(its, heads, ops2)
  BY <1>1 DEF Tidy, HeadsFirst
<1>5. OneRemover(ops2)
  BY <1>1 DEF Tidy, OneRemover, OpTidy
<1>6. TakenFirst(its, ops2)
  BY <1>1 DEF Tidy, TakenFirst, OpTidy
<1>7. PutNext(its, ops2)
  BY <1>1 DEF Tidy, PutNext, OpTidy
<1>8. DeletedGone(heads, ops2)
  BY <1>1 DEF Tidy, DeletedGone, OpTidy
<1> QED
  BY <1>2, <1>3, <1>4, <1>5, <1>6, <1>7, <1>8 DEF Tidy

\* It ends, or has no item yet.
LEMMA OpLeaves ==
    ASSUME NEW its, NEW heads, NEW ops, NEW t, NEW o, o.at \notin Holding
    PROVE  OpTidy(its, heads, ops, t, o)
  BY DEF OpTidy, Holding, Second, Taking, Linking, Removing

LEMMA RestLeaves ==
    ASSUME NEW o
    PROVE  Rest(o).at \notin Holding
  BY DEF Rest, NoOp, Registering, Holding, Linking, Removing

\* A new item n of type ty, that nothing points to, makes its2 of the items.
Added(its, heads, ops, its2, n, ty) ==
    /\ n \notin DOMAIN its /\ n # 0 /\ ty \in Types
    /\ DOMAIN its2 = DOMAIN its \cup {n} /\ \A j \in DOMAIN its : its2[j] = its[j]
    /\ its2[n].next = 0 /\ its2[n].live /\ its2[n].ty = ty
    /\ \A x \in Types : heads[x] # n
    /\ \A j \in DOMAIN its : its[j].next # n
    /\ \A t \in Thread : /\ ops[t].at \in Holding \cup Second => ops[t].i # n /\ ops[t].other # n
                         /\ ops[t].at \in Linking => ops[t].other # 0
                         /\ ops[t].at \in Taking => ops[t].i # 0

LEMMA AppendTidy ==
    ASSUME NEW its, NEW heads, NEW ops, NEW fr, Tidy(its, heads, ops, fr),
           NEW its2, NEW n, NEW ty, Added(its, heads, ops, its2, n, ty)
    PROVE  Tidy(its2, heads, ops, fr) /\ Unlinked(its2, heads, n) /\ Good(its2, n, ty)
<1>0. /\ n \notin DOMAIN its /\ n # 0 /\ ty \in Types
      /\ DOMAIN its2 = DOMAIN its \cup {n} /\ \A j \in DOMAIN its : its2[j] = its[j]
      /\ its2[n].next = 0 /\ its2[n].live /\ its2[n].ty = ty
      /\ \A x \in Types : heads[x] # n
      /\ \A j \in DOMAIN its : its[j].next # n
  BY DEF Added
<1>1. LiveItems(its2) = LiveItems(its) \cup {n}
  BY <1>0 DEF LiveItems
<1>2. \A x, z : Good(its, x, z) => Good(its2, x, z)
  BY <1>0 DEF Good
<1>3. Good(its2, 0, ty) /\ \A j \in LiveItems(its) : j \in DOMAIN its /\ its2[j] = its[j]
  BY <1>0 DEF Good, LiveItems
<1>4. HeadsGood(its2, heads) /\ OpsGood(its2, ops) /\ FramesGood(its2, fr)
  BY <1>2 DEF Tidy, HeadsGood, OpsGood, FramesGood
<1>5. NextsGood(its2)
  BY <1>0, <1>1, <1>2, <1>3 DEF Tidy, NextsGood
<1>6. OnePrevious(its2)
  BY <1>0, <1>1, <1>3 DEF Tidy, OnePrevious
<1>7. Unlinked(its2, heads, n) /\ \A m : m # 0 /\ Unlinked(its, heads, m) => Unlinked(its2, heads, m)
  BY <1>0, <1>1, <1>3 DEF Unlinked
<1>8. NewUnlinked(its2, heads, ops)
  <2>1. \A t \in Thread : ops[t].at \in Linking => ops[t].other # 0
    BY DEF Added
  <2> QED
    BY <1>7, <2>1 DEF Tidy, NewUnlinked
<1>9. HeadsFirst(its2, heads, ops)
  BY <1>0, <1>1, <1>3 DEF Tidy, HeadsFirst
<1>10. \A t \in Thread : ops[t].at \in Taking => ops[t].i # 0
  BY DEF Added
<1>11. TakenFirst(its2, ops) /\ PutNext(its2, ops)
  BY <1>0, <1>1, <1>3, <1>10 DEF Tidy, TakenFirst, PutNext
<1>12. Good(its2, n, ty)
  BY <1>0 DEF Good
<1> QED
  BY <1>4, <1>5, <1>6, <1>7, <1>8, <1>9, <1>11, <1>12 DEF Tidy

\* The operation of t fits what the others do.
LEMMA OpFits ==
    ASSUME NEW its, NEW heads, NEW ops, NEW fr, Tidy(its, heads, ops, fr), NEW t \in Thread
    PROVE  OpTidy(its, heads, ops, t, ops[t])
<1> DEFINE o == ops[t]
<1>1. (o.at \in Holding => Good(its, o.i, ListOf(o))) /\ (o.at \in Second => Good(its, o.other, ListOf(o)))
  BY DEF Tidy, OpsGood
<1>2. o.at \in Linking =>
         /\ Unlinked(its, heads, o.other) /\ o.i # o.other
         /\ \A u \in Thread \ {t} : /\ ops[u].at \in Holding => ops[u].i # o.other
                                    /\ ops[u].at \in Second => ops[u].other # o.other
  BY DEF Tidy, NewUnlinked, Holding
<1>3. \A u \in Thread \ {t} : ops[u].at \in Linking => /\ o.at \in Holding => o.i # ops[u].other
                                                       /\ o.at \in Second => o.other # ops[u].other
  BY DEF Tidy, NewUnlinked
<1>4. \A u \in Thread \ {t} : o.at \in Removing /\ ops[u].at \in Removing => ListOf(ops[u]) # ListOf(o)
  BY DEF Tidy, OneRemover
<1>5. o.at \in Taking => \A j \in LiveItems(its) : its[j].next # o.i
  BY DEF Tidy, TakenFirst
<1>6. o.at = "put" /\ o.other # 0 => /\ o.other # o.i
                                     /\ \A j \in LiveItems(its) : its[j].next = o.other => j = o.i
  BY DEF Tidy, PutNext
<1>7. o.at = "delete" => \A ty \in Types : heads[ty] # o.i
  BY DEF Tidy, DeletedGone
<1> QED
  BY <1>1, <1>2, <1>3, <1>4, <1>5, <1>6, <1>7 DEF OpTidy

\* The steps on the lists.
LEMMA MoveClean ==
    ASSUME Sound, Clean, NEW t \in Thread, NEW o, Goes(t, o), UNCHANGED <<items, g_callbacks>>,
           failure = "none", op[t].at # "delete", careless => careless',
           ~careless' => OpTidy(items, g_callbacks, op, t, o)
    PROVE  Clean'
<1>1. op' = [op EXCEPT ![t] = o] /\ frame' = frame /\ failure' # "freed" /\ op = [u \in Thread |-> op[u]]
  BY DEF Goes, Sound, Ops
<1>2. ASSUME ~careless'
      PROVE  Tidy(items, g_callbacks, op', frame)
  <2>1. Tidy(items, g_callbacks, op, frame) /\ OpTidy(items, g_callbacks, op, t, o)
    BY <1>2 DEF Clean
  <2> QED
    BY <1>1, <2>1, TidyGoesOn
<1> QED
  BY <1>1, <1>2 DEF Clean

\* A step that changes no list and no operation.
LEMMA CalmClean ==
    ASSUME Clean, UNCHANGED <<items, g_callbacks, op, careless, frame>>, failure' # "freed"
    PROVE  Clean'
  BY DEF Clean

\* The item an operation is at work on, and the next one.
LEMMA HeldItem ==
    ASSUME Sound, Clean, ~careless, NEW t \in Thread, op[t].at \in Holding
    PROVE  LET i == op[t].i
           IN  /\ i \in LiveItems(items) /\ items[i].ty = ListOf(op[t]) /\ ~Dead(items, i)
               /\ Good(items, items[i].next, ListOf(op[t]))
<1> DEFINE i == op[t].i
<1>1. Tidy(items, g_callbacks, op, frame)
  BY DEF Clean
<1>2. i \in DOMAIN items /\ i # 0
  BY AtWork, ItemsTyped DEF Sound, Holding, Linking, Removing
<1>3. items[i].live /\ items[i].ty = ListOf(op[t])
  BY <1>1, <1>2 DEF Tidy, OpsGood, Good
<1>4. i \in LiveItems(items)
  BY <1>2, <1>3 DEF LiveItems
<1> QED
  BY <1>1, <1>3, <1>4 DEF Tidy, NextsGood, Dead

LEMMA FailsClean ==
    ASSUME Sound, Clean, NEW t \in Thread, op[t].at \in Holding, Dead(items, op[t].i), Fails("freed")
    PROVE  Clean'
<1>1. careless
  BY HeldItem
<1> QED
  BY <1>1 DEF Fails, lists, Clean

LEMMA addNextClean ==
    ASSUME Sound, Clean, NEW t \in Thread, addNext(t)
    PROVE  Clean'
<1> DEFINE i == op[t].i
           next == items[i].next
           link == [op[t] EXCEPT !.at = "link"]
           walk == [op[t] EXCEPT !.i = next]
<1>1. /\ failure = "none" /\ op[t].at = "walk"
      /\ IF Dead(items, i) THEN Fails("freed")
         ELSE /\ Goes(t, IF next = 0 THEN link ELSE walk)
              /\ UNCHANGED <<items, g_callbacks, careless>>
  BY DEF addNext
<1>2. op[t].at \in Holding /\ op[t].at \in Linking
  BY <1>1 DEF Holding, Linking
<1>3. CASE Dead(items, i)
  BY <1>1, <1>2, <1>3, FailsClean
<1>4. CASE ~Dead(items, i)
  <2>1. /\ link.at = "link" /\ link.i = i /\ link.other = op[t].other /\ ListOf(link) = ListOf(op[t])
        /\ walk.at = "walk" /\ walk.i = next /\ walk.other = op[t].other /\ ListOf(walk) = ListOf(op[t])
    <3>1. op[t] \in OpType(Len(items))
      BY <1>1, AtWork
    <3> HIDE DEF next
    <3>2. link.at = "link" /\ link.i = i /\ link.other = op[t].other /\ ListOf(link) = ListOf(op[t])
      BY <3>1 DEF OpType, ListOf
    <3>3. walk.at = "walk" /\ walk.i = next /\ walk.other = op[t].other /\ ListOf(walk) = ListOf(op[t])
      BY <1>1, <3>1 DEF OpType, ListOf
    <3> QED
      BY <3>2, <3>3
  <2>2. "walk" \in Second /\ "link" \in Second /\ {"walk", "link"} \cap (Removing \cup Taking) = {}
    BY DEF Second, Linking, Removing, Taking
  <2>3. ASSUME ~careless
        PROVE  OpTidy(items, g_callbacks, op, t, link) /\ OpTidy(items, g_callbacks, op, t, walk)
    <3>1. Tidy(items, g_callbacks, op, frame) /\ OpTidy(items, g_callbacks, op, t, op[t])
      BY <2>3, OpFits DEF Clean
    <3>2. i \in LiveItems(items) /\ Good(items, next, ListOf(op[t]))
      BY <1>2, <2>3, HeldItem
    <3>3. \A u \in Thread : op[u].at \in Linking => next # op[u].other
      BY <3>1, <3>2 DEF Tidy, NewUnlinked, Unlinked
    <3> HIDE DEF link, walk, next, i
    <3>4. OpTidy(items, g_callbacks, op, t, link)
      BY <1>1, <2>1, <2>2, <3>1 DEF OpTidy, Holding, Linking, Second, i
    <3>5. OpTidy(items, g_callbacks, op, t, walk)
      BY <1>1, <2>1, <2>2, <3>1, <3>2, <3>3 DEF OpTidy, Holding, Linking, Second
    <3> QED
      BY <3>4, <3>5
  <2> HIDE DEF link, walk
  <2> QED
    BY <1>1, <1>4, <2>3, MoveClean
<1> QED
  BY <1>3, <1>4

LEMMA comparesClean ==
    ASSUME Sound, Clean, NEW t \in Thread, compares(t)
    PROVE  Clean'
<1> DEFINE at == IF items[op[t].i].cb = op[t].cb THEN "unlink" ELSE "seek"
           o == [op[t] EXCEPT !.at = at]
<1>1. /\ failure = "none" /\ op[t].at = "compare" /\ at \in {"unlink", "seek"}
      /\ IF Dead(items, op[t].i) THEN Fails("freed")
         ELSE Goes(t, o) /\ UNCHANGED <<items, g_callbacks, careless>>
  BY DEF compares
<1> HIDE DEF at
<1>2. op[t].at \in Holding /\ op[t].at \in Removing /\ op[t].at \in Taking
  BY <1>1 DEF Holding, Removing, Taking
<1>3. CASE Dead(items, op[t].i)
  BY <1>1, <1>2, <1>3, FailsClean
<1>4. CASE ~Dead(items, op[t].i)
  <2>1. o.at = at /\ o.i = op[t].i /\ ListOf(o) = ListOf(op[t])
    <3>1. op[t] \in OpType(Len(items))
      BY <1>1, AtWork
    <3> QED
      BY <3>1 DEF OpType, ListOf
  <2> HIDE DEF o
  <2>2. at \notin Second /\ at # "put" /\ at # "delete" /\ at \notin Linking
    BY <1>1 DEF Second, Linking
  <2>3. ASSUME ~careless
        PROVE  OpTidy(items, g_callbacks, op, t, o)
    <3>1. OpTidy(items, g_callbacks, op, t, op[t])
      BY <2>3, OpFits DEF Clean
    <3> QED
      BY <1>2, <2>1, <2>2, <3>1 DEF OpTidy
  <2> QED
    BY <1>1, <1>4, <2>3, MoveClean
<1> QED
  BY <1>3, <1>4

LEMMA unlinksClean ==
    ASSUME Sound, Clean, NEW t \in Thread, unlinks(t)
    PROVE  Clean'
<1> DEFINE i == op[t].i
           next == items[i].next
           o == [op[t] EXCEPT !.at = "put", !.other = next]
<1>1. /\ failure = "none" /\ op[t].at = "unlink"
      /\ IF Dead(items, i) THEN Fails("freed")
         ELSE Goes(t, o) /\ UNCHANGED <<items, g_callbacks, careless>>
  BY DEF unlinks
<1>2. op[t].at \in Holding /\ op[t].at \in Removing /\ op[t].at \in Taking
  BY <1>1 DEF Holding, Removing, Taking
<1>3. CASE Dead(items, i)
  BY <1>1, <1>2, <1>3, FailsClean
<1>4. CASE ~Dead(items, i)
  <2>1. o.at = "put" /\ o.i = i /\ o.other = next /\ ListOf(o) = ListOf(op[t])
    <3>1. op[t] \in OpType(Len(items))
      BY <1>1, AtWork
    <3> HIDE DEF i, next
    <3> QED
      BY <3>1 DEF OpType, ListOf, i
  <2>2. o.at \notin Linking /\ o.at # "delete"
    BY <2>1 DEF Linking
  <2>3. ASSUME ~careless
        PROVE  OpTidy(items, g_callbacks, op, t, o)
    <3>1. Tidy(items, g_callbacks, op, frame) /\ OpTidy(items, g_callbacks, op, t, op[t])
      BY <2>3, OpFits DEF Clean
    <3>2. i \in LiveItems(items) /\ Good(items, next, ListOf(op[t]))
      BY <1>2, <2>3, HeldItem
    <3>3. \A u \in Thread : op[u].at \in Linking => next # op[u].other
      BY <3>1, <3>2 DEF Tidy, NewUnlinked, Unlinked
    <3>4. next # i
      BY <1>2, <3>1, <3>2 DEF Tidy, TakenFirst
    <3>5. next # 0 => \A j \in LiveItems(items) : items[j].next = next => j = i
      BY <3>1, <3>2 DEF Tidy, OnePrevious
    <3> HIDE DEF o, next, i
    <3> QED
      BY <1>2, <2>1, <2>2, <3>1, <3>2, <3>3, <3>4, <3>5 DEF OpTidy, i
  <2> HIDE DEF o
  <2> QED
    BY <1>1, <1>4, <2>3, MoveClean
<1> QED
  BY <1>3, <1>4

LEMMA seeksClean ==
    ASSUME Sound, Clean, NEW t \in Thread, seeks(t)
    PROVE  Clean'
<1> DEFINE i == op[t].i
           next == items[i].next
           o == [op[t] EXCEPT !.at = "match", !.i = next]
<1>1. /\ failure = "none" /\ op[t].at = "seek"
      /\ IF Dead(items, i) THEN Fails("freed")
         ELSE Goes(t, IF next = 0 THEN NoOp ELSE o) /\ UNCHANGED <<items, g_callbacks, careless>>
  BY DEF seeks
<1>2. op[t].at \in Holding /\ op[t].at \in Removing
  BY <1>1 DEF Holding, Removing
<1>3. CASE Dead(items, i)
  BY <1>1, <1>2, <1>3, FailsClean
<1>4. CASE ~Dead(items, i) /\ next # 0
  <2>1. o.at = "match" /\ o.i = next /\ ListOf(o) = ListOf(op[t])
    <3>1. op[t] \in OpType(Len(items))
      BY <1>1, AtWork
    <3> HIDE DEF next
    <3> QED
      BY <3>1 DEF OpType, ListOf
  <2>2. o.at \notin Second \cup Taking \cup Linking
    BY <2>1 DEF Linking, Second, Taking
  <2>3. ASSUME ~careless
        PROVE  OpTidy(items, g_callbacks, op, t, o)
    <3>1. Tidy(items, g_callbacks, op, frame) /\ OpTidy(items, g_callbacks, op, t, op[t])
      BY <2>3, OpFits DEF Clean
    <3>2. i \in LiveItems(items) /\ Good(items, next, ListOf(op[t]))
      BY <1>2, <2>3, HeldItem
    <3>3. \A u \in Thread : op[u].at \in Linking => next # op[u].other
      BY <3>1, <3>2 DEF Tidy, NewUnlinked, Unlinked
    <3> HIDE DEF o, next, i
    <3> QED
      BY <1>2, <2>1, <2>2, <3>1, <3>2, <3>3 DEF OpTidy
  <2> HIDE DEF o
  <2> QED
    BY <1>1, <1>4, <2>3, MoveClean
<1>5. CASE ~Dead(items, i) /\ next = 0
  <2>1. OpTidy(items, g_callbacks, op, t, NoOp)
    BY OpLeaves DEF NoOp, Holding, Linking, Removing
  <2> QED
    BY <1>1, <1>5, <2>1, MoveClean
<1> QED
  BY <1>3, <1>4, <1>5

LEMMA matchesClean ==
    ASSUME Sound, Clean, NEW t \in Thread, matches(t)
    PROVE  Clean'
<1> DEFINE same == items[op[t].i].cb = op[t].cb
           at == IF same THEN "delete" ELSE "seek"
           o == [op[t] EXCEPT !.at = at]
<1>1. /\ failure = "none" /\ op[t].at = "match"
      /\ IF Dead(items, op[t].i) THEN Fails("freed")
         ELSE Goes(t, o) /\ UNCHANGED <<items, g_callbacks>> /\ careless' = (careless \/ same)
  BY DEF matches
<1>2. op[t].at \in Holding /\ op[t].at \in Removing
  BY <1>1 DEF Holding, Removing
<1>3. CASE Dead(items, op[t].i)
  BY <1>1, <1>2, <1>3, FailsClean
<1>4. CASE ~Dead(items, op[t].i)
  <2>1. o.at = at /\ o.i = op[t].i /\ ListOf(o) = ListOf(op[t])
    <3>1. op[t] \in OpType(Len(items))
      BY <1>1, AtWork
    <3> HIDE DEF at
    <3> QED
      BY <3>1 DEF OpType, ListOf
  <2> HIDE DEF o
  <2>2. ~same => o.at \notin Second \cup Taking \cup Linking /\ o.at # "put" /\ o.at # "delete"
    BY <2>1 DEF Second, Linking, Taking
  <2> HIDE DEF same, at
  <2>3. ASSUME ~careless, ~same
        PROVE  OpTidy(items, g_callbacks, op, t, o)
    <3>1. OpTidy(items, g_callbacks, op, t, op[t])
      BY <2>3, OpFits DEF Clean
    <3> QED
      BY <1>2, <2>1, <2>2, <2>3, <3>1 DEF OpTidy
  <2> QED
    BY <1>1, <1>4, <2>3, MoveClean
<1> QED
  BY <1>3, <1>4

\* A registration that has no item yet.
LEMMA readsHeadClean ==
    ASSUME Sound, Clean, NEW t \in Thread, readsHead(t)
    PROVE  Clean'
<1> DEFINE at == IF g_callbacks[ListOf(op[t])] = 0 THEN "first" ELSE "again"
           o == [op[t] EXCEPT !.at = at]
<1>1. /\ failure = "none" /\ op[t].at = "head" /\ at \in {"first", "again"}
      /\ Goes(t, o) /\ UNCHANGED <<items, g_callbacks, careless>>
  BY DEF readsHead
<1> HIDE DEF at
<1>2. o.at = at
  BY <1>1, AtWork DEF OpType
<1>3. OpTidy(items, g_callbacks, op, t, o)
  BY <1>1, <1>2, OpLeaves DEF Holding, Linking, Removing
<1> HIDE DEF o
<1> QED
  BY <1>1, <1>3, MoveClean

LEMMA registersClean ==
    ASSUME Sound, Clean, NEW t \in Thread, NEW todo, NEW cb, registers(t, todo, cb)
    PROVE  Clean'
<1> DEFINE o == [Registering(todo, cb) EXCEPT !.at = IF hasArray THEN "head" ELSE "array"]
<1>1. Goes(t, o) /\ UNCHANGED <<items, g_callbacks, careless>> /\ failure = "none" /\ op[t].at = "none"
  BY DEF registers, Begins, Ready
<1>2. o.at \in {"head", "array"}
  BY DEF Registering
<1>3. OpTidy(items, g_callbacks, op, t, o)
  BY <1>2, OpLeaves DEF Holding, Linking, Removing
<1> HIDE DEF o
<1> QED
  BY <1>1, <1>3, MoveClean

\* What is known of an operation at work on an item.
LEMMA NotNull ==
    ASSUME Sound, NEW t \in Thread
    PROVE  /\ op[t].at \in Holding => op[t].i # 0
           /\ op[t].at \in Linking => op[t].other # 0
           /\ op[t].at \in Holding => op[t].i \in 0..Len(items) /\ op[t].other \in 0..Len(items)
<1>1. OpOK(op[t], Len(items))
  BY DEF Sound, Ops
<1>2. op[t].at = "none" => op[t].at \notin Holding /\ op[t].at \notin Linking
  BY DEF Holding, Linking, Removing
<1>3. CASE op[t] = NoOp
  BY <1>2, <1>3 DEF NoOp
<1>4. CASE op[t] # NoOp
  BY <1>1, <1>4 DEF OpOK, OpType, Holding
<1> QED
  BY <1>3, <1>4

LEMMA makesArrayClean ==
    ASSUME Sound, Clean, NEW t \in Thread, makesArray(t)
    PROVE  Clean'
<1> DEFINE o == [op[t] EXCEPT !.at = "head"]
<1>1. /\ failure = "none" /\ op[t].at = "array" /\ Goes(t, o) /\ UNCHANGED <<items, careless>>
      /\ \A ty \in Types : g_callbacks'[ty] = 0
  BY DEF makesArray
<1>2. o.at = "head"
  BY <1>1, AtWork DEF OpType
<1> HIDE DEF o
<1>3. ASSUME ~careless
      PROVE  Tidy(items, g_callbacks', op', frame)
  <2>1. Tidy(items, g_callbacks, op, frame)
    BY <1>3 DEF Clean
  <2>2. HeadsGood(items, g_callbacks') /\ HeadsFirst(items, g_callbacks', op)
    BY <1>1 DEF HeadsGood, HeadsFirst, Good
  <2>3. NewUnlinked(items, g_callbacks', op)
    BY <1>1, <2>1, NotNull DEF Tidy, NewUnlinked, Unlinked
  <2>4. DeletedGone(g_callbacks', op)
    BY <1>1, NotNull DEF DeletedGone, Holding, Removing
  <2>5. Tidy(items, g_callbacks', op, frame)
    BY <2>1, <2>2, <2>3, <2>4 DEF Tidy
  <2>6. OpTidy(items, g_callbacks', op, t, o)
    BY <1>2, OpLeaves DEF Holding, Linking, Removing
  <2> QED
    BY <1>1, <2>5, <2>6, TidyGoesOn DEF Goes, Sound, Ops
<1> QED
  BY <1>1, <1>3 DEF Clean, Goes

\* An item that nothing points to becomes a head.
LEMMA HeadPut ==
    ASSUME NEW its, NEW heads, NEW ops, NEW fr, Tidy(its, heads, ops, fr), NEW ty \in Types,
           NEW n, n # 0, Good(its, n, ty), Unlinked(its, heads, n),
           \A u \in Thread : /\ ops[u].at \in Holding => ops[u].i # n
                             /\ ops[u].at \in Second => ops[u].other # n,
           NEW heads2, \A x \in Types : heads2[x] = IF x = ty THEN n ELSE heads[x]
    PROVE  Tidy(its, heads2, ops, fr)
<1>1. HeadsGood(its, heads2)
  BY DEF Tidy, HeadsGood
<1>2. \A u \in Thread : ops[u].at \in Linking => Unlinked(its, heads2, ops[u].other)
  BY DEF Tidy, NewUnlinked, Unlinked, Second
<1>3. NewUnlinked(its, heads2, ops)
  BY <1>2 DEF Tidy, NewUnlinked
<1>4. HeadsFirst(its, heads2, ops)
  BY DEF Tidy, HeadsFirst, Unlinked
<1>5. DeletedGone(heads2, ops)
  BY DEF Tidy, DeletedGone, Holding, Removing
<1> QED
  BY <1>1, <1>3, <1>4, <1>5 DEF Tidy

\* It is linked to a live one.
LEMMA LinkPut ==
    ASSUME NEW its, NEW heads, NEW ops, NEW fr, Tidy(its, heads, ops, fr), NEW k \in LiveItems(its),
           NEW n, n # 0, Good(its, n, its[k].ty), Unlinked(its, heads, n),
           \A u \in Thread : /\ ops[u].at \in Holding => ops[u].i # n
                             /\ ops[u].at \in Second => ops[u].other # n,
           NEW its2, DOMAIN its2 = DOMAIN its,
           \A j \in DOMAIN its : /\ its2[j].next = IF j = k THEN n ELSE its[j].next
                                 /\ its2[j].live = its[j].live /\ its2[j].ty = its[j].ty
    PROVE  Tidy(its2, heads, ops, fr)
<1>1. LiveItems(its2) = LiveItems(its) /\ LiveItems(its) \subseteq DOMAIN its
  BY DEF LiveItems
<1>2. \A x, z : Good(its, x, z) => Good(its2, x, z)
  BY DEF Good
<1>3. HeadsGood(its2, heads) /\ OpsGood(its2, ops) /\ FramesGood(its2, fr)
  BY <1>2 DEF Tidy, HeadsGood, OpsGood, FramesGood
<1>4. \A j \in LiveItems(its) : its2[j].next = (IF j = k THEN n ELSE its[j].next) /\ its2[j].ty = its[j].ty
  BY <1>1
<1>5. NextsGood(its2)
  BY <1>1, <1>2, <1>4 DEF Tidy, NextsGood
<1>6. OnePrevious(its2)
  BY <1>1, <1>4 DEF Tidy, OnePrevious, Unlinked
<1>7. \A m : m # n /\ Unlinked(its, heads, m) => Unlinked(its2, heads, m)
  BY <1>1, <1>4 DEF Unlinked
<1>8. NewUnlinked(its2, heads, ops)
  BY <1>7 DEF Tidy, NewUnlinked, Second
<1>9. HeadsFirst(its2, heads, ops)
  BY <1>1, <1>4 DEF Tidy, HeadsFirst, Unlinked
<1>10. TakenFirst(its2, ops)
  BY <1>1, <1>4 DEF Tidy, TakenFirst, Taking, Holding, Removing
<1>11. PutNext(its2, ops)
  BY <1>1, <1>4 DEF Tidy, PutNext, Second
<1> QED
  BY <1>3, <1>5, <1>6, <1>8, <1>9, <1>10, <1>11 DEF Tidy

\* The head is moved to the next item.
LEMMA HeadTaken ==
    ASSUME NEW its, NEW heads, NEW ops, NEW fr, Tidy(its, heads, ops, fr),
           ops = [u \in Thread |-> ops[u]], \A u \in Thread : ops[u].at \in Holding => ops[u].i # 0,
           \A u \in Thread : ops[u].at \in Linking => ops[u].other # 0,
           NEW t \in Thread, ops[t].at = "put", NEW ty \in Types, ty = ListOf(ops[t]),
           NEW o, o.at = "delete", o.i = ops[t].i, ListOf(o) = ty,
           NEW ops2, ops2 = [ops EXCEPT ![t] = o],
           NEW heads2, \A x \in Types : heads2[x] = IF x = ty THEN ops[t].other ELSE heads[x]
    PROVE  Tidy(its, heads2, ops2, fr)
<1> DEFINE n == ops[t].other
           i == ops[t].i
<1>1. \A u \in Thread : ops2[u] = IF u = t THEN o ELSE ops[u]
  OBVIOUS
<1>2. /\ "put" \in Holding \cap Removing \cap Second \cap Taking
      /\ "delete" \in Holding \cap Removing \cap Taking /\ "delete" \notin Second /\ "delete" \notin Linking
  BY DEF Holding, Removing, Second, Taking, Linking
<1>3. Good(its, n, ty) /\ Good(its, i, ty) /\ i # 0
  BY <1>2 DEF Tidy, OpsGood
<1>4. n # 0 => n # i /\ \A j \in LiveItems(its) : its[j].next = n => j = i
  BY DEF Tidy, PutNext
<1>5. HeadsGood(its, heads2)
  BY <1>3 DEF Tidy, HeadsGood
<1>6. OpsGood(its, ops2)
  BY <1>1, <1>2, <1>3 DEF Tidy, OpsGood
<1>7. NewUnlinked(its, heads2, ops2)
  <2>1. ASSUME NEW u \in Thread, ops2[u].at \in Linking
        PROVE  /\ Unlinked(its, heads2, ops2[u].other)
               /\ \A v \in Thread : ops2[v].at \in Holding => ops2[v].i # ops2[u].other
               /\ \A v \in Thread \ {u} : ops2[v].at \in Second => ops2[v].other # ops2[u].other
    <3>1. u # t /\ ops2[u] = ops[u] /\ ops[u].at \in Linking
      BY <1>1, <1>2, <2>1
    <3>2. /\ Unlinked(its, heads, ops[u].other)
          /\ \A v \in Thread : ops[v].at \in Holding => ops[v].i # ops[u].other
          /\ \A v \in Thread \ {u} : ops[v].at \in Second => ops[v].other # ops[u].other
      BY <3>1 DEF Tidy, NewUnlinked
    <3>3. n # ops[u].other
      BY <1>2, <3>1, <3>2
    <3>4. Unlinked(its, heads2, ops[u].other)
      BY <3>2, <3>3 DEF Unlinked
    <3> QED
      BY <1>1, <1>2, <3>1, <3>2, <3>4
  <2> QED
    BY <2>1 DEF NewUnlinked
<1>8. HeadsFirst(its, heads2, ops2)
  <2>1. ASSUME NEW x \in Types, NEW j \in LiveItems(its), its[j].next = heads2[x], heads2[x] # 0
        PROVE  \E u \in Thread : ops2[u].at = "delete" /\ ops2[u].i = j
    <3>1. CASE x = ty
      BY <1>1, <1>4, <2>1, <3>1
    <3>2. CASE x # ty
      <4>1. PICK u \in Thread : ops[u].at = "delete" /\ ops[u].i = j
        BY <2>1, <3>2 DEF Tidy, HeadsFirst
      <4> QED
        BY <1>1, <4>1
    <3> QED
      BY <3>1, <3>2
  <2> QED
    BY <2>1 DEF HeadsFirst
<1>9. OneRemover(ops2)
  BY <1>1, <1>2 DEF Tidy, OneRemover
<1>10. TakenFirst(its, ops2)
  BY <1>1, <1>2 DEF Tidy, TakenFirst
<1>11. PutNext(its, ops2)
  BY <1>1 DEF Tidy, PutNext
<1>12. DeletedGone(heads2, ops2)
  <2>1. ASSUME NEW u \in Thread, ops2[u].at = "delete", NEW x \in Types, heads2[x] = ops2[u].i
        PROVE  FALSE
    <3>1. CASE u = t
      <4>1. Good(its, heads[x], x)
        BY DEF Tidy, HeadsGood
      <4> QED
        BY <1>1, <1>3, <1>4, <2>1, <3>1, <4>1 DEF Good
    <3>2. CASE u # t
      <4>1. ops[u].at = "delete" /\ ops2[u].i = ops[u].i /\ ops[u].i # 0 /\ ListOf(ops[u]) # ty
        BY <1>1, <1>2, <2>1, <3>2 DEF Tidy, OneRemover
      <4>2. x = ty /\ ops[u].i = n
        BY <2>1, <4>1 DEF Tidy, DeletedGone
      <4>3. Good(its, ops[u].i, ListOf(ops[u]))
        BY <1>2, <4>1 DEF Tidy, OpsGood
      <4> QED
        BY <1>3, <4>1, <4>2, <4>3 DEF Good
    <3> QED
      BY <3>1, <3>2
  <2> QED
    BY <2>1 DEF DeletedGone
<1> QED
  BY <1>5, <1>6, <1>7, <1>8, <1>9, <1>10, <1>11, <1>12 DEF Tidy

\* The item that was the head is deleted, while nobody uses its list.
LEMMA HeadDeleted ==
    ASSUME NEW its, NEW heads, NEW ops, NEW fr, Tidy(its, heads, ops, fr),
           ops = [u \in Thread |-> ops[u]], NEW t \in Thread, ops[t].at = "delete",
           NEW i, i = ops[t].i, i \in LiveItems(its), NEW ty, ty = ListOf(ops[t]), its[i].ty = ty,
           \A u \in Thread \ {t} : ops[u].at # "none" => ListOf(ops[u]) # ty,
           \A u \in Thread : fr[u].at # "app" => fr[u].call.nr # ty,
           NEW its2, DOMAIN its2 = DOMAIN its, ~its2[i].live,
           \A j \in DOMAIN its : j # i => its2[j] = its[j],
           NEW ops2, ops2 = [ops EXCEPT ![t] = NoOp]
    PROVE  Tidy(its2, heads, ops2, fr)
<1>1. \A u \in Thread : ops2[u] = IF u = t THEN NoOp ELSE ops[u]
  OBVIOUS
<1>2. NoOp.at \notin Holding \cup Second \cup Taking \cup Linking \cup Removing /\ NoOp.at = "none"
      /\ "delete" \in Taking /\ "none" \notin Holding \cup Second
  BY DEF NoOp, Holding, Second, Taking, Linking, Removing
<1>3. LiveItems(its2) = LiveItems(its) \ {i} /\ \A j \in LiveItems(its2) : its2[j] = its[j]
  BY DEF LiveItems
<1>4. \A x, z : Good(its, x, z) /\ x # i => Good(its2, x, z)
  BY DEF Good
<1>5. \A x, z : Good(its, x, z) /\ z # ty => Good(its2, x, z)
  BY DEF Good
<1>6. (\A x \in Types : heads[x] # i) /\ \A j \in LiveItems(its) : its[j].next # i
  BY <1>2 DEF Tidy, DeletedGone, TakenFirst
<1>7. HeadsGood(its2, heads)
  BY <1>4, <1>6 DEF Tidy, HeadsGood
<1>8. NextsGood(its2)
  BY <1>3, <1>4, <1>6 DEF Tidy, NextsGood
<1>9. OpsGood(its2, ops2)
  BY <1>1, <1>2, <1>5 DEF Tidy, OpsGood
<1>10. FramesGood(its2, fr)
  BY <1>5 DEF Tidy, FramesGood
<1>11. OnePrevious(its2)
  BY <1>3 DEF Tidy, OnePrevious
<1>12. NewUnlinked(its2, heads, ops2)
  BY <1>1, <1>2, <1>3 DEF Tidy, NewUnlinked, Unlinked
<1>13. HeadsFirst(its2, heads, ops2)
  <2>1. ASSUME NEW x \in Types, NEW j \in LiveItems(its2), its2[j].next = heads[x], heads[x] # 0
        PROVE  \E u \in Thread : ops2[u].at = "delete" /\ ops2[u].i = j
    <3>1. j # i /\ j \in LiveItems(its) /\ its[j].next = heads[x]
      BY <1>3, <2>1
    <3>2. PICK u \in Thread : ops[u].at = "delete" /\ ops[u].i = j
      BY <2>1, <3>1 DEF Tidy, HeadsFirst
    <3> QED
      BY <1>1, <3>1, <3>2
  <2> QED
    BY <2>1 DEF HeadsFirst
<1>14. OneRemover(ops2)
  BY <1>1, <1>2 DEF Tidy, OneRemover
<1>15. TakenFirst(its2, ops2)
  BY <1>1, <1>2, <1>3 DEF Tidy, TakenFirst
<1>16. PutNext(its2, ops2)
  BY <1>1, <1>2, <1>3 DEF Tidy, PutNext
<1>17. DeletedGone(heads, ops2)
  BY <1>1, <1>2 DEF Tidy, DeletedGone
<1> QED
  BY <1>7, <1>8, <1>9, <1>10, <1>11, <1>12, <1>13, <1>14, <1>15, <1>16, <1>17 DEF Tidy

\* A new item of the operation of t, in the lists of any state.
LEMMA NewIsTidy ==
    ASSUME Sound, Clean, ~careless, NEW t \in Thread, op[t].at # "none", items' = Append(items, New(op[t]))
    PROVE  LET n == Len(items) + 1
           IN  /\ n # 0 /\ Tidy(items', g_callbacks, op, frame) /\ Unlinked(items', g_callbacks, n)
               /\ Good(items', n, ListOf(op[t]))
               /\ \A u \in Thread : /\ op[u].at \in Holding => op[u].i # n
                                    /\ op[u].at \in Second => op[u].other # n
<1> DEFINE n == Len(items) + 1
           ty == ListOf(op[t])
<1>1. Len(items) \in Nat /\ DOMAIN items = 1..Len(items) /\ ty \in Types
      /\ \A x \in Types : g_callbacks[x] \in 0..Len(items)
      /\ \A j \in DOMAIN items : items[j].next \in 0..Len(items)
  BY AtWork, ItemsTyped DEF Sound
<1>2. DOMAIN items' = DOMAIN items \cup {n} /\ (\A j \in DOMAIN items : items'[j] = items[j])
      /\ items'[n] = New(op[t])
  <2> DEFINE item == New(op[t])
  <2>1. items \in Seq(ItemType(Len(items)))
    BY DEF Sound, ListsTyped
  <2> HIDE DEF item
  <2>2. Len(items') = n /\ DOMAIN items' = 1..n /\ items'[n] = item
        /\ \A j \in 1..Len(items) : items'[j] = items[j]
    BY <1>1, <2>1 DEF item
  <2> QED
    BY <1>1, <2>2 DEF item
<1>3. items'[n].next = 0 /\ items'[n].live /\ items'[n].ty = ty
  BY <1>2 DEF New
<1>4. n \notin DOMAIN items /\ n # 0 /\ n \notin 0..Len(items)
  BY <1>1
<1>5. \A u \in Thread : /\ op[u].at \in Holding \cup Second => op[u].i # n /\ op[u].other # n
                        /\ op[u].at \in Linking => op[u].other # 0
                        /\ op[u].at \in Taking => op[u].i # 0
  <2>1. Second \subseteq Holding /\ Taking \subseteq Holding
    BY DEF Second, Taking, Holding, Removing
  <2> QED
    BY <1>4, <2>1, NotNull
<1> HIDE DEF n, ty
<1>6. (\A x \in Types : g_callbacks[x] # n) /\ \A j \in DOMAIN items : items[j].next # n
  BY <1>1, <1>4
<1>7. Tidy(items, g_callbacks, op, frame)
  BY DEF Clean
<1>8. Tidy(items', g_callbacks, op, frame) /\ Unlinked(items', g_callbacks, n) /\ Good(items', n, ty)
  <2>1. Added(items, g_callbacks, op, items', n, ty)
    BY <1>1, <1>2, <1>3, <1>4, <1>5, <1>6 DEF Added
  <2> QED
    BY <1>7, <2>1, AppendTidy
<1> QED
  BY <1>4, <1>5, <1>8 DEF n, ty

LEMMA putsFirstClean ==
    ASSUME Sound, Clean, NEW t \in Thread, putsFirst(t)
    PROVE  Clean'
<1> DEFINE n == Len(items) + 1
           ty == ListOf(op[t])
<1>1. /\ failure = "none" /\ op[t].at = "first" /\ Goes(t, Rest(op[t])) /\ careless' = careless
      /\ items' = Append(items, New(op[t])) /\ g_callbacks' = [g_callbacks EXCEPT ![ty] = n]
  BY DEF putsFirst
<1> HIDE DEF n
<1>2. ASSUME ~careless
      PROVE  Tidy(items', g_callbacks', op', frame)
  <2>1. /\ n # 0 /\ Tidy(items', g_callbacks, op, frame) /\ Unlinked(items', g_callbacks, n)
        /\ Good(items', n, ty)
        /\ \A u \in Thread : /\ op[u].at \in Holding => op[u].i # n
                             /\ op[u].at \in Second => op[u].other # n
    BY <1>1, <1>2, NewIsTidy DEF n
  <2>2. ty \in Types
    BY <1>1, AtWork
  <2> HIDE DEF ty
  <2>3. \A x \in Types : g_callbacks'[x] = IF x = ty THEN n ELSE g_callbacks[x]
    BY <1>1 DEF Sound, ListsTyped
  <2>4. Tidy(items', g_callbacks', op, frame)
    BY <2>1, <2>2, <2>3, HeadPut
  <2>5. OpTidy(items', g_callbacks', op, t, Rest(op[t]))
    BY RestLeaves, OpLeaves
  <2> QED
    BY <1>1, <2>4, <2>5, TidyGoesOn DEF Goes, Sound, Ops
<1> QED
  BY <1>1, <1>2 DEF Clean, Goes

LEMMA createsClean ==
    ASSUME Sound, Clean, NEW t \in Thread, creates(t)
    PROVE  Clean'
<1> DEFINE head == g_callbacks[ListOf(op[t])]
           n == Len(items) + 1
           o == [op[t] EXCEPT !.at = "walk", !.i = head, !.other = n]
<1>1. /\ failure = "none" /\ op[t].at = "again"
      /\ IF head = 0 THEN Fails("nohead")
         ELSE /\ items' = Append(items, New(op[t])) /\ Goes(t, o)
              /\ UNCHANGED <<g_callbacks, careless>>
  BY DEF creates
<1>2. CASE head = 0
  BY <1>1, <1>2, CalmClean DEF Fails, lists
<1>3. CASE head # 0
  <2>1. o.at = "walk" /\ o.i = head /\ o.other = n /\ ListOf(o) = ListOf(op[t]) /\ ListOf(op[t]) \in Types
    <3>1. op[t] \in OpType(Len(items)) /\ ListOf(op[t]) \in Types
      BY <1>1, AtWork
    <3> HIDE DEF head, n
    <3> QED
      BY <3>1 DEF OpType, ListOf
  <2>2. "walk" \in Linking \cap Second \cap Holding /\ "walk" \notin Removing \cup Taking
    BY DEF Linking, Second, Holding, Removing, Taking
  <2>3. ASSUME ~careless
        PROVE  Tidy(items', g_callbacks', op', frame)
    <3>1. /\ Tidy(items', g_callbacks, op, frame) /\ Unlinked(items', g_callbacks, n)
          /\ Good(items', n, ListOf(op[t]))
          /\ \A u \in Thread : /\ op[u].at \in Holding => op[u].i # n
                               /\ op[u].at \in Second => op[u].other # n
      BY <1>1, <1>3, <2>3, NewIsTidy
    <3>2. Good(items', head, ListOf(op[t])) /\ head # n
      BY <2>1, <3>1 DEF Tidy, HeadsGood, Unlinked
    <3>3. \A u \in Thread \ {t} : op[u].at \in Linking => head # op[u].other /\ n # op[u].other
      BY <2>1, <3>1 DEF Tidy, NewUnlinked, Unlinked, Second
    <3> HIDE DEF o, head, n
    <3>4. OpTidy(items', g_callbacks, op, t, o)
      BY <2>1, <2>2, <3>1, <3>2, <3>3 DEF OpTidy
    <3> QED
      BY <1>1, <1>3, <3>1, <3>4, TidyGoesOn DEF Goes, Sound, Ops
  <2> HIDE DEF o
  <2> QED
    BY <1>1, <1>3, <2>3 DEF Clean, Goes
<1> QED
  BY <1>2, <1>3

LEMMA linksLastClean ==
    ASSUME Sound, Clean, NEW t \in Thread, linksLast(t)
    PROVE  Clean'
<1> DEFINE i == op[t].i
           n == op[t].other
           item == [items[i] EXCEPT !.next = n]
<1>1. /\ failure = "none" /\ op[t].at = "link"
      /\ IF Dead(items, i) THEN Fails("freed")
         ELSE /\ items' = [items EXCEPT ![i] = item] /\ Goes(t, Rest(op[t]))
              /\ UNCHANGED <<g_callbacks, careless>>
  BY DEF linksLast
<1>2. op[t].at \in Holding \cap Linking \cap Second
  BY <1>1 DEF Holding, Linking, Second
<1>3. CASE Dead(items, i)
  BY <1>1, <1>2, <1>3, FailsClean
<1>4. CASE ~Dead(items, i)
  <2>1. ASSUME ~careless
        PROVE  Tidy(items', g_callbacks, op', frame)
    <3>1. Tidy(items, g_callbacks, op, frame)
      BY <2>1 DEF Clean
    <3>2. i \in LiveItems(items) /\ items[i].ty = ListOf(op[t])
      BY <1>2, <2>1, HeldItem
    <3>3. n # 0 /\ Good(items, n, items[i].ty) /\ Unlinked(items, g_callbacks, n)
      BY <1>2, <3>1, <3>2, NotNull DEF Tidy, OpsGood, NewUnlinked
    <3>4. /\ \A u \in Thread : op[u].at \in Holding => op[u].i # n
          /\ \A u \in Thread \ {t} : op[u].at \in Second => op[u].other # n
      BY <1>2, <3>1 DEF Tidy, NewUnlinked
    <3>5. OpTidy(items, g_callbacks, op, t, Rest(op[t])) /\ Rest(op[t]).at \notin Second
      <4>1. Second \subseteq Holding
        BY DEF Second, Holding, Removing
      <4> QED
        BY <4>1, RestLeaves, OpLeaves
    <3>6. op' = [op EXCEPT ![t] = Rest(op[t])] /\ op = [u \in Thread |-> op[u]]
      BY <1>1, <1>4 DEF Goes, Sound, Ops
    <3>7. Tidy(items, g_callbacks, op', frame)
      BY <1>1, <3>1, <3>5, <3>6, TidyGoesOn
    <3>8. \A u \in Thread : op'[u] = IF u = t THEN Rest(op[t]) ELSE op[u]
      BY <3>6
    <3>9. \A u \in Thread : /\ op'[u].at \in Holding => op'[u].i # n
                            /\ op'[u].at \in Second => op'[u].other # n
      BY <3>4, <3>5, <3>8, RestLeaves
    <3>10. DOMAIN items' = DOMAIN items
           /\ \A j \in DOMAIN items : /\ items'[j].next = IF j = i THEN n ELSE items[j].next
                                      /\ items'[j].live = items[j].live /\ items'[j].ty = items[j].ty
      <4>1. items[i] \in ItemType(Len(items)) /\ i \in DOMAIN items
        BY <3>2, ItemsTyped DEF Sound, LiveItems
      <4>2. item.next = n /\ item.live = items[i].live /\ item.ty = items[i].ty
        BY <4>1 DEF ItemType
      <4> HIDE DEF item
      <4>3. DOMAIN items' = DOMAIN items /\ \A j \in DOMAIN items : items'[j] = IF j = i THEN item ELSE items[j]
        BY <1>1, <1>4, <4>1
      <4> QED
        BY <4>2, <4>3
    <3> HIDE DEF item, n, i
    <3> QED
      BY <3>2, <3>3, <3>7, <3>9, <3>10, LinkPut
  <2> QED
    BY <1>1, <1>4, <2>1 DEF Clean, Goes
<1> QED
  BY <1>3, <1>4

LEMMA putsHeadClean ==
    ASSUME Sound, Clean, NEW t \in Thread, putsHead(t)
    PROVE  Clean'
<1> DEFINE o == [op[t] EXCEPT !.at = "delete"]
           ty == ListOf(op[t])
<1>1. /\ failure = "none" /\ op[t].at = "put" /\ Goes(t, o) /\ UNCHANGED <<items, careless>>
      /\ g_callbacks' = [g_callbacks EXCEPT ![ty] = op[t].other]
  BY DEF putsHead
<1>2. o.at = "delete" /\ o.i = op[t].i /\ ListOf(o) = ty /\ ty \in Types
  BY <1>1, AtWork DEF OpType, ListOf
<1> HIDE DEF o
<1>3. ASSUME ~careless
      PROVE  Tidy(items, g_callbacks', op', frame)
  <2>1. \A x \in Types : g_callbacks'[x] = IF x = ty THEN op[t].other ELSE g_callbacks[x]
    BY <1>1 DEF Sound, ListsTyped
  <2>2. op' = [op EXCEPT ![t] = o] /\ op = [u \in Thread |-> op[u]]
    BY <1>1 DEF Goes, Sound, Ops
  <2>3. Tidy(items, g_callbacks, op, frame)
    BY <1>3 DEF Clean
  <2>4. /\ \A u \in Thread : op[u].at \in Holding => op[u].i # 0
        /\ \A u \in Thread : op[u].at \in Linking => op[u].other # 0
    BY NotNull
  <2> HIDE DEF ty
  <2>5. ty = ListOf(op[t]) /\ op[t].at = "put"
    BY <1>1 DEF ty
  <2> QED
    BY <1>2, <2>1, <2>2, <2>3, <2>4, <2>5, HeadTaken
<1> QED
  BY <1>1, <1>3 DEF Clean, Goes

LEMMA deletesClean ==
    ASSUME Sound, Clean, NEW t \in Thread, deletes(t)
    PROVE  Clean'
<1> DEFINE i == op[t].i
           item == [items[i] EXCEPT !.live = FALSE]
           ty == ListOf(op[t])
<1>1. /\ failure = "none" /\ op[t].at = "delete"
      /\ IF Dead(items, i) THEN Fails("freed")
         ELSE /\ items' = [items EXCEPT ![i] = item] /\ Goes(t, NoOp) /\ g_callbacks' = g_callbacks
              /\ careless' = (careless \/ Using(t, ty))
  BY DEF deletes
<1>2. op[t].at \in Holding
  BY <1>1 DEF Holding, Removing
<1>3. CASE Dead(items, i)
  BY <1>1, <1>2, <1>3, FailsClean
<1>4. CASE ~Dead(items, i)
  <2>1. ASSUME ~careless, ~Using(t, ty)
        PROVE  Tidy(items', g_callbacks, op', frame)
    <3>1. Tidy(items, g_callbacks, op, frame)
      BY <2>1 DEF Clean
    <3>2. i \in LiveItems(items) /\ items[i].ty = ty
      BY <1>2, <2>1, HeldItem
    <3>3. /\ \A u \in Thread \ {t} : op[u].at # "none" => ListOf(op[u]) # ty
          /\ \A u \in Thread : frame[u].at # "app" => frame[u].call.nr # ty
      BY <2>1 DEF Using
    <3>4. DOMAIN items' = DOMAIN items /\ ~items'[i].live /\ \A j \in DOMAIN items : j # i => items'[j] = items[j]
      <4>1. items[i] \in ItemType(Len(items)) /\ i \in DOMAIN items
        BY <3>2, ItemsTyped DEF Sound, LiveItems
      <4>2. ~item.live
        BY <4>1 DEF ItemType
      <4> HIDE DEF item
      <4> QED
        BY <1>1, <1>4, <4>1, <4>2
    <3>5. op' = [op EXCEPT ![t] = NoOp] /\ op = [u \in Thread |-> op[u]]
      BY <1>1, <1>4 DEF Goes, Sound, Ops
    <3> HIDE DEF item, ty
    <3> QED
      BY <1>1, <3>1, <3>2, <3>3, <3>4, <3>5, HeadDeleted DEF ty
  <2> QED
    BY <1>1, <1>4, <2>1 DEF Clean, Goes
<1> QED
  BY <1>3, <1>4

LEMMA unregisterClean ==
    ASSUME Sound, Clean, NEW t \in Thread, NEW ty \in Types, NEW cb, unregisterCallback(t, ty, cb)
    PROVE  Clean'
<1> DEFINE head == g_callbacks[ty]
           o == [at |-> "compare", todo |-> <<ty>>, cb |-> cb, i |-> head, other |-> 0]
<1>1. /\ failure = "none" /\ op[t].at = "none" /\ head # 0 /\ Goes(t, o) /\ UNCHANGED <<items, g_callbacks>>
      /\ careless' = (careless \/ Using(t, ty))
  BY DEF unregisterCallback, Begins, Ready
<1>2. o.at = "compare" /\ o.i = head /\ ListOf(o) = ty
  BY DEF ListOf
<1> HIDE DEF o
<1>3. o.at \notin Linking \cup Second /\ o.at # "put" /\ o.at # "delete"
  BY <1>2 DEF Linking, Second
<1>4. ASSUME ~careless, ~Using(t, ty)
      PROVE  OpTidy(items, g_callbacks, op, t, o)
  <2>1. Tidy(items, g_callbacks, op, frame)
    BY <1>4 DEF Clean
  <2>2. \A u \in Thread \ {t} : op[u].at # "none" => ListOf(op[u]) # ty
    BY <1>4 DEF Using
  <2>3. Good(items, head, ty)
    BY <2>1 DEF Tidy, HeadsGood
  <2>4. \A u \in Thread : op[u].at \in Linking => head # op[u].other
    BY <2>1 DEF Tidy, NewUnlinked, Unlinked
  <2>5. "none" \notin Removing /\ "delete" \in Holding
    BY DEF Removing, Holding
  <2>6. ASSUME NEW j \in LiveItems(items), items[j].next = head
        PROVE  FALSE
    <3>1. PICK u \in Thread : op[u].at = "delete" /\ op[u].i = j
      BY <1>1, <2>1, <2>6 DEF Tidy, HeadsFirst
    <3>2. Good(items, j, ListOf(op[u])) /\ j # 0 /\ u # t
      BY <1>1, <2>1, <2>5, <3>1, NotNull DEF Tidy, OpsGood
    <3>3. Good(items, head, items[j].ty)
      BY <2>1, <2>6 DEF Tidy, NextsGood
    <3> QED
      BY <1>1, <2>2, <2>3, <3>1, <3>2, <3>3 DEF Good
  <2> HIDE DEF head
  <2> QED
    BY <1>2, <1>3, <2>2, <2>3, <2>4, <2>5, <2>6 DEF OpTidy
<1> QED
  BY <1>1, <1>4, MoveClean

\* A step of a handler, that goes on as g.
LEMMA FrameClean ==
    ASSUME Sound, Clean, NEW t \in Thread, NEW g, frame' = [frame EXCEPT ![t] = g], UNCHANGED lists,
           failure' # "freed", ~careless /\ g.at # "app" => Good(items, g.mItem, g.call.nr)
    PROVE  Clean'
<1>1. items' = items /\ g_callbacks' = g_callbacks /\ op' = op /\ careless' = careless
  BY DEF lists
<1>2. \A u \in Thread : frame'[u] = IF u = t THEN g ELSE frame[u]
  BY DEF Sound, Frames
<1>3. ASSUME ~careless
      PROVE  Tidy(items, g_callbacks, op, frame')
  <2>1. Tidy(items, g_callbacks, op, frame)
    BY <1>3 DEF Clean
  <2>2. FramesGood(items, frame')
    BY <1>2, <1>3, <2>1 DEF Tidy, FramesGood
  <2> QED
    BY <2>1, <2>2 DEF Tidy
<1> QED
  BY <1>1, <1>3 DEF Clean

\* What a handler gives is live, while nobody has been careless.
LEMMA GivenItem ==
    ASSUME Sound, Clean, ~careless, NEW t \in Thread, frame[t].at # "app"
    PROVE  LET i == frame[t].mItem
           IN  /\ Good(items, i, frame[t].call.nr) /\ ~Dead(items, i)
               /\ i # 0 => Good(items, items[i].next, frame[t].call.nr)
<1> DEFINE i == frame[t].mItem
<1>1. Tidy(items, g_callbacks, op, frame)
  BY DEF Clean
<1>2. Good(items, i, frame[t].call.nr)
  BY <1>1 DEF Tidy, FramesGood
<1>3. ASSUME i # 0
      PROVE  i \in LiveItems(items) /\ items[i].ty = frame[t].call.nr
  BY <1>2, <1>3 DEF Good, LiveItems
<1>4. i # 0 => Good(items, items[i].next, frame[t].call.nr)
  BY <1>1, <1>3 DEF Tidy, NextsGood
<1> QED
  BY <1>2, <1>3, <1>4 DEF Dead, LiveItems

\* The process is lost to a freed item only once somebody has been careless.
LEMMA LostClean ==
    ASSUME Sound, Clean, NEW t \in Thread, frame[t].at # "app", Dead(items, frame[t].mItem),
           UNCHANGED lists
    PROVE  Clean'
<1>1. careless
  BY GivenItem
<1> QED
  BY <1>1 DEF lists, Clean

LEMMA OriginClean ==
    ASSUME Sound, Clean, NEW t \in Thread, NEW f, doCallOriginSysCall(t, f), failure = "none",
           Asked(f).mItem = 0, UNCHANGED lists
    PROVE  Clean'
<1> DEFINE g == Asked(f)
<1>1. Good(items, g.mItem, g.call.nr)
  BY DEF Good
<1> HIDE DEF g
<1>2. CASE failure' = "recursion" /\ UNCHANGED frame
  BY <1>2, CalmClean DEF lists
<1>3. CASE frame' = [frame EXCEPT ![t] = g] /\ failure' = failure
  BY <1>1, <1>3, FrameClean
<1> QED
  BY <1>2, <1>3, OriginIs DEF g

LEMMA AppCallClean ==
    ASSUME Sound, Clean, NEW t \in Thread, NEW call, NEW ip, AppCall(t, call, ip)
    PROVE  Clean'
<1> DEFINE g == Started(call)
<1>1. UNCHANGED lists /\ failure = "none"
  BY AppCallIs
<1>2. CASE frame' = frame /\ failure' \in {"none", "killed"}
  BY <1>1, <1>2, CalmClean DEF lists
<1>3. CASE frame' = [frame EXCEPT ![t] = g] /\ failure' = failure
  <2>1. g.mItem = (IF call.nr \in Types THEN g_callbacks[call.nr] ELSE 0) /\ g.call = call
    BY DEF Started
  <2>2. ~careless => Good(items, g.mItem, g.call.nr)
    BY <2>1 DEF Clean, Tidy, HeadsGood, Good
  <2> HIDE DEF g
  <2> QED
    BY <1>1, <1>3, <2>2, FrameClean
<1> QED
  BY <1>1, <1>2, <1>3, AppCallIs

LEMMA DispatchClean ==
    ASSUME Sound, Clean, NEW t \in Thread, Dispatch(t)
    PROVE  Clean'
<1> DEFINE f == frame[t]
           h == [f EXCEPT !.at = "callback"]
           g == Called(f)
<1>0. /\ failure = "none" /\ f.at = "dispatch" /\ UNCHANGED lists
      /\ Activation(f, Len(items)) /\ Kept(world, f)
  BY DispatchIs
<1>1. CASE f.mItem = 0 /\ doCallOriginSysCall(t, h)
  <2>1. Asked(h).mItem = 0
    <3>1. /\ Activation(h, Len(items)) /\ h.at = "callback" /\ h.asked = <<>> /\ h.mItem = 0
          /\ \A k \in DOMAIN h.stack : k # Len(h.stack) => h.stack[k].calls > 0
          /\ ~h.again => h.ctx = Held(world, h.call)
      BY <1>0, <1>1, DispatchAsks
    <3> HIDE DEF h
    <3> QED
      BY <3>1, AskedOK
  <2> HIDE DEF h
  <2> QED
    BY <1>0, <1>1, <2>1, OriginClean
<1>2. CASE Dead(items, f.mItem)
  BY <1>0, <1>2, LostClean
<1>3. CASE f.mItem # 0 /\ frame' = [frame EXCEPT ![t] = g] /\ UNCHANGED failure
  <2>1. g.mItem = f.mItem /\ g.call = f.call
    BY <1>0, <1>3, CalledOK
  <2>2. ~careless => Good(items, g.mItem, g.call.nr)
    BY <1>0, <2>1, GivenItem
  <2> HIDE DEF g
  <2> QED
    BY <1>0, <1>3, <2>2, FrameClean
<1> QED
  BY <1>1, <1>2, <1>3, DispatchIs

LEMMA PassClean ==
    ASSUME Sound, Clean, NEW t \in Thread, Pass(t)
    PROVE  Clean'
<1> DEFINE f == frame[t]
           next == items[f.mItem].next
           h == [Passing(f) EXCEPT !.mItem = 0]
           g == Given(f, next)
<1>0. /\ failure = "none" /\ f.at = "callback" /\ f.stack # <<>> /\ UNCHANGED lists
      /\ Activation(f, Len(items)) /\ Kept(world, f)
  BY PassIs
<1>1. CASE failure' = "null" /\ UNCHANGED frame
  BY <1>0, <1>1, CalmClean DEF lists
<1>2. CASE Dead(items, f.mItem)
  BY <1>0, <1>2, LostClean
<1>3. CASE f.mItem # 0 /\ doCallOriginSysCall(t, h)
  <2>1. Asked(h).mItem = 0
    <3>1. /\ Activation(h, Len(items)) /\ h.at = "callback" /\ h.asked = <<>> /\ h.mItem = 0
          /\ \A k \in DOMAIN h.stack : k # Len(h.stack) => h.stack[k].calls > 0
          /\ ~h.again => h.ctx = Held(world, h.call)
      BY <1>0, <1>3, PassAsks
    <3> HIDE DEF h
    <3> QED
      BY <3>1, AskedOK
  <2> HIDE DEF h
  <2> QED
    BY <1>0, <1>3, <2>1, OriginClean
<1>4. CASE f.mItem # 0 /\ next # 0 /\ frame' = [frame EXCEPT ![t] = g] /\ UNCHANGED failure
  <2>1. next \in DOMAIN items
    BY <1>0, <1>4, ItemsTyped DEF Sound, Activation
  <2>2. ~careless => Good(items, next, f.call.nr)
    BY <1>0, <1>4, GivenItem
  <2> HIDE DEF next
  <2>3. g.mItem = next /\ g.call = f.call
    BY <1>0, <1>4, <2>1, PassGives
  <2>4. ~careless => Good(items, g.mItem, g.call.nr)
    BY <2>2, <2>3
  <2> HIDE DEF g
  <2> QED
    BY <1>0, <1>4, <2>4, FrameClean
<1> QED
  BY <1>1, <1>2, <1>3, <1>4, PassIs

LEMMA FinishClean ==
    ASSUME Sound, Clean, NEW t \in Thread, Finish(t)
    PROVE  Clean'
<1> DEFINE f == frame[t]
           g == Returned(f)
<1>0. /\ failure = "none" /\ f.at = "callback" /\ frame' = [frame EXCEPT ![t] = g]
      /\ UNCHANGED <<lists, failure>> /\ Activation(f, Len(items)) /\ Kept(world, f)
  BY FinishIs
<1>1. g = NoFrame \/ (g.mItem = f.mItem /\ g.call = f.call)
  BY <1>0, ReturnedOK
<1>2. ~careless /\ g.at # "app" => Good(items, g.mItem, g.call.nr)
  <2>1. CASE g = NoFrame
    BY <2>1 DEF NoFrame
  <2>2. CASE g.mItem = f.mItem /\ g.call = f.call
    BY <1>0, <2>2, GivenItem
  <2> QED
    BY <1>1, <2>1, <2>2
<1> HIDE DEF f, g
<1> QED
  BY <1>0, <1>2, FrameClean

LEMMA CleanNext == Sound /\ Clean /\ [HookerNext]_vars => Clean'
<1> SUFFICES ASSUME Sound, Clean, [HookerNext]_vars PROVE Clean'
  OBVIOUS
<1>1. ASSUME NEW t \in Thread, addAll(t) \/ \E ty \in Types, cb \in world.cbs : registerCallback(t, ty, cb)
      PROVE  Clean'
  BY <1>1, registersClean DEF addAll, registerCallback
<1>2. ASSUME NEW t \in Thread, ListStep(t)
      PROVE  Clean'
  BY <1>2, makesArrayClean, readsHeadClean, putsFirstClean, createsClean, addNextClean, linksLastClean,
     comparesClean, unlinksClean, putsHeadClean, seeksClean, matchesClean, deletesClean DEF ListStep
<1>3. ASSUME NEW t \in Thread, initChecks(t) \/ \E u \in Thread : Spawn(t, u)
      PROVE  Clean'
  <2>1. UNCHANGED <<lists, frame>> /\ failure' = "none"
    BY <1>3 DEF initChecks, Spawn, Ready
  <2> QED
    BY <2>1, CalmClean DEF lists
<1>4. CASE (\E sys \in {"none", "calloc", "sigaction"} : initHandles(sys))
           \/ \E sys \in {"none", "sigprocmask", "no_new_privs", "seccomp"} : initFilters(sys)
  <2>1. UNCHANGED <<items, g_callbacks, op, careless, frame>> /\ failure' = "none"
    BY <1>4 DEF initHandles, initFilters, lists
  <2> QED
    BY <2>1, CalmClean
<1>5. CASE UNCHANGED vars
  BY <1>5 DEF vars, Clean
<1> QED
  BY <1>1, <1>2, <1>3, <1>4, <1>5, unregisterClean, AppCallClean, DispatchClean, PassClean, FinishClean
     DEF HookerNext

\* No handler, registration or removal touches an item that was freed unless
\* somebody has removed an item behind a head, or one of a list in use: for any
\* number of threads, that read and write the lists without a lock, of items and
\* of callbacks.
THEOREM FreedOnlyIfCarelessHolds == HookerSpec => []FreedOnlyIfCareless
<1>1. Clean => FreedOnlyIfCareless
  BY DEF Clean, FreedOnlyIfCareless
<1> QED
  BY <1>1, CleanInit, CleanNext, HookerSound, PTL DEF HookerSpec
=============================================================================
