------------------------------- MODULE Lemmas -------------------------------
(***************************************************************************)
(* Lemmas that several of the proof modules rest on: induction over the    *)
(* natural numbers, and what the programs of Bpf say at an instruction,    *)
(* from what they say at the instructions they go on with.  Both filters   *)
(* of the repository, that of the tracer and that of the hook, are read    *)
(* with the latter.                                                        *)
(***************************************************************************)
EXTENDS Bpf, WellFoundedInduction, TLAPS

-----------------------------------------------------------------------------
(***************************************************************************)
(* Induction: to show that something holds of each number, show that the   *)
(* set of the numbers it holds of is Nat.  What loops compute, which is    *)
(* written with recursive functions, is proved this way.                   *)
(***************************************************************************)
Less == {pair \in Nat \X Nat : pair[1] < pair[2]}

LEMMA LessIsWellFounded == IsWellFoundedOn(Less, Nat)
  BY NatLessThanWellFounded DEF OpToRel, Less

LEMMA LeastNumber ==
    ASSUME NEW S \in SUBSET Nat, S # {}
    PROVE  \E m \in S : \A k \in S : m <= k
<1>1. PICK m \in S : \A k \in S : <<k, m>> \notin Less
  BY LessIsWellFounded, WFMin
<1>2. ASSUME NEW k \in S
      PROVE  m <= k
  <2>1. <<k, m>> \in Nat \X Nat /\ ~(k < m)
    BY <1>1 DEF Less
  <2> QED
    BY <2>1
<1> QED
  BY <1>2

LEMMA InductionOverNat ==
    ASSUME NEW S \in SUBSET Nat, 0 \in S, \A n \in S : n + 1 \in S
    PROVE  S = Nat
<1>1. SUFFICES ASSUME Nat \ S # {} PROVE FALSE
  OBVIOUS
<1>2. PICK m \in Nat \ S : \A k \in Nat \ S : m <= k
  BY <1>1, LeastNumber
<1>3. m # 0 /\ m - 1 \in Nat /\ m - 1 \in S
  BY <1>2
<1> QED
  BY <1>2, <1>3

LEMMA InductionUpTo ==
    ASSUME NEW m \in Nat, NEW S, 0 \in S, \A n \in 0..(m - 1) : n \in S => n + 1 \in S
    PROVE  \A n \in 0..m : n \in S
<1> DEFINE N == {n \in Nat : n <= m => n \in S}
<1>1. N \in SUBSET Nat /\ 0 \in N
  OBVIOUS
<1>2. ASSUME NEW n \in N
      PROVE  n + 1 \in N
  OBVIOUS
<1> HIDE DEF N
<1>3. N = Nat
  BY <1>1, <1>2, InductionOverNat
<1> QED
  BY <1>3 DEF N

(***************************************************************************)
(* A loop that runs from 1 to m, turning one value of D into the next, has *)
(* a value after each step: the recursive function that writes it exists.  *)
(***************************************************************************)
IsLoop(f, m, b, s) == f = [n \in 0..m |-> IF n = 0 THEN b ELSE s[<<n, f[n - 1]>>]]

LEMMA LoopExists ==
    ASSUME NEW D, NEW b \in D, NEW m \in Nat, NEW s \in [(1..m) \X D -> D]
    PROVE  \E f \in [0..m -> D] : IsLoop(f, m, b, s)
<1> DEFINE S == {k \in 0..m : \E f \in [0..k -> D] : IsLoop(f, k, b, s)}
<1>1. 0 \in S
  <2>1. [n \in 0..0 |-> b] \in [0..0 -> D] /\ IsLoop([n \in 0..0 |-> b], 0, b, s)
    BY DEF IsLoop
  <2> QED
    BY <2>1
<1>2. ASSUME NEW k \in 0..(m - 1), k \in S
      PROVE  k + 1 \in S
  <2>1. PICK f \in [0..k -> D] : IsLoop(f, k, b, s)
    BY <1>2
  <2> DEFINE x == s[<<k + 1, f[k]>>]
             g == [n \in 0..(k + 1) |-> IF n = k + 1 THEN x ELSE f[n]]
  <2>2. x \in D
    OBVIOUS
  <2>3. g \in [0..(k + 1) -> D]
    BY <2>2
  <2>4. \A n \in 0..k : g[n] = f[n]
    OBVIOUS
  <2>5. \A n \in 0..k : f[n] = IF n = 0 THEN b ELSE s[<<n, f[n - 1]>>]
    BY <2>1 DEF IsLoop
  <2>6. ASSUME NEW n \in 0..(k + 1)
        PROVE  g[n] = IF n = 0 THEN b ELSE s[<<n, g[n - 1]>>]
    <3>1. CASE n = k + 1
      <4>1. g[n] = s[<<n, f[n - 1]>>] /\ n # 0 /\ n - 1 \in 0..k
        BY <3>1
      <4> HIDE DEF g, x
      <4> QED
        BY <2>4, <4>1
    <3>2. CASE n # k + 1
      <4>1. n \in 0..k /\ (n # 0 => n - 1 \in 0..k)
        BY <3>2
      <4> HIDE DEF g, x
      <4> QED
        BY <2>4, <2>5, <4>1
    <3> QED
      BY <3>1, <3>2
  <2> HIDE DEF g, x
  <2>7. g = [n \in 0..(k + 1) |-> g[n]]
    BY <2>3
  <2>8. IsLoop(g, k + 1, b, s)
    BY <2>6, <2>7 DEF IsLoop
  <2> QED
    BY <2>3, <2>8
<1> HIDE DEF S
<1>3. \A k \in 0..m : k \in S
  BY <1>1, <1>2, InductionUpTo
<1>4. m \in S
  BY <1>3
<1> QED
  BY <1>4 DEF S

-----------------------------------------------------------------------------
(***************************************************************************)
(* How the kernel runs a filter.                                           *)
(*                                                                         *)
(* A filter only jumps forward, so that what it says at an instruction is  *)
(* determined by what it says at the later ones: run exists (VerdictRuns). *)
(***************************************************************************)
Archs  == {"X86_64", "I386", "AARCH64", "ARM"}
Values == {"allow", "trap", "trace", "trace_exit", "kill"}
Fields == {"arch", "nr", "ip", "ip_high"}

Insns == [op : {"ret"}, value : Values]
             \cup [op : {"ld"}, field : Fields]
             \cup [op : {"jeq", "jge", "jgt", "ja"}, k : Int \cup Archs, jt : Nat, jf : Nat]

Points(prog) == {0} \cup DOMAIN prog

IsRun(prog, data, run) ==
    run = [i \in DOMAIN prog |-> [l \in Points(prog) |-> OutcomeAt(prog, data, run, i, l)]]

LEMMA LaterInsns ==
    ASSUME NEW prog \in Seq(Insns), Accepted(prog), NEW i \in DOMAIN prog
    PROVE  /\ prog[i].op = "ld" => i + 1 \in DOMAIN prog
           /\ IsJump(prog[i]) => /\ prog[i].jt \in Nat /\ prog[i].jf \in Nat
                                 /\ i + 1 + prog[i].jt \in DOMAIN prog
                                 /\ i + 1 + prog[i].jf \in DOMAIN prog
<1>1. prog[i] \in Insns /\ DOMAIN prog = 1..Len(prog)
  OBVIOUS
<1>2. prog[i].op = "ld" => i # Len(prog)
  BY DEF Accepted
<1>3. IsJump(prog[i]) => prog[i].jt \in Nat /\ prog[i].jf \in Nat
  BY <1>1 DEF Insns, IsJump
<1> QED
  BY <1>1, <1>2, <1>3 DEF Accepted

\* What is said at i depends on later instructions only.
LEMMA FromLater ==
    ASSUME NEW prog \in Seq(Insns), Accepted(prog), NEW data, NEW i \in DOMAIN prog, NEW l,
           NEW f, NEW g, \A j \in DOMAIN prog : j > i => f[j] = g[j]
    PROVE  OutcomeAt(prog, data, f, i, l) = OutcomeAt(prog, data, g, i, l)
<1>1. /\ prog[i].op = "ld" => f[i + 1] = g[i + 1]
      /\ IsJump(prog[i]) => /\ f[i + 1 + prog[i].jt] = g[i + 1 + prog[i].jt]
                            /\ f[i + 1 + prog[i].jf] = g[i + 1 + prog[i].jf]
  BY LaterInsns
<1> DEFINE yes == Holds(prog[i], data[prog[l].field])
<1>2. CASE prog[i].op = "ret"
  BY <1>2 DEF OutcomeAt
<1>3. CASE prog[i].op = "ld"
  BY <1>1, <1>3 DEF OutcomeAt
<1>4. CASE prog[i].op \notin {"ret", "ld"} /\ IsJump(prog[i])
  <2>1. \A r : OutcomeAt(prog, data, r, i, l) = r[i + 1 + (IF yes THEN prog[i].jt ELSE prog[i].jf)][l]
    BY <1>4 DEF OutcomeAt
  <2> HIDE DEF yes
  <2> QED
    BY <1>1, <1>4, <2>1
<1>5. prog[i] \in Insns
  OBVIOUS
<1>6. prog[i].op \in {"ret", "ld"} \/ IsJump(prog[i])
  BY <1>5 DEF Insns, IsJump
<1> QED
  BY <1>2, <1>3, <1>4, <1>6

LEMMA RunExists ==
    ASSUME NEW prog \in Seq(Insns), Accepted(prog), NEW data
    PROVE  \E run : IsRun(prog, data, run)
<1> DEFINE n == Len(prog)
           At(f, i) == [l \in Points(prog) |-> OutcomeAt(prog, data, f, i, l)]
           Good(f, m) == /\ f = [i \in DOMAIN prog |-> f[i]]
                         /\ \A i \in DOMAIN prog : i > n - m => f[i] = At(f, i)
           N == {m \in Nat : m <= n => \E f : Good(f, m)}
<1>0. n \in Nat /\ DOMAIN prog = 1..n
  OBVIOUS
<1>1. 0 \in N
  <2>1. Good([i \in DOMAIN prog |-> 0], 0)
    BY <1>0
  <2> QED
    BY <2>1
<1>2. ASSUME NEW m \in N
      PROVE  m + 1 \in N
  <2>1. SUFFICES ASSUME m + 1 <= n PROVE \E f : Good(f, m + 1)
    OBVIOUS
  <2>2. PICK f : Good(f, m)
    BY <1>0, <2>1
  <2> DEFINE p == n - m
             d == At(f, p)
             g == [f EXCEPT ![p] = d]
  <2>3. p \in DOMAIN prog
    BY <1>0, <2>1
  <2> HIDE DEF d
  <2>4. /\ g = [i \in DOMAIN prog |-> g[i]] /\ g[p] = d
        /\ \A i \in DOMAIN prog : i # p => g[i] = f[i]
    BY <2>2, <2>3
  <2>5. ASSUME NEW i \in DOMAIN prog, i > n - (m + 1)
        PROVE  g[i] = At(g, i)
    <3>1. i >= p /\ p \in Int /\ i \in Int
      BY <1>0, <2>5
    <3> HIDE DEF g, p
    <3>2. \A j \in DOMAIN prog : j > i => g[j] = f[j]
      BY <1>0, <2>4, <3>1
    <3>3. At(g, i) = At(f, i)
      BY <3>2, FromLater
    <3>4. CASE i = p
      BY <2>4, <3>3, <3>4 DEF d
    <3>5. CASE i # p
      <4>1. i > n - m
        BY <1>0, <3>1, <3>5 DEF p
      <4>2. f[i] = At(f, i)
        BY <2>2, <4>1
      <4> HIDE DEF At
      <4> QED
        BY <2>4, <3>3, <3>5, <4>2
    <3> QED
      BY <3>4, <3>5
  <2>6. Good(g, m + 1)
    BY <2>4, <2>5
  <2> QED
    BY <2>6
<1> HIDE DEF N
<1>3. N = Nat
  <2>1. N \in SUBSET Nat
    BY DEF N
  <2> QED
    BY <1>1, <1>2, <2>1, InductionOverNat
<1>4. PICK f : Good(f, n)
  <2> HIDE DEF Good
  <2>1. n \in {m \in Nat : m <= n => \E f : Good(f, m)}
    BY <1>0, <1>3 DEF N
  <2> HIDE DEF n
  <2> QED
    BY <1>0, <2>1
<1>5. \A i \in DOMAIN prog : f[i] = At(f, i)
  BY <1>0, <1>4
<1> QED
  BY <1>4, <1>5 DEF IsRun

\* run is what the kernel computes, entry by entry.
Runs(prog, data, run) ==
    \A i \in DOMAIN prog, l \in Points(prog) : run[i][l] = OutcomeAt(prog, data, run, i, l)

LEMMA VerdictRuns ==
    ASSUME NEW prog \in Seq(Insns), Accepted(prog), NEW data
    PROVE  \E run : Runs(prog, data, run) /\ Verdict(prog, data) = run[1][0]
<1> DEFINE v == CHOOSE run : IsRun(prog, data, run)
<1>1. IsRun(prog, data, v)
  BY RunExists
<1>2. Verdict(prog, data) = v[1][0]
  BY DEF Verdict, IsRun, Points
<1> HIDE DEF v
<1>3. Runs(prog, data, v)
  BY <1>1 DEF IsRun, Runs
<1> QED
  BY <1>2, <1>3

\* The words of an address.
LEMMA WordParts ==
    ASSUME NEW a \in Nat
    PROVE  High(a) \in Nat /\ Low(a) \in Nat /\ Low(a) < Word /\ a = Word * High(a) + Low(a)
  BY WordAssumption DEF High, Low

LEMMA LowOrders ==
    ASSUME NEW a \in Nat, NEW b \in Nat, High(a) = High(b)
    PROVE  a <= b <=> Low(a) <= Low(b)
<1> DEFINE p == Word * High(a)
<1>1. p \in Int /\ a = p + Low(a) /\ b = p + Low(b) /\ Low(a) \in Nat /\ Low(b) \in Nat
  BY WordParts, WordAssumption
<1> HIDE DEF p
<1> QED
  BY <1>1

LEMMA HighOrders ==
    ASSUME NEW a \in Nat, NEW b \in Nat, a <= b
    PROVE  High(a) <= High(b)
<1>1. SUFFICES ASSUME High(b) + 1 <= High(a) PROVE FALSE
  BY WordParts
<1>2. PICK d \in Nat : High(a) = High(b) + 1 + d
  <2>1. High(a) \in Nat /\ High(b) \in Nat
    BY WordParts
  <2>2. High(a) - High(b) - 1 \in Nat /\ High(a) = High(b) + 1 + (High(a) - High(b) - 1)
    BY <1>1, <2>1
  <2> QED
    BY <2>2
<1> DEFINE p == Word * High(b)
           q == Word * d
<1>3. p \in Int /\ q \in Nat /\ Word \in Nat
  BY WordParts, WordAssumption
<1>4. Word * High(a) = p + Word + q
  BY <1>2, WordParts, WordAssumption
<1>5. a = p + Word + q + Low(a) /\ b = p + Low(b) /\ Low(a) \in Nat /\ Low(b) \in Nat /\ Low(b) < Word
  BY <1>4, WordParts
<1> HIDE DEF p, q
<1> QED
  BY <1>3, <1>5

\* s is the rest of a filter from instruction k on.
Rests(prog, k, s) ==
    /\ s \in Seq(Insns) /\ k \in Nat \ {0} /\ Len(prog) = k - 1 + Len(s)
    /\ \A n \in 1..Len(s) : prog[k - 1 + n] = s[n]

\* a is what it goes on with there.
GoesOn(prog, k, a) == \A n \in 1..Len(a) : k - 1 + n \in DOMAIN prog /\ prog[k - 1 + n] = a[n]

LEMMA RestsThen ==
    ASSUME NEW prog \in Seq(Insns), NEW k, NEW a \in Seq(Insns), NEW b \in Seq(Insns),
           Rests(prog, k, a \o b)
    PROVE  Rests(prog, k + Len(a), b) /\ GoesOn(prog, k, a)
<1> DEFINE s == a \o b
           m == Len(a)
<1>1. /\ Len(s) = m + Len(b) /\ m \in Nat /\ Len(b) \in Nat
      /\ \A n \in 1..m : s[n] = a[n]
      /\ \A n \in 1..Len(b) : s[m + n] = b[n]
  OBVIOUS
<1>2. /\ k \in Nat \ {0} /\ Len(prog) = k - 1 + Len(s) /\ DOMAIN prog = 1..Len(prog)
      /\ \A n \in 1..Len(s) : prog[k - 1 + n] = s[n]
  BY DEF Rests
<1> HIDE DEF s, m
<1>3. \A n \in 1..m : k - 1 + n \in DOMAIN prog /\ prog[k - 1 + n] = a[n]
  BY <1>1, <1>2
<1>4. ASSUME NEW n \in 1..Len(b)
      PROVE  prog[(k + m) - 1 + n] = b[n]
  <2>1. m + n \in 1..Len(s) /\ (k + m) - 1 + n = k - 1 + (m + n)
    BY <1>1, <1>2
  <2> QED
    BY <1>1, <1>2, <2>1
<1>5. k + m \in Nat \ {0} /\ Len(prog) = (k + m) - 1 + Len(b)
  BY <1>1, <1>2
<1>6. Rests(prog, k + m, b)
  BY <1>4, <1>5 DEF Rests
<1> QED
  BY <1>3, <1>6 DEF m, GoesOn

LEMMA InsnsMade ==
    /\ \A f \in {"arch", "nr", "ip", "ip_high"} : Load(f) \in Insns
    /\ \A v \in {"allow", "trap", "trace", "trace_exit", "kill"} : Ret(v) \in Insns
    /\ \A op \in {"jeq", "jge", "jgt", "ja"}, k \in Int \cup Archs, jt \in Nat, jf \in Nat :
          Jump(op, k, jt, jf) \in Insns
  BY DEF Insns, Load, Ret, Jump, Fields, Values

\* What the filter says from k on, whatever was loaded before.
SaysAt(prog, run, k, v) == k \in DOMAIN prog /\ \A l \in Points(prog) : run[k][l] = v

LEMMA LoadSays ==
    ASSUME NEW prog, NEW data, NEW run, Runs(prog, data, run), NEW i \in DOMAIN prog,
           NEW f, prog[i] = Load(f), NEW l \in Points(prog)
    PROVE  run[i][l] = run[i + 1][i] /\ prog[i].field = f /\ i \in Points(prog)
<1>1. prog[i].op = "ld" /\ prog[i].field = f /\ ~IsJump(prog[i])
  BY DEF Load, IsJump
<1>2. run[i][l] = OutcomeAt(prog, data, run, i, l)
  BY DEF Runs
<1>3. OutcomeAt(prog, data, run, i, l) = run[i + 1][i]
  BY <1>1 DEF OutcomeAt
<1> QED
  BY <1>1, <1>2, <1>3 DEF Points

LEMMA RetSays ==
    ASSUME NEW prog, NEW data, NEW run, Runs(prog, data, run), NEW i \in DOMAIN prog,
           NEW v, prog[i] = Ret(v)
    PROVE  SaysAt(prog, run, i, v)
<1>1. prog[i].op = "ret" /\ prog[i].value = v /\ ~IsJump(prog[i])
  BY DEF Ret, IsJump
<1>2. \A l : OutcomeAt(prog, data, run, i, l) = v
  BY <1>1 DEF OutcomeAt
<1> QED
  BY <1>2 DEF Runs, SaysAt

LEMMA JumpSays ==
    ASSUME NEW prog, NEW data, NEW run, Runs(prog, data, run), NEW i \in DOMAIN prog,
           NEW op \in {"jeq", "jge", "jgt", "ja"}, NEW k, NEW jt, NEW jf,
           prog[i] = Jump(op, k, jt, jf), NEW l \in Points(prog)
    PROVE  /\ run[i][l] = run[i + 1 + (IF Holds(prog[i], data[prog[l].field]) THEN jt ELSE jf)][l]
           /\ prog[i].op = op /\ prog[i].k = k
<1> DEFINE j == prog[i]
<1>1. j.op = op /\ j.k = k /\ j.jt = jt /\ j.jf = jf
  BY DEF Jump
<1>2. IsJump(j) /\ j.op # "ret" /\ j.op # "ld"
  BY <1>1 DEF IsJump
<1>3. run[i][l] = OutcomeAt(prog, data, run, i, l)
  BY DEF Runs
<1> QED
  BY <1>1, <1>2, <1>3 DEF OutcomeAt

\* A jump from i on the field f, which was loaded at l.
EqGoes(data, run, i, l, f, k, jt, jf) ==
    run[i][l] = IF data[f] = k THEN run[i + 1 + jt][l] ELSE run[i + 1 + jf][l]

GeGoes(data, run, i, l, f, k, jt, jf) ==
    run[i][l] = IF data[f] >= k THEN run[i + 1 + jt][l] ELSE run[i + 1 + jf][l]

GtGoes(data, run, i, l, f, k, jt, jf) ==
    run[i][l] = IF data[f] > k THEN run[i + 1 + jt][l] ELSE run[i + 1 + jf][l]

LEMMA EqSays ==
    ASSUME NEW prog, NEW data, NEW run, Runs(prog, data, run), NEW i \in DOMAIN prog,
           NEW k, NEW jt, NEW jf, prog[i] = Jump("jeq", k, jt, jf),
           NEW l \in Points(prog), NEW f, prog[l].field = f
    PROVE  EqGoes(data, run, i, l, f, k, jt, jf)
<1>1. /\ run[i][l] = run[i + 1 + (IF Holds(prog[i], data[f]) THEN jt ELSE jf)][l]
      /\ prog[i].op = "jeq" /\ prog[i].k = k
  BY JumpSays
<1>2. Holds(prog[i], data[f]) <=> data[f] = k
  BY <1>1 DEF Holds
<1> QED
  BY <1>1, <1>2 DEF EqGoes

LEMMA GeSays ==
    ASSUME NEW prog, NEW data, NEW run, Runs(prog, data, run), NEW i \in DOMAIN prog,
           NEW k, NEW jt, NEW jf, prog[i] = Jump("jge", k, jt, jf),
           NEW l \in Points(prog), NEW f, prog[l].field = f
    PROVE  GeGoes(data, run, i, l, f, k, jt, jf)
<1>1. /\ run[i][l] = run[i + 1 + (IF Holds(prog[i], data[f]) THEN jt ELSE jf)][l]
      /\ prog[i].op = "jge" /\ prog[i].k = k
  BY JumpSays
<1>2. Holds(prog[i], data[f]) <=> data[f] >= k
  BY <1>1 DEF Holds
<1> QED
  BY <1>1, <1>2 DEF GeGoes

LEMMA GtSays ==
    ASSUME NEW prog, NEW data, NEW run, Runs(prog, data, run), NEW i \in DOMAIN prog,
           NEW k, NEW jt, NEW jf, prog[i] = Jump("jgt", k, jt, jf),
           NEW l \in Points(prog), NEW f, prog[l].field = f
    PROVE  GtGoes(data, run, i, l, f, k, jt, jf)
<1>1. /\ run[i][l] = run[i + 1 + (IF Holds(prog[i], data[f]) THEN jt ELSE jf)][l]
      /\ prog[i].op = "jgt" /\ prog[i].k = k
  BY JumpSays
<1>2. Holds(prog[i], data[f]) <=> data[f] > k
  BY <1>1 DEF Holds
<1> QED
  BY <1>1, <1>2 DEF GtGoes

\* A jump that does not look at what was loaded.
LEMMA JaSays ==
    ASSUME NEW prog, NEW data, NEW run, Runs(prog, data, run), NEW i \in DOMAIN prog,
           NEW k, prog[i] = Jump("ja", 0, k, k), NEW l \in Points(prog)
    PROVE  run[i][l] = run[i + 1 + k][l]
  BY JumpSays

=============================================================================
