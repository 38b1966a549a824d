---------------------------- MODULE TracerProofs ----------------------------
(***************************************************************************)
(* Proofs about the parts of the tracer that MCTracer checks one by one:   *)
(* the heap it emulates and the stack limit (HeapHonest), the filter it    *)
(* installs (CallsReported), the arrays of pointers it edits (ArrayPushed),*)
(* the memory of the tracee (MemoryExact), the requests of ptracers        *)
(* (RequestsExact) and what it takes from program files (ProgramFileExact).*)
(* The helpers on paths have a module of their own, PathsProofs.           *)
(***************************************************************************)
EXTENDS SeccompFilter, Heap, Xpointers, TraceeMemory, PtraceRequests, Execve, Lemmas,
        SequenceTheorems

-----------------------------------------------------------------------------
(***************************************************************************)
(* What heap.c and rlimit.c remember is what the kernel has: the proof of  *)
(* HeapHonest for every size of pages and every place of the heap.         *)
(*                                                                         *)
(* The break is a number inside a page, the kernel's memory is made of     *)
(* pages, and the tracer tells an error from an address by its last bits.  *)
(* The last point is the only one that needs arithmetic with the size of a *)
(* page: AlignedIsNoErrno. It matters since the answer of mmap and mremap  *)
(* is the address of a page, which an int may turn into a negative number. *)
(***************************************************************************)
Aligned(x) == x % HeapPage = 0

\* A multiple of a positive number that is negative is at most minus that number.
LEMMA NegativeMultiple ==
    ASSUME NEW p \in Nat \ {0}, NEW i \in Int, p * i < 0
    PROVE  p * i <= -p
<1>1. i <= -1
    <2>1. SUFFICES ASSUME i >= 0 PROVE FALSE
        OBVIOUS
    <2>2. p * i >= 0
        BY <2>1
    <2> QED BY <2>2
<1>2. -i - 1 \in Nat
    BY <1>1
<1>3. p * (-i - 1) >= 0
    BY <1>2
<1>4. p * (-i - 1) = -(p * i) - p
    OBVIOUS
<1> QED BY <1>3, <1>4

\* A number without rest is a multiple.
LEMMA Multiple ==
    ASSUME NEW p \in Nat \ {0}, NEW x \in Nat, x % p = 0
    PROVE  \E k \in Int : x = p * k
<1>1. x \div p \in Int
    OBVIOUS
<1>2. x = p * (x \div p) + (x % p)
    OBVIOUS
<1>3. p * (x \div p) \in Int
    BY <1>1
<1>4. x = p * (x \div p)
    BY <1>2, <1>3
<1> QED BY <1>1, <1>4

\* translate_brk_exit: the address of a page is not taken for an error.
LEMMA AlignedIsNoErrno ==
    ASSUME NEW x \in Nat, Aligned(x)
    PROVE  ~IsErrno(x)
<1> USE HeapAssumption
<1> DEFINE n == x % IntSize
<1>1. PICK k \in Int : x = HeapPage * k
    BY Multiple DEF Aligned
<1>2. PICK m \in Int : IntSize = HeapPage * m
    BY Multiple
<1>3. n \in Nat /\ \E q \in Int : x = IntSize * q + n
    <2>1. n \in Nat /\ x = IntSize * (x \div IntSize) + n /\ x \div IntSize \in Int
        OBVIOUS
    <2> QED BY <2>1
<1>4. PICK q \in Int : x = IntSize * q + n
    BY <1>3
<1> HIDE DEF n
<1>5. n = HeapPage * (k - m * q)
    <2>1. m * q \in Int
        OBVIOUS
    <2>2. IntSize * q = HeapPage * (m * q)
        BY <1>2
    <2>3. HeapPage * (k - m * q) = HeapPage * k - HeapPage * (m * q)
        BY <2>1
    <2> QED BY <1>1, <1>3, <1>4, <2>2, <2>3
<1>6. n - IntSize = HeapPage * (k - m * q - m)
    <2>1. HeapPage * (k - m * q - m) = HeapPage * (k - m * q) - HeapPage * m
        OBVIOUS
    <2> QED BY <1>2, <1>5, <2>1
<1>7. tracee_errno(x) = n \/ tracee_errno(x) = n - IntSize
    BY DEF tracee_errno, n
<1>8. SUFFICES ASSUME tracee_errno(x) < 0, tracee_errno(x) > -HeapPage PROVE FALSE
    BY DEF IsErrno
<1>9. tracee_errno(x) = n - IntSize
    BY <1>3, <1>7, <1>8
<1>10. k - m * q - m \in Int
    OBVIOUS
<1>11. n - IntSize <= -HeapPage
    BY <1>6, <1>8, <1>9, <1>10, NegativeMultiple
<1> QED BY <1>3, <1>8, <1>9, <1>11

\* translate_brk_exit: a failed call is taken for an error.
LEMMA FailureIsErrno == IsErrno(ENOMEM)
<1> USE HeapAssumption
<1>1. IntSize >= 2
    <2>1. IntSize # 1
        <3>1. 1 % HeapPage = 1
            OBVIOUS
        <3> QED BY <3>1
    <2> QED BY <2>1
<1>2. (-1) % IntSize = IntSize - 1
    <2>1. -1 = IntSize * (-1) + (IntSize - 1)
        OBVIOUS
    <2> QED BY <1>1, <2>1
<1>3. 2 * (IntSize - 1) >= IntSize
    BY <1>1
<1>4. tracee_errno(ENOMEM) = -1
    BY <1>2, <1>3 DEF tracee_errno, ENOMEM
<1> QED BY <1>4 DEF IsErrno

(***************************************************************************)
(* Pages.                                                                  *)
(***************************************************************************)
\* More bytes from the same place are at least the same pages.
LEMMA MorePages ==
    ASSUME NEW a \in Int, NEW b \in Int, NEW c \in Int, b <= c
    PROVE  PagesOf(a, b) \subseteq PagesOf(a, c)
BY DEF PagesOf

\* Bytes from a later place are at most the same pages.
LEMMA FewerPages ==
    ASSUME NEW a \in Int, NEW b \in Int, NEW c \in Int, a <= b
    PROVE  PagesOf(b, c) \subseteq PagesOf(a, c)
BY DEF PagesOf

(***************************************************************************)
(* The inductive invariant of brk. HeapMapped needs to know where the heap *)
(* is: on a page (so that an answer is no error), above the page below it, *)
(* and without a size as long as it has no place. A heap that is disabled  *)
(* was never placed: the program has the kernel's own break.               *)
(***************************************************************************)
HeapTyped ==
    /\ heap \in [base : Nat, size : Nat, disabled : BOOLEAN]
    /\ last.told \in Int /\ last.before \in Int /\ last.asked \in Int

HeapPlaced ==
    IF heap.base = 0 THEN heap.size = 0
    ELSE ~heap.disabled /\ heap.base - heap_offset \in Nat /\ Aligned(heap.base - heap_offset)

HeapInv == HeapTyped /\ HeapPlaced /\ HeapMapped /\ BrkHonest

\* The four calls that a brk can become.
Calls(h, address) ==
    {[nr |-> "brk", a1 |-> address], [nr |-> "void"],
     [nr |-> "mmap", a1 |-> BssEnd, a2 |-> heap_offset],
     [nr |-> "mremap", a1 |-> h.base - heap_offset, a2 |-> h.size + heap_offset,
      a3 |-> address - h.base + heap_offset]}

\* One call of brk with its outcome, by name.
Called(address, outcome) ==
    /\ outcome \in Outcomes(translate_brk_enter(heap, address))
    /\ LET call == translate_brk_enter(heap, address)
           after == translate_brk_exit(heap, call, outcome.result)
       IN  /\ heap' = after.heap
           /\ mapped' = outcome.pages
           /\ last' = [nr |-> call.nr, asked |-> address, before |-> heap.base + heap.size,
                       told |-> after.told]

LEMMA BrkCalls ==
    ASSUME Brk
    PROVE  \E address \in Int : \E outcome : Called(address, outcome)
<1>1. PICK address \in {0} \cup (BssEnd - 1)..(Top + 1) :
          \E outcome \in Outcomes(translate_brk_enter(heap, address)) : Called(address, outcome)
    BY Zenon DEF Brk, Called
<1>2. address \in Int
    BY HeapAssumption
<1> QED BY <1>1, <1>2

\* A call left to the kernel: the break is the kernel's, and there is no heap.
LEMMA BrkLeft ==
    ASSUME HeapInv, NEW address \in Int, NEW outcome, Called(address, outcome),
           heap.disabled \/ (heap.base = 0 /\ address # 0)
    PROVE  HeapInv'
<1> DEFINE call == [nr |-> "brk", a1 |-> address]
<1> USE HeapAssumption
<1>1. heap.base = 0 /\ heap.size = 0 /\ mapped = {}
    BY DEF HeapInv, HeapPlaced, HeapMapped
<1>2. translate_brk_enter(heap, address) = call
    BY DEF translate_brk_enter
<1>3. outcome.pages = mapped /\ outcome.result \in Int
    BY <1>2 DEF Called, Outcomes
<1>4. /\ heap' \in {heap, [heap EXCEPT !.disabled = TRUE]}
      /\ last' = [nr |-> "brk", asked |-> address, before |-> 0, told |-> outcome.result]
    BY <1>1, <1>2 DEF Called, translate_brk_exit, HeapInv, HeapTyped
<1>5. mapped' = {}
    BY <1>1, <1>3 DEF Called
<1>6. heap'.base = 0 /\ heap'.size = 0 /\ heap' \in [base : Nat, size : Nat, disabled : BOOLEAN]
    BY <1>1, <1>4 DEF HeapInv, HeapTyped
<1>7. HeapTyped'
    BY <1>3, <1>4, <1>6 DEF HeapTyped
<1>8. HeapPlaced' /\ HeapMapped'
    BY <1>5, <1>6 DEF HeapPlaced, HeapMapped
<1>9. BrkHonest'
    BY <1>4 DEF BrkHonest
<1> QED BY <1>7, <1>8, <1>9 DEF HeapInv

\* The first call, an mmap of the page below the heap.
LEMMA BrkFirst ==
    ASSUME HeapInv, NEW address \in Int, NEW outcome, Called(address, outcome),
           ~heap.disabled, heap.base = 0, address = 0
    PROVE  HeapInv'
<1> DEFINE call == [nr |-> "mmap", a1 |-> BssEnd, a2 |-> heap_offset]
<1> USE HeapAssumption
<1>1. heap.size = 0 /\ mapped = {} /\ heap_offset \in Nat \ {0}
    BY DEF HeapInv, HeapPlaced, HeapMapped, heap_offset
<1>2. translate_brk_enter(heap, address) = call
    BY DEF translate_brk_enter
<1>3. outcome \in Mmap(call)
    BY <1>2 DEF Called, Outcomes
<1>4. CASE outcome = [result |-> ENOMEM, pages |-> mapped]
    <2>1. IsErrno(outcome.result)
        BY <1>4, FailureIsErrno
    <2>2. /\ heap' = heap /\ mapped' = {}
          /\ last' = [nr |-> "mmap", asked |-> 0, before |-> 0, told |-> 0]
        BY <1>1, <1>2, <1>4, <2>1 DEF Called, translate_brk_exit, HeapInv, HeapTyped
    <2>3. HeapTyped' /\ HeapPlaced' /\ HeapMapped'
        BY <1>1, <2>2 DEF HeapInv, HeapTyped, HeapPlaced, HeapMapped
    <2>4. BrkHonest'
        BY <1>1, <2>2 DEF BrkHonest
    <2> QED BY <2>3, <2>4 DEF HeapInv
<1>5. CASE \E a \in BssEnd..(Top - 1) :
               a % HeapPage = 0 /\ outcome = [result |-> a, pages |-> mapped \cup PagesOf(a, a + call.a2)]
    <2>1. PICK a \in BssEnd..(Top - 1) :
              a % HeapPage = 0 /\ outcome = [result |-> a, pages |-> mapped \cup PagesOf(a, a + call.a2)]
        BY <1>5
    <2>2. a \in Nat /\ ~IsErrno(a)
        BY <2>1, AlignedIsNoErrno DEF Aligned
    <2>3. /\ heap' = [heap EXCEPT !.base = a + heap_offset, !.size = 0]
          /\ mapped' = PagesOf(a, a + heap_offset)
          /\ last' = [nr |-> "mmap", asked |-> 0, before |-> 0, told |-> heap'.base + heap'.size]
        BY <1>1, <1>2, <2>1, <2>2 DEF Called, translate_brk_exit, HeapInv, HeapTyped
    <2>4. heap'.base = a + heap_offset /\ heap'.size = 0 /\ ~heap'.disabled /\ heap'.base # 0
        BY <1>1, <2>2, <2>3 DEF HeapInv, HeapTyped
    <2>5. HeapTyped'
        <3>1. heap' \in [base : Nat, size : Nat, disabled : BOOLEAN]
            <4>1. heap \in [base : Nat, size : Nat, disabled : BOOLEAN]
                BY DEF HeapInv, HeapTyped
            <4>2. a + heap_offset \in Nat
                BY <1>1, <2>2
            <4> QED BY <2>3, <4>1, <4>2
        <3>2. last'.told \in Int /\ last'.before \in Int /\ last'.asked \in Int
            BY <1>1, <2>2, <2>3, <2>4
        <3> QED BY <3>1, <3>2 DEF HeapTyped
    <2>6. heap'.base - heap_offset = a
        BY <1>1, <2>2, <2>4
    <2>7. HeapPlaced'
        BY <2>1, <2>2, <2>4, <2>6 DEF HeapPlaced, Aligned
    <2>8. HeapMapped'
        BY <1>1, <2>2, <2>3, <2>4, <2>6 DEF HeapMapped
    <2>9. PagesOf(heap'.base, last'.told) = {}
        BY <1>1, <2>2, <2>3, <2>4 DEF PagesOf
    <2>10. BrkHonest'
        BY <2>3, <2>9 DEF BrkHonest
    <2> QED BY <2>5, <2>7, <2>8, <2>10 DEF HeapInv
<1> QED BY <1>3, <1>4, <1>5 DEF Mmap

\* What the heap is, once it has a place, in numbers.
LEMMA Placed ==
    ASSUME HeapInv, heap.base # 0
    PROVE  /\ heap.base \in Nat /\ heap.size \in Nat /\ heap_offset \in Nat \ {0, 1}
           /\ heap.base - heap_offset \in Nat
           /\ ~IsErrno(heap.base - heap_offset)
           /\ mapped = PagesOf(heap.base - heap_offset, heap.base + heap.size)
           /\ PagesOf(heap.base, heap.base + heap.size) \subseteq mapped
<1> USE HeapAssumption
<1>1. heap.base \in Nat /\ heap.size \in Nat /\ heap_offset \in Nat \ {0, 1}
    BY DEF HeapInv, HeapTyped, heap_offset
<1>2. heap.base - heap_offset \in Nat /\ Aligned(heap.base - heap_offset)
    BY DEF HeapInv, HeapPlaced
<1>3. mapped = PagesOf(heap.base - heap_offset, heap.base + heap.size)
    BY DEF HeapInv, HeapMapped
<1>4. PagesOf(heap.base, heap.base + heap.size) \subseteq mapped
    BY <1>1, <1>2, <1>3, FewerPages
<1> QED BY <1>1, <1>2, <1>3, <1>4, AlignedIsNoErrno

\* A call below the heap, or one that fails: nothing changes.
LEMMA NothingMoved ==
    ASSUME HeapInv, heap.base # 0, NEW nr, NEW address \in Int,
           heap' = heap, mapped' = mapped,
           last' = [nr |-> nr, asked |-> address, before |-> heap.base + heap.size,
                    told |-> heap.base + heap.size]
    PROVE  HeapInv'
<1>1. HeapTyped' /\ HeapPlaced' /\ HeapMapped'
    BY DEF HeapInv, HeapTyped, HeapPlaced, HeapMapped
<1>2. BrkHonest'
    BY Placed DEF BrkHonest
<1> QED BY <1>1, <1>2 DEF HeapInv

LEMMA BrkVoid ==
    ASSUME HeapInv, NEW address \in Int, NEW outcome, Called(address, outcome),
           ~heap.disabled, heap.base # 0, address < heap.base
    PROVE  HeapInv'
<1>1. translate_brk_enter(heap, address) = [nr |-> "void"]
    BY DEF translate_brk_enter
<1>2. outcome = [result |-> 0, pages |-> mapped]
    BY <1>1 DEF Called, Outcomes
<1>3. /\ heap' = heap /\ mapped' = mapped
      /\ last' = [nr |-> "void", asked |-> address, before |-> heap.base + heap.size,
                  told |-> heap.base + heap.size]
    BY <1>1, <1>2 DEF Called, translate_brk_exit
<1> QED BY <1>3, NothingMoved

\* The kernel's mremap, given the pages of the heap: all of them or a failure.
LEMMA MremapOutcomes ==
    ASSUME HeapInv, heap.base # 0, NEW address \in Int, address >= heap.base,
           NEW outcome \in Mremap([nr |-> "mremap", a1 |-> heap.base - heap_offset,
                                   a2 |-> heap.size + heap_offset,
                                   a3 |-> address - heap.base + heap_offset])
    PROVE  \/ outcome = [result |-> ENOMEM, pages |-> mapped]
           \/ outcome = [result |-> heap.base - heap_offset,
                         pages |-> PagesOf(heap.base - heap_offset, address)]
<1> DEFINE a1 == heap.base - heap_offset
           old == PagesOf(a1, a1 + (heap.size + heap_offset))
           new == PagesOf(a1, a1 + (address - heap.base + heap_offset))
<1>1. a1 + (heap.size + heap_offset) = heap.base + heap.size
      /\ a1 + (address - heap.base + heap_offset) = address
    BY Placed
<1>2. old = mapped /\ new = PagesOf(a1, address)
    BY <1>1, Placed
<1>3. \/ outcome = [result |-> ENOMEM, pages |-> mapped]
      \/ new \subseteq old /\ outcome = [result |-> a1, pages |-> mapped \ (old \ new)]
      \/ ~(new \subseteq old) /\ outcome = [result |-> a1, pages |-> mapped \cup new]
    BY DEF Mremap
<1>4. CASE new \subseteq old /\ outcome = [result |-> a1, pages |-> mapped \ (old \ new)]
    <2>1. mapped \ (old \ new) = new
        BY <1>2, <1>4
    <2> QED BY <1>2, <1>4, <2>1
<1>5. CASE ~(new \subseteq old) /\ outcome = [result |-> a1, pages |-> mapped \cup new]
    <2>1. ~(address <= heap.base + heap.size)
        BY <1>2, <1>5, Placed, MorePages
    <2>2. old \subseteq new
        BY <1>2, <2>1, Placed, MorePages
    <2>3. mapped \cup new = new
        BY <1>2, <2>2
    <2> QED BY <1>2, <1>5, <2>3
<1> QED BY <1>3, <1>4, <1>5

\* A call that moves the end of the heap.
LEMMA BrkResize ==
    ASSUME HeapInv, NEW address \in Int, NEW outcome, Called(address, outcome),
           ~heap.disabled, heap.base # 0, address >= heap.base
    PROVE  HeapInv'
<1> DEFINE call == [nr |-> "mremap", a1 |-> heap.base - heap_offset, a2 |-> heap.size + heap_offset,
                    a3 |-> address - heap.base + heap_offset]
<1>1. translate_brk_enter(heap, address) = call
    BY Placed DEF translate_brk_enter
<1>2. outcome \in Mremap(call)
    BY <1>1 DEF Called, Outcomes
<1>3. CASE outcome = [result |-> ENOMEM, pages |-> mapped]
    <2>1. IsErrno(outcome.result)
        BY <1>3, FailureIsErrno
    <2>2. /\ heap' = heap /\ mapped' = mapped
          /\ last' = [nr |-> "mremap", asked |-> address, before |-> heap.base + heap.size,
                      told |-> heap.base + heap.size]
        BY <1>1, <1>3, <2>1 DEF Called, translate_brk_exit
    <2> QED BY <2>2, NothingMoved
<1>4. CASE outcome = [result |-> heap.base - heap_offset, pages |-> PagesOf(heap.base - heap_offset, address)]
    <2>1. ~IsErrno(outcome.result) /\ heap.base = outcome.result + heap_offset
        BY <1>4, Placed
    <2>2. /\ heap' = [heap EXCEPT !.size = address - heap.base]
          /\ mapped' = PagesOf(heap.base - heap_offset, address)
          /\ last' = [nr |-> "mremap", asked |-> address, before |-> heap.base + heap.size,
                      told |-> heap'.base + heap'.size]
        <3>1. call.a3 - heap_offset = address - heap.base
            BY Placed
        <3> QED BY <1>1, <1>4, <2>1, <3>1 DEF Called, translate_brk_exit
    <2>3. heap'.base = heap.base /\ heap'.size = address - heap.base /\ heap'.disabled = heap.disabled
          /\ heap' \in [base : Nat, size : Nat, disabled : BOOLEAN]
        BY <2>2, Placed DEF HeapInv, HeapTyped
    <2>4. last'.told = address /\ heap'.base + heap'.size = address
        BY <2>2, <2>3, Placed
    <2>5. HeapTyped'
        BY <2>2, <2>3, <2>4, Placed DEF HeapTyped
    <2>6. HeapPlaced'
        BY <2>3 DEF HeapInv, HeapPlaced
    <2>7. HeapMapped'
        BY <2>2, <2>3, <2>4 DEF HeapMapped
    <2>8. PagesOf(heap.base, address) \subseteq PagesOf(heap.base - heap_offset, address)
        BY Placed, FewerPages
    <2>9. BrkHonest'
        BY <2>2, <2>3, <2>4, <2>8 DEF BrkHonest
    <2> QED BY <2>5, <2>6, <2>7, <2>9 DEF HeapInv
<1> QED BY <1>2, <1>3, <1>4, MremapOutcomes

LEMMA BrkSound ==
    ASSUME HeapInv, Brk
    PROVE  HeapInv'
<1>1. PICK address \in Int : \E outcome : Called(address, outcome)
    BY BrkCalls
<1>2. PICK outcome : Called(address, outcome)
    BY <1>1
<1>3. heap.base \in Nat
    BY DEF HeapInv, HeapTyped
<1>4. \/ heap.disabled \/ (heap.base = 0 /\ address # 0)
      \/ ~heap.disabled /\ heap.base = 0 /\ address = 0
      \/ ~heap.disabled /\ heap.base # 0 /\ address < heap.base
      \/ ~heap.disabled /\ heap.base # 0 /\ address >= heap.base
    BY <1>3
<1> QED BY <1>2, <1>4, BrkLeft, BrkFirst, BrkVoid, BrkResize

(***************************************************************************)
(* The stack limit.                                                        *)
(***************************************************************************)
\* translate_setrlimit_exit, for every limit a tracee may set.
LEMMA LimitsFollow ==
    ASSUME SetLimit
    PROVE  LimitFollows'
<1>1. PICK is_prlimit, wide, null, readable \in BOOLEAN, resource \in {"STACK", "NOFILE"},
           cur, hard, value \in 0..Infinity, fails \in {"none", "get", "set"} :
          LET in == [is_prlimit |-> is_prlimit, wide |-> wide, null |-> null, readable |-> readable,
                     resource |-> resource, cur |-> cur, hard |-> hard, value |-> value, fails |-> fails]
          IN  /\ cur <= hard
              /\ wide \/ is_prlimit \/ value <= Infinity32
              /\ Try("rlimit", in, translate_setrlimit_exit(in))
    BY Zenon DEF SetLimit
<1> DEFINE in == [is_prlimit |-> is_prlimit, wide |-> wide, null |-> null, readable |-> readable,
                  resource |-> resource, cur |-> cur, hard |-> hard, value |-> value, fails |-> fails]
           out == translate_setrlimit_exit(in)
           asked == IF ~wide /\ ~is_prlimit /\ value >= Infinity32 THEN Infinity ELSE value
           seen == resource = "STACK" /\ ~null /\ readable
<1>2. trial' = [op |-> "rlimit", in |-> in, out |-> out]
    BY <1>1 DEF Try
<1>3. stack_limit(is_prlimit, wide, value) = asked
    BY <1>1 DEF stack_limit, Infinity, Infinity32
<1>4. \/ out.cur = cur /\ ~seen
      \/ out.cur = cur /\ out.status = 0 /\ seen /\ (fails # "none" \/ cur >= asked \/ asked > hard)
      \/ out.cur = asked /\ out.status = 0 /\ seen /\ cur < asked /\ asked <= hard
    BY <1>1, <1>3 DEF translate_setrlimit_exit, Infinity, Infinity32
<1>5. out.cur \in cur..hard
    BY <1>1, <1>4 DEF Infinity
<1>6. out.cur # cur => seen
    BY <1>4
<1>7. seen /\ fails = "none" /\ asked <= hard => out.cur >= asked /\ out.status = 0
    BY <1>4 DEF Infinity
<1> QED BY <1>2, <1>5, <1>6, <1>7 DEF LimitFollows

(***************************************************************************)
(* The theorems.                                                           *)
(***************************************************************************)
\* heap.c, rlimit.c: the inductive invariant of brk, and the tracer's limit.
THEOREM HeapSound == HeapSpec => [](HeapInv /\ LimitFollows)
<1>1. HeapInit /\ TrialInit => HeapInv /\ LimitFollows
    <2> SUFFICES ASSUME HeapInit, TrialInit PROVE HeapInv /\ LimitFollows
        OBVIOUS
    <2>1. HeapTyped /\ HeapPlaced /\ HeapMapped /\ BrkHonest
        BY DEF HeapInit, HeapTyped, HeapPlaced, HeapMapped, BrkHonest
    <2>2. LimitFollows
        BY DEF TrialInit, NoTrial, LimitFollows
    <2> QED BY <2>1, <2>2 DEF HeapInv
<1>2. HeapInv /\ LimitFollows
      /\ [(Brk /\ UNCHANGED trial) \/ (SetLimit /\ UNCHANGED hvars)]_<<hvars, trial>>
      => (HeapInv /\ LimitFollows)'
    <2> SUFFICES ASSUME HeapInv, LimitFollows,
                        [(Brk /\ UNCHANGED trial) \/ (SetLimit /\ UNCHANGED hvars)]_<<hvars, trial>>
                 PROVE  HeapInv' /\ LimitFollows'
        OBVIOUS
    <2>1. ASSUME UNCHANGED hvars PROVE HeapInv'
        BY <2>1 DEF hvars, HeapInv, HeapTyped, HeapPlaced, HeapMapped, BrkHonest
    <2>2. ASSUME UNCHANGED trial PROVE LimitFollows'
        BY <2>2 DEF LimitFollows
    <2>3. CASE Brk /\ UNCHANGED trial
        BY <2>2, <2>3, BrkSound
    <2>4. CASE SetLimit /\ UNCHANGED hvars
        BY <2>1, <2>4, LimitsFollow
    <2>5. CASE UNCHANGED <<hvars, trial>>
        BY <2>1, <2>2, <2>5
    <2> QED BY <2>3, <2>4, <2>5
<1> QED BY <1>1, <1>2, PTL DEF HeapSpec

\* heap.c and rlimit.c: what is remembered of the kernel's memory and limits stays
\* true whatever call fails, for every page size, program and address space.
THEOREM HeapHonestHolds == HeapSpec => []HeapHonest
<1>1. HeapInv /\ LimitFollows => HeapHonest
    BY DEF HeapInv, HeapHonest
<1> QED BY <1>1, HeapSound, PTL

-----------------------------------------------------------------------------
(***************************************************************************)
(* System call numbers: a table gives each call a number of its own, below *)
(* the length of the table.                                                *)
(***************************************************************************)
IsTable(t) ==
    /\ t.length \in Nat /\ "past" \notin DOMAIN t.entries
    /\ \A pr \in DOMAIN t.entries : t.entries[pr] \in Nat /\ t.entries[pr] < t.length
    /\ \A pr, qr \in DOMAIN t.entries : t.entries[pr] = t.entries[qr] => pr = qr

LEMMA ArmTable == IsTable(sysnums_arm)
  BY DEF IsTable, sysnums_arm, Table

LEMMA Arm64Table == IsTable(sysnums_arm64)
  BY DEF IsTable, sysnums_arm64, Table

LEMMA I386Table == IsTable(sysnums_i386)
  BY DEF IsTable, sysnums_i386, Table

LEMMA X86_64Table == IsTable(sysnums_x86_64)
  BY DEF IsTable, sysnums_x86_64, Table

LEMMA X32Table == IsTable(sysnums_x32)
  BY DEF IsTable, sysnums_x32, Table

LEMMA HostsArchs ==
    ASSUME NEW host \in Hosts
    PROVE  \/ /\ host = "x86_64"
              /\ SECCOMP_ARCHS(host) = <<[value |-> "X86_64", abis |-> <<"DEFAULT", "3">>],
                                         [value |-> "I386", abis |-> <<"2">>]>>
           \/ /\ host = "arm64"
              /\ SECCOMP_ARCHS(host) = <<[value |-> "AARCH64", abis |-> <<"DEFAULT">>],
                                         [value |-> "ARM", abis |-> <<"2">>]>>
           \/ host = "arm" /\ SECCOMP_ARCHS(host) = <<[value |-> "ARM", abis |-> <<"DEFAULT">>]>>
           \/ host = "x86" /\ SECCOMP_ARCHS(host) = <<[value |-> "I386", abis |-> <<"DEFAULT">>]>>
  BY DEF Hosts, SECCOMP_ARCHS

\* The ABIs of an architecture: one, or two with numbers apart.
IsAbis(host, abis) ==
    \/ \E a : abis = <<a>>
    \/ host = "x86_64" /\ abis = <<"DEFAULT", "3">>

ArchType(host) == {a \in [value : Archs, abis : Seq({"DEFAULT", "2", "3"})] : IsAbis(host, a.abis)}

LEMMA HostsSections ==
    ASSUME NEW host \in Hosts
    PROVE  LET archs == SECCOMP_ARCHS(host)
           IN  /\ archs \in Seq(ArchType(host)) /\ Len(archs) \in {1, 2}
               /\ Len(archs) = 2 => archs[1].value # archs[2].value
<1>1. \A v \in Archs, a, b \in {"DEFAULT", "2", "3"} :
         /\ [value |-> v, abis |-> <<a>>] \in ArchType(host)
         /\ host = "x86_64" => [value |-> v, abis |-> <<"DEFAULT", "3">>] \in ArchType(host)
  BY DEF ArchType, IsAbis
<1>2. \A x, y \in ArchType(host) : <<x>> \in Seq(ArchType(host)) /\ <<x, y>> \in Seq(ArchType(host))
  OBVIOUS
<1>3. CASE host = "x86_64"
  <2> DEFINE x == [value |-> "X86_64", abis |-> <<"DEFAULT", "3">>]
             y == [value |-> "I386", abis |-> <<"2">>]
  <2>1. x \in ArchType(host) /\ y \in ArchType(host) /\ x.value # y.value
    BY <1>1, <1>3 DEF Archs
  <2>2. SECCOMP_ARCHS(host) = <<x, y>>
    BY <1>3, HostsArchs
  <2> HIDE DEF x, y
  <2> QED
    BY <1>2, <2>1, <2>2
<1>4. CASE host = "arm64"
  <2> DEFINE x == [value |-> "AARCH64", abis |-> <<"DEFAULT">>]
             y == [value |-> "ARM", abis |-> <<"2">>]
  <2>1. x \in ArchType(host) /\ y \in ArchType(host) /\ x.value # y.value
    BY <1>1, <1>4 DEF Archs
  <2>2. SECCOMP_ARCHS(host) = <<x, y>>
    BY <1>4, HostsArchs
  <2> HIDE DEF x, y
  <2> QED
    BY <1>2, <2>1, <2>2
<1>5. CASE host \in {"arm", "x86"}
  BY <1>1, <1>2, <1>5, HostsArchs DEF Archs
<1> QED
  BY <1>3, <1>4, <1>5 DEF Hosts

LEMMA AbisOfHost ==
    ASSUME NEW host \in Hosts, NEW abi \in Abis(host)
    PROVE  \E i \in DOMAIN SECCOMP_ARCHS(host) : \E n \in DOMAIN SECCOMP_ARCHS(host)[i].abis :
              SECCOMP_ARCHS(host)[i].abis[n] = abi
  BY DEF Abis

LEMMA AbisTables ==
    ASSUME NEW host \in Hosts, NEW i \in DOMAIN SECCOMP_ARCHS(host),
           NEW n \in DOMAIN SECCOMP_ARCHS(host)[i].abis
    PROVE  LET s == get_sysnums(host, SECCOMP_ARCHS(host)[i].abis[n])
           IN  IsTable(s.table) /\ s.offset \in Nat
<1> DEFINE archs == SECCOMP_ARCHS(host)
           abi == archs[i].abis[n]
<1>1. \/ host = "x86_64" /\ abi \in {"DEFAULT", "3", "2"}
      \/ host = "arm64" /\ abi \in {"DEFAULT", "2"}
      \/ host \in {"arm", "x86"} /\ abi = "DEFAULT"
  BY HostsArchs
<1> HIDE DEF abi
<1>2. get_sysnums(host, abi) \in
          [table : {sysnums_arm, sysnums_arm64, sysnums_i386, sysnums_x86_64, sysnums_x32},
           offset : {0, 1073741824}]
  BY <1>1 DEF get_sysnums
<1>3. \A t \in {sysnums_arm, sysnums_arm64, sysnums_i386, sysnums_x86_64, sysnums_x32} : IsTable(t)
  BY ArmTable, Arm64Table, I386Table, X86_64Table, X32Table
<1> QED
  BY <1>2, <1>3 DEF abi

\* A number of one ABI of an architecture is a number of no other call there.
LEMMA NumbersApart ==
    ASSUME NEW host \in Hosts, NEW i \in DOMAIN SECCOMP_ARCHS(host),
           NEW a, NEW b, NEW n \in DOMAIN SECCOMP_ARCHS(host)[i].abis,
           NEW m \in DOMAIN SECCOMP_ARCHS(host)[i].abis,
           a = SECCOMP_ARCHS(host)[i].abis[n], b = SECCOMP_ARCHS(host)[i].abis[m],
           NEW pr, NEW qr,
           detranslate_sysnum(host, a, pr) = detranslate_sysnum(host, b, qr),
           detranslate_sysnum(host, a, pr) # SYSCALL_AVOIDER
    PROVE  pr = qr
<1> DEFINE s == get_sysnums(host, a)
           t == get_sysnums(host, b)
<1>1. IsTable(s.table) /\ IsTable(t.table) /\ s.offset \in Nat /\ t.offset \in Nat
  BY AbisTables
<1>2. /\ pr \in DOMAIN s.table.entries /\ qr \in DOMAIN t.table.entries
      /\ s.table.entries[pr] + s.offset = t.table.entries[qr] + t.offset
  BY <1>1 DEF IsTable, detranslate_sysnum, index_of, SYSCALL_AVOIDER
<1>3. CASE a = b
  <2> DEFINE e == s.table.entries
  <2>1. s = t
    BY <1>3
  <2> HIDE DEF s, t
  <2>2. e[pr] \in Nat /\ e[qr] \in Nat /\ pr \in DOMAIN e /\ qr \in DOMAIN e
    BY <1>1, <1>2, <2>1 DEF IsTable
  <2>3. \A x, y \in DOMAIN e : e[x] = e[y] => x = y
    BY <1>1 DEF IsTable
  <2>4. e[pr] + s.offset = e[qr] + s.offset
    BY <1>2, <2>1
  <2> HIDE DEF e
  <2>5. e[pr] = e[qr]
    BY <1>1, <2>2, <2>4
  <2> QED
    BY <2>2, <2>3, <2>5
<1>4. CASE a # b
  <2>1. host = "x86_64" /\ a \in {"DEFAULT", "3"} /\ b \in {"DEFAULT", "3"}
    BY <1>4, HostsArchs
  <2>2. /\ get_sysnums(host, "DEFAULT").offset = 0 /\ get_sysnums(host, "3").offset = 1073741824
        /\ get_sysnums(host, "DEFAULT").table = sysnums_x86_64
        /\ sysnums_x86_64.length = 440
    BY <2>1 DEF get_sysnums, sysnums_x86_64, Table
  <2> HIDE DEF s, t
  <2>3. \/ s.offset = 0 /\ s.table.length = 440 /\ t.offset = 1073741824
        \/ t.offset = 0 /\ t.table.length = 440 /\ s.offset = 1073741824
    BY <1>4, <2>1, <2>2 DEF s, t
  <2>4. /\ s.table.entries[pr] \in Nat /\ s.table.entries[pr] < s.table.length
        /\ t.table.entries[qr] \in Nat /\ t.table.entries[qr] < t.table.length
    BY <1>1, <1>2 DEF IsTable
  <2> QED
    BY <1>1, <1>2, <2>3, <2>4
<1> QED
  BY <1>3, <1>4

\* A number and back.
LEMMA TableRoundTrip ==
    ASSUME NEW s, IsTable(s.table), s.offset \in Nat, NEW pr \in DOMAIN s.table.entries
    PROVE  /\ index_of(s, pr) \in Nat /\ entry_of(s, index_of(s, pr)) = pr
<1> DEFINE index == s.table.entries[pr]
           named == {qr \in DOMAIN s.table.entries : s.table.entries[qr] = index}
<1>1. index \in Nat /\ index < s.table.length /\ s.table.length \in Nat
  BY DEF IsTable
<1>2. index_of(s, pr) = index + s.offset
  BY DEF index_of
<1>3. named = {pr}
  BY DEF IsTable
<1> HIDE DEF index, named
<1>4. (index + s.offset) - s.offset = index /\ ~(index + s.offset < s.offset)
  BY <1>1
<1>5. entry_of(s, index + s.offset) = CHOOSE qr \in named : TRUE
  BY <1>1, <1>3, <1>4 DEF entry_of, named
<1> QED
  BY <1>1, <1>2, <1>3, <1>5

LEMMA PastTable ==
    ASSUME NEW s, IsTable(s.table), s.offset \in Nat, NEW nr \in Int
    PROVE  entry_of(s, nr) = "past" <=> nr = s.offset + s.table.length
<1>1. s.table.length \in Nat /\ "past" \notin DOMAIN s.table.entries
  BY DEF IsTable
<1> DEFINE named == {pr \in DOMAIN s.table.entries : s.table.entries[pr] = nr - s.offset}
<1>2. named # {} => (CHOOSE pr \in named : TRUE) \in named
  OBVIOUS
<1>3. named # {} => (CHOOSE pr \in named : TRUE) # "past"
  BY <1>1, <1>2
<1> HIDE DEF named
<1>4. entry_of(s, nr) = IF nr < s.offset \/ nr - s.offset > s.table.length THEN PR_void
                        ELSE IF nr - s.offset = s.table.length THEN "past"
                        ELSE IF named = {} THEN "opaque"
                        ELSE CHOOSE pr \in named : TRUE
  BY DEF entry_of, named
<1> QED
  BY <1>1, <1>3, <1>4 DEF PR_void

-----------------------------------------------------------------------------
(***************************************************************************)
(* Lists: what the loops of the filter keep, merge and join.               *)
(***************************************************************************)
Has(s, x) == \E n \in DOMAIN s : s[n] = x

LEMMA HasAppended ==
    ASSUME NEW X, NEW s \in Seq(X), NEW x \in X, NEW y
    PROVE  Append(s, x) \in Seq(X) /\ (Has(Append(s, x), y) <=> Has(s, y) \/ x = y)
<1> DEFINE t == Append(s, x)
           n == Len(s)
<1>1. /\ t \in Seq(X) /\ n \in Nat /\ DOMAIN s = 1..n /\ DOMAIN t = 1..(n + 1)
      /\ t[n + 1] = x /\ \A i \in 1..n : t[i] = s[i]
  OBVIOUS
<1> HIDE DEF t, n
<1>2. (1..(n + 1)) = (1..n) \cup {n + 1}
  BY <1>1
<1>3. Has(t, y) <=> Has(s, y) \/ x = y
  BY <1>1, <1>2 DEF Has
<1> QED
  BY <1>1, <1>3 DEF t

LEMMA HasJoined ==
    ASSUME NEW X, NEW s \in Seq(X), NEW t \in Seq(X), NEW y
    PROVE  s \o t \in Seq(X) /\ (Has(s \o t, y) <=> Has(s, y) \/ Has(t, y))
<1> DEFINE u == s \o t
           m == Len(s)
           n == Len(t)
<1>1. /\ u \in Seq(X) /\ m \in Nat /\ n \in Nat /\ DOMAIN s = 1..m /\ DOMAIN t = 1..n
      /\ DOMAIN u = 1..(m + n)
      /\ \A i \in 1..m : u[i] = s[i]
      /\ \A i \in 1..n : u[m + i] = t[i]
  OBVIOUS
<1> HIDE DEF u, m, n
<1>2. ASSUME Has(u, y)
      PROVE  Has(s, y) \/ Has(t, y)
  <2>1. PICK i \in 1..(m + n) : u[i] = y
    BY <1>1, <1>2 DEF Has
  <2>2. CASE i <= m
    BY <1>1, <2>1, <2>2 DEF Has
  <2>3. CASE i > m
    <3>1. i - m \in 1..n /\ m + (i - m) = i
      BY <1>1, <2>3
    <3> QED
      BY <1>1, <2>1, <3>1 DEF Has
  <2> QED
    BY <1>1, <2>2, <2>3
<1>3. ASSUME Has(s, y)
      PROVE  Has(u, y)
  <2>1. \A i \in 1..m : i \in 1..(m + n)
    BY <1>1
  <2> QED
    BY <1>1, <1>3, <2>1 DEF Has
<1>4. ASSUME Has(t, y)
      PROVE  Has(u, y)
  <2>1. \A i \in 1..n : m + i \in 1..(m + n)
    BY <1>1
  <2> QED
    BY <1>1, <1>4, <2>1 DEF Has
<1> QED
  BY <1>1, <1>2, <1>3, <1>4 DEF u

LEMMA KeptHas ==
    ASSUME NEW X, NEW s \in Seq(X), NEW P \in SUBSET DOMAIN s
    PROVE  /\ Kept(s, P) \in Seq(X)
           /\ \A x : Has(Kept(s, P), x) <=> \E n \in P : s[n] = x
<1> DEFINE m == Len(s)
           D == Seq(X)
           At(f, n) == IF n = 0 THEN <<>> ELSE IF n \in P THEN Append(f[n - 1], s[n]) ELSE f[n - 1]
           Is(f) == f = [n \in 0..m |-> At(f, n)]
           k == CHOOSE f : Is(f)
           step == [z \in (1..m) \X D |-> IF z[1] \in P THEN Append(z[2], s[z[1]]) ELSE z[2]]
<1>1. /\ m \in Nat /\ <<>> \in D /\ DOMAIN s = 1..m /\ \A n \in 1..m : s[n] \in X
      /\ step \in [(1..m) \X D -> D]
  OBVIOUS
<1>2. Is(k)
  <2>1. PICK f \in [0..m -> D] : IsLoop(f, m, <<>>, step)
    <3> HIDE DEF D, step, m
    <3> QED
      BY <1>1, LoopExists
  <2>2. \A n \in 0..m : f[n] = IF n = 0 THEN <<>> ELSE step[<<n, f[n - 1]>>]
    BY <2>1 DEF IsLoop
  <2>3. \A n \in 0..m : f[n] = At(f, n)
    <3>1. SUFFICES ASSUME NEW n \in 0..m, n # 0
                   PROVE  f[n] = At(f, n)
      BY <2>2
    <3> HIDE DEF D, m
    <3>4. n \in 1..m /\ n - 1 \in 0..m
      BY <1>1, <3>1
    <3>2. n \in 1..m /\ n - 1 \in 0..m /\ f[n - 1] \in D
      BY <3>4
    <3> QED
      BY <2>2, <3>1, <3>2
  <2>4. Is(f)
    BY <2>1, <2>3
  <2> HIDE DEF At
  <2> QED
    BY <2>4
<1>3. Kept(s, P) = k[m]
  BY DEF Kept
<1> HIDE DEF k, step
<1>4. k[0] = <<>> /\ \A n \in 0..(m - 1) : k[n + 1] = IF n + 1 \in P THEN Append(k[n], s[n + 1]) ELSE k[n]
  <2>1. \A n \in 0..m : k[n] = At(k, n)
    BY <1>2
  <2>2. 0 \in 0..m /\ \A n \in 0..(m - 1) : n + 1 \in 0..m /\ n + 1 # 0 /\ (n + 1) - 1 = n
    BY <1>1
  <2> HIDE DEF m
  <2> QED
    BY <2>1, <2>2
<1> DEFINE Good(n) == k[n] \in D /\ \A x : Has(k[n], x) <=> \E i \in P : i <= n /\ s[i] = x
           S == {n \in 0..m : Good(n)}
<1>5. 0 \in S
  <2>1. \A i \in P : ~(i <= 0)
    BY <1>1
  <2>2. \A x : ~Has(<<>>, x)
    BY DEF Has
  <2>3. k[0] \in D /\ \A x : ~Has(k[0], x)
    BY <1>1, <1>4, <2>2
  <2>4. \A x : Has(k[0], x) <=> \E i \in P : i <= 0 /\ s[i] = x
    BY <2>1, <2>3
  <2>5. 0 \in 0..m
    BY <1>1
  <2> QED
    BY <2>3, <2>4, <2>5
<1>6. ASSUME NEW n \in 0..(m - 1), n \in S
      PROVE  n + 1 \in S
  <2>1. n + 1 \in 1..m /\ n + 1 \in 0..m /\ s[n + 1] \in X
    BY <1>1
  <2>2. \A i \in P : i <= n + 1 <=> i <= n \/ i = n + 1
    BY <1>1
  <2>3. Good(n)
    BY <1>6
  <2>4. CASE n + 1 \in P
    <3>1. k[n + 1] = Append(k[n], s[n + 1])
      BY <1>4, <2>4
    <3>2. /\ k[n + 1] \in D
          /\ \A x : Has(k[n + 1], x) <=> Has(k[n], x) \/ s[n + 1] = x
      BY <2>1, <2>3, <3>1, HasAppended
    <3>3. \A x : Has(k[n + 1], x) <=> \E i \in P : i <= n + 1 /\ s[i] = x
      BY <2>2, <2>3, <2>4, <3>2
    <3> QED
      BY <2>1, <3>2, <3>3
  <2>5. CASE n + 1 \notin P
    <3>1. k[n + 1] = k[n]
      BY <1>4, <2>5
    <3>2. \A x : Has(k[n + 1], x) <=> \E i \in P : i <= n + 1 /\ s[i] = x
      BY <2>2, <2>3, <2>5, <3>1
    <3> QED
      BY <2>1, <2>3, <3>1, <3>2
  <2> QED
    BY <2>4, <2>5
<1> HIDE DEF S
<1>7. \A n \in 0..m : n \in S
  BY <1>1, <1>5, <1>6, InductionUpTo
<1>8. Good(m)
  <2>1. m \in S
    BY <1>1, <1>7
  <2> QED
    BY <2>1 DEF S
<1>9. \A i \in P : i <= m
  BY <1>1
<1> HIDE DEF m
<1> QED
  BY <1>3, <1>8, <1>9

\* What the entries of a list that is being merged amount to.
Named(list, n, v) == \E k \in 1..n : list[k].value = v
Exits(list, n, v) == \E k \in 1..n : list[k].value = v /\ list[k].exit

Merges(merged, list, n) ==
    /\ merged \in Seq(Entries)
    /\ \A v : (\E i \in DOMAIN merged : merged[i].value = v) <=> Named(list, n, v)
    /\ \A i \in DOMAIN merged : merged[i].exit <=> Exits(list, n, merged[i].value)

LEMMA MergeOne ==
    ASSUME NEW list \in Seq(Entries), NEW n \in 0..(Len(list) - 1), NEW merged, Merges(merged, list, n)
    PROVE  Merges(merge_one(merged, list[n + 1]), list, n + 1)
<1> DEFINE e == list[n + 1]
           new == merge_one(merged, e)
<1>1. e \in Entries /\ e.value \in PR_calls /\ e.exit \in BOOLEAN
  <2>1. n + 1 \in 1..Len(list)
    OBVIOUS
  <2>2. e \in Entries
    BY <2>1
  <2> QED
    BY <2>2 DEF Entries
<1>2. /\ \A v : Named(list, n + 1, v) <=> Named(list, n, v) \/ e.value = v
      /\ \A v : Exits(list, n + 1, v) <=> Exits(list, n, v) \/ (e.value = v /\ e.exit)
  <2>1. (1..(n + 1)) = (1..n) \cup {n + 1}
    OBVIOUS
  <2> HIDE DEF e
  <2> QED
    BY <2>1 DEF Named, Exits, e
<1>3. /\ merged \in Seq(Entries)
      /\ \A v : (\E i \in DOMAIN merged : merged[i].value = v) <=> Named(list, n, v)
      /\ \A i \in DOMAIN merged : merged[i].exit <=> Exits(list, n, merged[i].value)
      /\ DOMAIN merged = 1..Len(merged)
      /\ \A i \in DOMAIN merged : merged[i] \in Entries
  BY DEF Merges
<1>4. CASE \E i \in DOMAIN merged : merged[i].value = e.value
  <2> DEFINE both(i) == Entry(e.value, merged[i].exit \/ e.exit)
  <2>1. new = [i \in DOMAIN merged |-> IF merged[i].value = e.value THEN both(i) ELSE merged[i]]
    BY <1>4 DEF merge_one
  <2>2. \A i \in DOMAIN merged : both(i) \in Entries /\ both(i).value = e.value
                                 /\ (both(i).exit <=> merged[i].exit \/ e.exit)
    BY <1>1 DEF Entry, Entries
  <2> HIDE DEF both, e, new
  <2>3. new \in Seq(Entries) /\ DOMAIN new = DOMAIN merged
    BY <1>3, <2>1, <2>2
  <2>4. \A i \in DOMAIN merged : new[i] = IF merged[i].value = e.value THEN both(i) ELSE merged[i]
    BY <2>1
  <2>5. \A i \in DOMAIN merged : new[i].value = merged[i].value
    BY <2>2, <2>4
  <2>6. \A v : (\E i \in DOMAIN new : new[i].value = v) <=> Named(list, n + 1, v)
    BY <1>2, <1>3, <1>4, <2>3, <2>5
  <2>7. \A i \in DOMAIN new : new[i].exit <=> Exits(list, n + 1, new[i].value)
    <3>1. SUFFICES ASSUME NEW i \in DOMAIN merged
                   PROVE  new[i].exit <=> Exits(list, n + 1, merged[i].value)
      BY <2>3, <2>5
    <3>2. CASE merged[i].value = e.value
      BY <1>2, <1>3, <2>2, <2>4, <3>2
    <3>3. CASE merged[i].value # e.value
      BY <1>2, <1>3, <2>4, <3>3
    <3> QED
      BY <3>2, <3>3
  <2> QED
    BY <2>3, <2>6, <2>7 DEF Merges, new, e
<1>5. CASE ~\E i \in DOMAIN merged : merged[i].value = e.value
  <2> DEFINE m == Len(merged)
  <2>1. new = Append(merged, e)
    BY <1>5 DEF merge_one
  <2> HIDE DEF e, new
  <2>2. /\ new \in Seq(Entries) /\ m \in Nat /\ DOMAIN new = 1..(m + 1) /\ DOMAIN merged = 1..m
        /\ new[m + 1] = e /\ \A i \in 1..m : new[i] = merged[i]
    BY <1>1, <1>3, <2>1
  <2> HIDE DEF m
  <2>3. (1..(m + 1)) = (1..m) \cup {m + 1}
    BY <2>2
  <2>4. ~Exits(list, n, e.value)
    <3>1. ~Named(list, n, e.value)
      BY <1>3, <1>5
    <3> QED
      BY <3>1 DEF Named, Exits
  <2>5. \A v : (\E i \in DOMAIN new : new[i].value = v) <=> Named(list, n + 1, v)
    BY <1>2, <1>3, <2>2, <2>3
  <2>6. \A i \in DOMAIN new : new[i].exit <=> Exits(list, n + 1, new[i].value)
    <3>1. SUFFICES ASSUME NEW i \in 1..(m + 1)
                   PROVE  new[i].exit <=> Exits(list, n + 1, new[i].value)
      BY <2>2
    <3>2. CASE i = m + 1
      BY <1>2, <2>2, <2>4, <3>2
    <3>3. CASE i # m + 1
      <4>1. i \in 1..m /\ merged[i].value # e.value
        BY <1>5, <2>2, <2>3, <3>3
      <4> QED
        BY <1>2, <1>3, <2>2, <4>1
    <3> QED
      BY <3>2, <3>3
  <2> QED
    BY <2>2, <2>5, <2>6 DEF Merges, new, e
<1> QED
  BY <1>4, <1>5

LEMMA MergeExact ==
    ASSUME NEW list \in Seq(Entries)
    PROVE  Merges(merge_filtered_sysnums(list), list, Len(list))
<1> DEFINE m == Len(list)
           D == Seq(Entries)
           At(f, n) == IF n = 0 THEN <<>> ELSE merge_one(f[n - 1], list[n])
           Is(f) == f = [n \in 0..m |-> At(f, n)]
           k == CHOOSE f : Is(f)
           step == [z \in (1..m) \X D |-> merge_one(z[2], list[z[1]])]
<1>1. m \in Nat /\ <<>> \in D /\ DOMAIN list = 1..m /\ \A n \in 1..m : list[n] \in Entries
  OBVIOUS
<1>2. ASSUME NEW merged \in D, NEW e \in Entries
      PROVE  merge_one(merged, e) \in D
  <2>1. e.value \in PR_calls /\ e.exit \in BOOLEAN
    BY DEF Entries
  <2>2. \A i \in DOMAIN merged : merged[i] \in Entries /\ merged[i].exit \in BOOLEAN
    <3>1. \A i \in DOMAIN merged : merged[i] \in Entries
      OBVIOUS
    <3> QED
      BY <3>1 DEF Entries
  <2>3. \A i \in DOMAIN merged : Entry(e.value, merged[i].exit \/ e.exit) \in Entries
    BY <2>1, <2>2 DEF Entry, Entries
  <2>4. Append(merged, e) \in D
    OBVIOUS
  <2> DEFINE new == [i \in DOMAIN merged |-> IF merged[i].value = e.value
                                             THEN Entry(e.value, merged[i].exit \/ e.exit) ELSE merged[i]]
  <2>5. new \in D
    BY <2>2, <2>3
  <2> QED
    BY <2>4, <2>5 DEF merge_one
<1>3. step \in [(1..m) \X D -> D]
  <2>1. \A z \in (1..m) \X D : merge_one(z[2], list[z[1]]) \in D
    <3> HIDE DEF D, m
    <3> QED
      BY <1>1, <1>2
  <2> HIDE DEF D, m
  <2> QED
    BY <2>1
<1>4. Is(k)
  <2>1. PICK f \in [0..m -> D] : IsLoop(f, m, <<>>, step)
    <3> HIDE DEF D, step, m
    <3> QED
      BY <1>1, <1>3, LoopExists
  <2>2. \A n \in 0..m : f[n] = IF n = 0 THEN <<>> ELSE step[<<n, f[n - 1]>>]
    BY <2>1 DEF IsLoop
  <2>3. \A n \in 0..m : f[n] = At(f, n)
    <3>1. SUFFICES ASSUME NEW n \in 0..m, n # 0
                   PROVE  f[n] = At(f, n)
      BY <2>2
    <3> HIDE DEF D, m
    <3>4. n \in 1..m /\ n - 1 \in 0..m
      BY <1>1, <3>1
    <3>2. n \in 1..m /\ n - 1 \in 0..m /\ f[n - 1] \in D
      BY <3>4
    <3> QED
      BY <2>2, <3>1, <3>2
  <2>4. Is(f)
    BY <2>1, <2>3
  <2> HIDE DEF At
  <2> QED
    BY <2>4
<1>5. merge_filtered_sysnums(list) = k[m]
  BY DEF merge_filtered_sysnums
<1> HIDE DEF k, step
<1>6. k[0] = <<>> /\ \A n \in 0..(m - 1) : k[n + 1] = merge_one(k[n], list[n + 1])
  <2>1. \A n \in 0..m : k[n] = At(k, n)
    BY <1>4
  <2>2. 0 \in 0..m /\ \A n \in 0..(m - 1) : n + 1 \in 0..m /\ n + 1 # 0 /\ (n + 1) - 1 = n
    BY <1>1
  <2> HIDE DEF m
  <2> QED
    BY <2>1, <2>2
<1> DEFINE S == {n \in 0..m : Merges(k[n], list, n)}
<1>7. 0 \in S
  <2>1. Merges(<<>>, list, 0)
    BY DEF Merges, Named, Exits
  <2> QED
    BY <1>1, <1>6, <2>1
<1>8. ASSUME NEW n \in 0..(m - 1), n \in S
      PROVE  n + 1 \in S
  BY <1>6, <1>8, MergeOne
<1> HIDE DEF S
<1>9. \A n \in 0..m : n \in S
  BY <1>1, <1>7, <1>8, InductionUpTo
<1>10. m \in S
  BY <1>1, <1>9
<1> QED
  BY <1>5, <1>10 DEF S

IsInternal(v) == \E n \in DOMAIN internal_sysnums : internal_sysnums[n].value = v

LEMMA InternalEntries ==
    /\ internal_sysnums \in Seq(Entries)
    /\ \A n \in DOMAIN internal_sysnums : internal_sysnums[n].exit
<1>1. /\ Entry("ptrace", TRUE) \in Entries /\ Entry("wait4", TRUE) \in Entries
      /\ Entry("waitpid", TRUE) \in Entries /\ Entry("execve", TRUE) \in Entries
      /\ Entry("execveat", TRUE) \in Entries /\ Entry("readlinkat", TRUE) \in Entries
  <2>1. DOMAIN sysnums_i386.entries \cup {"execveat"} \subseteq PR_calls
    BY DEF PR_calls
  <2>2. \A v \in {"ptrace", "wait4", "waitpid", "execve", "execveat", "readlinkat"} : v \in PR_calls
    BY <2>1 DEF sysnums_i386, Table
  <2>3. \A v \in {"ptrace", "wait4", "waitpid", "execve", "execveat", "readlinkat"} :
           Entry(v, TRUE) \in Entries
    BY <2>2 DEF Entry, Entries
  <2> QED
    BY <2>3
<1>2. /\ Entry("ptrace", TRUE).exit /\ Entry("wait4", TRUE).exit /\ Entry("waitpid", TRUE).exit
      /\ Entry("execve", TRUE).exit /\ Entry("execveat", TRUE).exit /\ Entry("readlinkat", TRUE).exit
  BY DEF Entry
<1>3. \A a, b, c, d, e, f \in Entries : a.exit /\ b.exit /\ c.exit /\ d.exit /\ e.exit /\ f.exit =>
         /\ <<a, b, c, d, e, f>> \in Seq(Entries)
         /\ \A n \in DOMAIN <<a, b, c, d, e, f>> : <<a, b, c, d, e, f>>[n].exit
  <2>1. SUFFICES ASSUME NEW a \in Entries, NEW b \in Entries, NEW c \in Entries, NEW d \in Entries,
                        NEW e \in Entries, NEW f \in Entries,
                        a.exit, b.exit, c.exit, d.exit, e.exit, f.exit
                 PROVE  /\ <<a, b, c, d, e, f>> \in Seq(Entries)
                        /\ \A n \in 1..6 : <<a, b, c, d, e, f>>[n].exit
    OBVIOUS
  <2>2. 1..6 = {1, 2, 3, 4, 5, 6}
    OBVIOUS
  <2> QED
    BY <2>1, <2>2
<1> QED
  BY <1>1, <1>2, <1>3 DEF internal_sysnums

LEMMA WithInternalHas ==
    ASSUME NEW list \in Seq(Entries)
    PROVE  LET w == with_internal(list)
               m == Len(list)
           IN  /\ w \in Seq(Entries)
               /\ \A v : Named(w, Len(w), v) <=> Named(list, m, v) \/ IsInternal(v)
               /\ \A v : Exits(w, Len(w), v) <=>
                      Exits(list, m, v) \/ (IsInternal(v) /\ ~Named(list, m, v))
<1> DEFINE w == with_internal(list)
           m == Len(list)
           P == {i \in DOMAIN internal_sysnums :
                    \A n \in DOMAIN list : list[n].value # internal_sysnums[i].value}
           more == Kept(internal_sysnums, P)
<1>1. P \in SUBSET DOMAIN internal_sysnums
  OBVIOUS
<1>2. w = list \o more
  BY DEF with_internal
<1>3. more \in Seq(Entries) /\ \A x : Has(more, x) <=> \E n \in P : internal_sysnums[n] = x
  <2> HIDE DEF P
  <2> QED
    BY <1>1, InternalEntries, KeptHas
<1>4. w \in Seq(Entries) /\ \A x : Has(w, x) <=> Has(list, x) \/ Has(more, x)
  <2> HIDE DEF more, w
  <2> QED
    BY <1>2, <1>3, HasJoined
<1>5. /\ DOMAIN list = 1..m /\ DOMAIN w = 1..Len(w)
  BY <1>4
<1> HIDE DEF more, m, w
<1>6. \A v : Named(list, m, v) <=> \E x : Has(list, x) /\ x.value = v
  BY <1>5 DEF Named, Has
<1>7. \A v : Exits(list, m, v) <=> \E x : Has(list, x) /\ x.value = v /\ x.exit
  BY <1>5 DEF Exits, Has
<1>8. \A v : Named(w, Len(w), v) <=> \E x : Has(w, x) /\ x.value = v
  BY <1>5 DEF Named, Has
<1>9. \A v : Exits(w, Len(w), v) <=> \E x : Has(w, x) /\ x.value = v /\ x.exit
  BY <1>5 DEF Exits, Has
<1>10. \A i \in DOMAIN internal_sysnums : i \in P <=> ~Named(list, m, internal_sysnums[i].value)
  BY <1>5 DEF Named
<1> HIDE DEF P
<1>11. \A v : (\E x : Has(more, x) /\ x.value = v) <=> IsInternal(v) /\ ~Named(list, m, v)
  <2>1. ASSUME NEW v, NEW x, Has(more, x), x.value = v
        PROVE  IsInternal(v) /\ ~Named(list, m, v)
    BY <1>1, <1>3, <1>10, <2>1 DEF IsInternal
  <2>2. ASSUME NEW v, IsInternal(v), ~Named(list, m, v)
        PROVE  \E x : Has(more, x) /\ x.value = v
    BY <1>3, <1>10, <2>2 DEF IsInternal
  <2> QED
    BY <2>1, <2>2
<1>12. \A x : Has(more, x) => x.exit
  BY <1>1, <1>3, InternalEntries
<1>13. \A v : Named(w, Len(w), v) <=> Named(list, m, v) \/ IsInternal(v)
  <2>1. ASSUME NEW v
        PROVE  Named(w, Len(w), v) <=> Named(list, m, v) \/ (IsInternal(v) /\ ~Named(list, m, v))
    BY <1>4, <1>6, <1>8, <1>11
  <2> QED
    BY <2>1
<1>14. \A v : Exits(w, Len(w), v) <=> Exits(list, m, v) \/ (IsInternal(v) /\ ~Named(list, m, v))
  <2>1. ASSUME NEW v
        PROVE  (\E x : Has(more, x) /\ x.value = v /\ x.exit) <=> IsInternal(v) /\ ~Named(list, m, v)
    BY <1>11, <1>12
  <2> QED
    BY <1>4, <1>7, <1>9, <2>1
<1> QED
  BY <1>4, <1>13, <1>14 DEF m, w

\* What the merged list says of a call is what the property says of it.
VerdictOfExit(exit) == IF exit THEN "trace_exit" ELSE "trace"

LEMMA MergedReported ==
    ASSUME NEW list \in Seq(Entries), list = trial.in.list,
           NEW merged, merged = merge_filtered_sysnums(with_internal(list)), NEW v
    PROVE  /\ merged \in Seq(Entries)
           /\ \A i \in DOMAIN merged : merged[i].value = v => Reported(v) = VerdictOfExit(merged[i].exit)
           /\ (\A i \in DOMAIN merged : merged[i].value # v) => Reported(v) = "allow"
<1> DEFINE w == with_internal(list)
           m == Len(list)
<1>1. /\ w \in Seq(Entries)
      /\ Named(w, Len(w), v) <=> Named(list, m, v) \/ IsInternal(v)
      /\ Exits(w, Len(w), v) <=> Exits(list, m, v) \/ (IsInternal(v) /\ ~Named(list, m, v))
  BY WithInternalHas
<1>2. Merges(merged, w, Len(w))
  BY <1>1, MergeExact
<1>3. Reported(v) = IF Named(list, m, v) THEN VerdictOfExit(Exits(list, m, v))
                    ELSE IF IsInternal(v) THEN "trace_exit" ELSE "allow"
  <2> DEFINE entries == {list[n] : n \in DOMAIN list}
             mine == {e \in entries : e.value = v}
  <2>1. DOMAIN list = 1..m
    OBVIOUS
  <2>2. mine # {} <=> Named(list, m, v)
    BY <2>1 DEF Named
  <2>3. (\E e \in mine : e.exit) <=> Exits(list, m, v)
    BY <2>1 DEF Exits
  <2>4. Reported(v) = IF mine # {} THEN (IF \E e \in mine : e.exit THEN "trace_exit" ELSE "trace")
                      ELSE IF IsInternal(v) THEN "trace_exit" ELSE "allow"
    BY DEF Reported, IsInternal
  <2> HIDE DEF mine, m
  <2> QED
    BY <2>2, <2>3, <2>4 DEF VerdictOfExit
<1> HIDE DEF w, m
<1>4. Exits(list, m, v) => Named(list, m, v)
  BY DEF Exits, Named
<1>5. merged \in Seq(Entries)
  BY <1>2 DEF Merges
<1>6. ASSUME NEW i \in DOMAIN merged, merged[i].value = v
      PROVE  Reported(v) = VerdictOfExit(merged[i].exit)
  <2>1. Named(w, Len(w), v) /\ (merged[i].exit <=> Exits(w, Len(w), v))
    BY <1>2, <1>6 DEF Merges
  <2> QED
    BY <1>1, <1>3, <1>4, <2>1 DEF VerdictOfExit
<1>7. ASSUME \A i \in DOMAIN merged : merged[i].value # v
      PROVE  Reported(v) = "allow"
  <2>1. ~Named(w, Len(w), v)
    BY <1>2, <1>7 DEF Merges
  <2> QED
    BY <1>1, <1>3, <2>1
<1> QED
  BY <1>5, <1>6, <1>7

-----------------------------------------------------------------------------
(***************************************************************************)
(* The calls of a section.                                                 *)
(***************************************************************************)
CallType == [nr : Int, exit : BOOLEAN]

LEMMA AbiCallsHas ==
    ASSUME NEW host, NEW abi, NEW list \in Seq(Entries),
           LET s == get_sysnums(host, abi) IN IsTable(s.table) /\ s.offset \in Nat
    PROVE  /\ abi_calls(host, abi, list) \in Seq(CallType)
           /\ \A c : Has(abi_calls(host, abi, list), c) <=>
                 \E n \in DOMAIN list :
                    /\ c = [nr |-> detranslate_sysnum(host, abi, list[n].value), exit |-> list[n].exit]
                    /\ c.nr # SYSCALL_AVOIDER
<1> DEFINE call(n) == [nr |-> detranslate_sysnum(host, abi, list[n].value), exit |-> list[n].exit]
           s == [n \in DOMAIN list |-> call(n)]
           P == {n \in DOMAIN list : call(n).nr # SYSCALL_AVOIDER}
<1>1. \A n \in DOMAIN list : call(n) \in CallType
  <2>1. SUFFICES ASSUME NEW n \in DOMAIN list
                 PROVE  call(n) \in CallType
    OBVIOUS
  <2>2. list[n] \in Entries
    OBVIOUS
  <2>3. list[n].exit \in BOOLEAN
    BY <2>2 DEF Entries
  <2>4. detranslate_sysnum(host, abi, list[n].value) \in Int
    BY DEF detranslate_sysnum, index_of, SYSCALL_AVOIDER, IsTable
  <2> QED
    BY <2>3, <2>4 DEF CallType
<1>2. abi_calls(host, abi, list) = Kept(s, P)
  BY DEF abi_calls
<1> HIDE DEF call
<1>3. s \in Seq(CallType) /\ DOMAIN s = DOMAIN list /\ P \in SUBSET DOMAIN s
  BY <1>1
<1>4. /\ Kept(s, P) \in Seq(CallType)
      /\ \A c : Has(Kept(s, P), c) <=> \E n \in P : s[n] = c
  <2> HIDE DEF s, P
  <2> QED
    BY <1>3, KeptHas
<1>5. \A c : (\E n \in P : s[n] = c) <=> \E n \in DOMAIN list : c = call(n) /\ c.nr # SYSCALL_AVOIDER
  BY <1>3
<1>6. \A c : Has(Kept(s, P), c) <=> \E n \in DOMAIN list : c = call(n) /\ c.nr # SYSCALL_AVOIDER
  <2> HIDE DEF s, P
  <2> QED
    BY <1>4, <1>5
<1>7. /\ abi_calls(host, abi, list) \in Seq(CallType)
      /\ \A c : Has(abi_calls(host, abi, list), c)
               <=> \E n \in DOMAIN list : c = call(n) /\ c.nr # SYSCALL_AVOIDER
  <2> HIDE DEF s, P
  <2> QED
    BY <1>2, <1>4, <1>6
<1> QED
  BY <1>7 DEF call

LEMMA TracedCallsHas ==
    ASSUME NEW host, NEW arch, NEW S, arch.abis \in Seq(S), NEW list \in Seq(Entries),
           \A n \in DOMAIN arch.abis :
              LET s == get_sysnums(host, arch.abis[n]) IN IsTable(s.table) /\ s.offset \in Nat
    PROVE  /\ traced_calls(host, arch, list) \in Seq(CallType)
           /\ \A c : Has(traced_calls(host, arch, list), c) <=>
                 \E n \in DOMAIN arch.abis : Has(abi_calls(host, arch.abis[n], list), c)
<1> DEFINE m == Len(arch.abis)
           D == Seq(CallType)
           part(n) == abi_calls(host, arch.abis[n], list)
           At(f, n) == IF n = 0 THEN <<>> ELSE f[n - 1] \o part(n)
           Is(f) == f = [n \in 0..m |-> At(f, n)]
           k == CHOOSE f : Is(f)
           step == [z \in (1..m) \X D |-> z[2] \o part(z[1])]
<1>1. m \in Nat /\ <<>> \in D /\ DOMAIN arch.abis = 1..m
  OBVIOUS
<1>2. \A n \in 1..m : part(n) \in D
  <2> HIDE DEF m
  <2> QED
    BY <1>1, AbiCallsHas
<1>3. traced_calls(host, arch, list) = k[m]
  BY DEF traced_calls
<1> HIDE DEF part
<1>4. step \in [(1..m) \X D -> D]
  BY <1>2
<1>5. Is(k)
  <2>1. PICK f \in [0..m -> D] : IsLoop(f, m, <<>>, step)
    <3> HIDE DEF D, step, m
    <3> QED
      BY <1>1, <1>4, LoopExists
  <2>2. \A n \in 0..m : f[n] = IF n = 0 THEN <<>> ELSE step[<<n, f[n - 1]>>]
    BY <2>1 DEF IsLoop
  <2>3. \A n \in 0..m : f[n] = At(f, n)
    <3>1. SUFFICES ASSUME NEW n \in 0..m, n # 0
                   PROVE  f[n] = At(f, n)
      BY <2>2
    <3> HIDE DEF D, m
    <3>4. n \in 1..m /\ n - 1 \in 0..m
      BY <1>1, <3>1
    <3>2. n \in 1..m /\ n - 1 \in 0..m /\ f[n - 1] \in D
      BY <3>4
    <3> QED
      BY <2>2, <3>1, <3>2
  <2>4. Is(f)
    BY <2>1, <2>3
  <2> HIDE DEF At
  <2> QED
    BY <2>4
<1> HIDE DEF k, step
<1>6. k[0] = <<>> /\ \A n \in 0..(m - 1) : k[n + 1] = k[n] \o part(n + 1)
  <2>1. \A n \in 0..m : k[n] = At(k, n)
    BY <1>5
  <2>2. 0 \in 0..m /\ \A n \in 0..(m - 1) : n + 1 \in 0..m /\ n + 1 # 0 /\ (n + 1) - 1 = n
    BY <1>1
  <2> HIDE DEF m
  <2> QED
    BY <2>1, <2>2
<1> DEFINE Good(n) == k[n] \in D /\ \A c : Has(k[n], c) <=> \E i \in 1..n : Has(part(i), c)
           T == {n \in 0..m : Good(n)}
<1>7. 0 \in T
  <2>1. \A c : ~Has(<<>>, c)
    BY DEF Has
  <2>2. k[0] \in D /\ \A c : ~Has(k[0], c)
    BY <1>1, <1>6, <2>1
  <2>3. Good(0) /\ 0 \in 0..m
    BY <1>1, <2>2
  <2> QED
    BY <2>3
<1>8. ASSUME NEW n \in 0..(m - 1), n \in T
      PROVE  n + 1 \in T
  <2>1. n + 1 \in 1..m /\ n + 1 \in 0..m /\ 1..(n + 1) = (1..n) \cup {n + 1}
    BY <1>1
  <2>2. Good(n) /\ part(n + 1) \in D
    BY <1>2, <1>8, <2>1
  <2>3. /\ k[n + 1] \in D
        /\ \A c : Has(k[n + 1], c) <=> Has(k[n], c) \/ Has(part(n + 1), c)
    <3>1. k[n + 1] = k[n] \o part(n + 1)
      BY <1>6
    <3>2. k[n] \in D
      BY <2>2
    <3>3. /\ k[n] \o part(n + 1) \in D
          /\ \A c : Has(k[n] \o part(n + 1), c) <=> Has(k[n], c) \/ Has(part(n + 1), c)
      BY <2>2, <3>2, HasJoined
    <3> QED
      BY <3>1, <3>3
  <2>4. \A c : Has(k[n + 1], c) <=> \E i \in 1..(n + 1) : Has(part(i), c)
    BY <2>1, <2>2, <2>3
  <2> QED
    BY <2>1, <2>3, <2>4
<1> HIDE DEF T
<1>9. \A n \in 0..m : n \in T
  BY <1>1, <1>7, <1>8, InductionUpTo
<1>10. Good(m)
  <2>1. m \in T
    BY <1>1, <1>9
  <2> QED
    BY <2>1 DEF T
<1> HIDE DEF m
<1> QED
  BY <1>1, <1>3, <1>10 DEF part

\* The verdict of a section with these calls on the call nr.
Asks(calls, nr, v) ==
    /\ \A j \in DOMAIN calls : calls[j].nr = nr => v = VerdictOfExit(calls[j].exit)
    /\ (\A j \in DOMAIN calls : calls[j].nr # nr) => v = "allow"

\* A section asks for a call of its architecture as the property does.
LEMMA SectionAsks ==
    ASSUME NEW list \in Seq(Entries), list = trial.in.list,
           NEW merged, merged = merge_filtered_sysnums(with_internal(list)),
           NEW host \in Hosts, NEW i \in DOMAIN SECCOMP_ARCHS(host),
           NEW n \in DOMAIN SECCOMP_ARCHS(host)[i].abis,
           NEW pr \in DOMAIN get_sysnums(host, SECCOMP_ARCHS(host)[i].abis[n]).table.entries
    PROVE  LET arch == SECCOMP_ARCHS(host)[i]
               nr == detranslate_sysnum(host, arch.abis[n], pr)
               calls == traced_calls(host, arch, merged)
           IN  /\ calls \in Seq(CallType)
               /\ nr \in Nat
               /\ Asks(calls, nr, Reported(pr))
<1> DEFINE arch == SECCOMP_ARCHS(host)[i]
           abi == arch.abis[n]
           nr == detranslate_sysnum(host, abi, pr)
           calls == traced_calls(host, arch, merged)
           call(a, e) == [nr |-> detranslate_sysnum(host, a, e.value), exit |-> e.exit]
<1>1. /\ merged \in Seq(Entries)
      /\ \A k \in DOMAIN merged : merged[k].value = pr => Reported(pr) = VerdictOfExit(merged[k].exit)
      /\ (\A k \in DOMAIN merged : merged[k].value # pr) => Reported(pr) = "allow"
  BY MergedReported
<1>2. arch \in ArchType(host)
  BY HostsSections
<1>3. arch.abis \in Seq({"DEFAULT", "2", "3"})
  BY <1>2 DEF ArchType
<1>4. \A m \in DOMAIN arch.abis :
         LET s == get_sysnums(host, arch.abis[m]) IN IsTable(s.table) /\ s.offset \in Nat
  BY AbisTables
<1>5. /\ calls \in Seq(CallType)
      /\ \A c : Has(calls, c) <=> \E m \in DOMAIN arch.abis : Has(abi_calls(host, arch.abis[m], merged), c)
  <2> HIDE DEF arch
  <2> QED
    BY <1>1, <1>3, <1>4, TracedCallsHas
<1>6. \A m \in DOMAIN arch.abis : \A c :
         Has(abi_calls(host, arch.abis[m], merged), c) <=>
            \E k \in DOMAIN merged : c = call(arch.abis[m], merged[k]) /\ c.nr # SYSCALL_AVOIDER
  <2> HIDE DEF arch
  <2> QED
    BY <1>1, <1>4, AbiCallsHas
<1>7. nr \in Nat /\ nr # SYSCALL_AVOIDER
  <2>1. nr \in Nat
    BY <1>4, TableRoundTrip DEF detranslate_sysnum
  <2> QED
    BY <2>1 DEF SYSCALL_AVOIDER
<1>8. ASSUME NEW j \in DOMAIN calls, calls[j].nr = nr
      PROVE  Reported(pr) = VerdictOfExit(calls[j].exit)
  <2>1. Has(calls, calls[j])
    BY DEF Has
  <2>2. PICK m \in DOMAIN arch.abis, k \in DOMAIN merged : calls[j] = call(arch.abis[m], merged[k])
    <3> HIDE DEF arch, calls, call
    <3>1. PICK m \in DOMAIN arch.abis : Has(abi_calls(host, arch.abis[m], merged), calls[j])
      BY <1>5, <2>1
    <3> DEFINE x == calls[j]
    <3>2. Has(abi_calls(host, arch.abis[m], merged), x)
      BY <3>1
    <3> HIDE DEF x
    <3>3. \E k \in DOMAIN merged : x = call(arch.abis[m], merged[k]) /\ x.nr # SYSCALL_AVOIDER
      BY <1>6, <3>2
    <3> QED
      BY <3>3 DEF x
  <2>3. nr = detranslate_sysnum(host, arch.abis[m], merged[k].value) /\ calls[j].exit = merged[k].exit
    BY <1>8, <2>2
  <2>4. pr = merged[k].value
    <3>1. /\ detranslate_sysnum(host, arch.abis[n], pr)
                = detranslate_sysnum(host, arch.abis[m], merged[k].value)
          /\ detranslate_sysnum(host, arch.abis[n], pr) # SYSCALL_AVOIDER
      BY <1>7, <2>3
    <3> QED
      BY <3>1, NumbersApart
  <2> HIDE DEF calls
  <2> QED
    BY <1>1, <2>3, <2>4
<1>9. ASSUME \A j \in DOMAIN calls : calls[j].nr # nr
      PROVE  Reported(pr) = "allow"
  <2>1. SUFFICES ASSUME NEW k \in DOMAIN merged, merged[k].value = pr PROVE FALSE
    BY <1>1
  <2> DEFINE c == call(abi, merged[k])
  <2>2. c.nr = nr
    BY <2>1
  <2>3. Has(abi_calls(host, abi, merged), c)
    BY <1>6, <1>7, <2>2
  <2> HIDE DEF c, calls, nr
  <2>4. Has(calls, c)
    BY <1>5, <2>3
  <2> QED
    BY <1>9, <2>2, <2>4 DEF Has
<1>10. Asks(calls, nr, Reported(pr))
  BY <1>8, <1>9 DEF Asks
<1> QED
  BY <1>5, <1>7, <1>10

-----------------------------------------------------------------------------
(***************************************************************************)
(* What a section says.                                                    *)
(***************************************************************************)
LEMMA TraceInsns ==
    ASSUME NEW calls \in Seq(CallType)
    PROVE  LET t == trace_syscalls(calls)
           IN  /\ t \in Seq(Insns) /\ Len(t) = 2 * Len(calls)
               /\ \A j \in 1..Len(calls) : /\ t[2 * j - 1] = Jump("jeq", calls[j].nr, 0, 1)
                                          /\ t[2 * j] = Ret(VerdictOfExit(calls[j].exit))
<1> DEFINE m == Len(calls)
           insn(i) == LET c == calls[(i + 1) \div 2]
                      IN  add_trace_syscall(c.nr, c.exit)[IF i % 2 = 1 THEN 1 ELSE 2]
           t == trace_syscalls(calls)
<1>1. t = [i \in 1..(2 * m) |-> insn(i)]
  BY DEF trace_syscalls
<1>2. m \in Nat /\ 2 * m \in Nat /\ \A j \in 1..m : calls[j].nr \in Int /\ calls[j].exit \in BOOLEAN
  <2>1. m \in Nat /\ 2 * m \in Nat /\ \A j \in 1..m : calls[j] \in CallType
    OBVIOUS
  <2> QED
    BY <2>1 DEF CallType
<1>3. \A nr, exit : /\ add_trace_syscall(nr, exit)[1] = Jump("jeq", nr, 0, 1)
                    /\ add_trace_syscall(nr, exit)[2] = Ret(VerdictOfExit(exit))
  BY DEF add_trace_syscall, VerdictOfExit
<1>4. \A nr \in Int, exit \in BOOLEAN : /\ Jump("jeq", nr, 0, 1) \in Insns
                                         /\ Ret(VerdictOfExit(exit)) \in Insns
  BY InsnsMade DEF VerdictOfExit
<1> HIDE DEF m
<1>5. \A i \in 1..(2 * m) : (i + 1) \div 2 \in 1..m
  BY <1>2
<1>6. \A i \in 1..(2 * m) : insn(i) \in Insns
  <2>1. SUFFICES ASSUME NEW i \in 1..(2 * m)
                 PROVE  insn(i) \in Insns
    OBVIOUS
  <2> DEFINE j == (i + 1) \div 2
  <2>2. calls[j].nr \in Int /\ calls[j].exit \in BOOLEAN
    BY <1>2, <1>5
  <2>3. insn(i) \in {Jump("jeq", calls[j].nr, 0, 1), Ret(VerdictOfExit(calls[j].exit))}
    BY <1>3
  <2> QED
    BY <1>4, <2>2, <2>3
<1>7. \A j \in 1..m : /\ 2 * j - 1 \in 1..(2 * m) /\ 2 * j \in 1..(2 * m)
                      /\ ((2 * j - 1) + 1) \div 2 = j /\ (2 * j + 1) \div 2 = j
                      /\ (2 * j - 1) % 2 = 1 /\ (2 * j) % 2 = 0
  BY <1>2
<1>8. \A j \in 1..m : insn(2 * j - 1) = Jump("jeq", calls[j].nr, 0, 1) /\ insn(2 * j) = Ret(VerdictOfExit(calls[j].exit))
  BY <1>3, <1>7
<1> HIDE DEF insn, t
<1>9. t \in Seq(Insns) /\ Len(t) = 2 * m
  BY <1>1, <1>2, <1>6
<1>10. \A j \in 1..m : t[2 * j - 1] = Jump("jeq", calls[j].nr, 0, 1) /\ t[2 * j] = Ret(VerdictOfExit(calls[j].exit))
  BY <1>1, <1>7, <1>8
<1> QED
  BY <1>9, <1>10 DEF m, t

\* Verdicts of the calls of a section, from the instruction at k on.
TraceRuns(prog, data, run, calls, k) ==
    /\ prog \in Seq(Insns) /\ Runs(prog, data, run)
    /\ calls \in Seq(CallType) /\ k \in Nat \ {0}
    /\ GoesOn(prog, k, trace_syscalls(calls))
    /\ GoesOn(prog, k + 2 * Len(calls), end_arch_section)

\* What run says at k when the last load was at l.
SaysFrom(run, k, l, v) == run[k][l] = v

LEMMA TraceSays ==
    ASSUME NEW prog, NEW data, NEW run, NEW calls, NEW k, TraceRuns(prog, data, run, calls, k),
           NEW l \in Points(prog), prog[l].field = "nr", NEW v, Asks(calls, data["nr"], v)
    PROVE  SaysFrom(run, k, l, v)
<1>t. /\ prog \in Seq(Insns) /\ Runs(prog, data, run)
      /\ calls \in Seq(CallType) /\ k \in Nat \ {0}
      /\ GoesOn(prog, k, trace_syscalls(calls))
      /\ GoesOn(prog, k + 2 * Len(calls), end_arch_section)
  BY DEF TraceRuns
<1> DEFINE m == Len(calls)
           t == trace_syscalls(calls)
           Asked(j) == calls[j].nr = data["nr"]
           Says(n) == IF \E j \in (n + 1)..m : Asked(j) THEN v ELSE "allow"
           At(n) == k + 2 * n \in DOMAIN prog /\ run[k + 2 * n][l] = Says(n)
           S == {n \in 0..m : At(m - n)}
<1>1. /\ m \in Nat /\ DOMAIN calls = 1..m
      /\ t \in Seq(Insns) /\ Len(t) = 2 * m
      /\ \A j \in 1..m : t[2 * j - 1] = Jump("jeq", calls[j].nr, 0, 1) /\ t[2 * j] = Ret(VerdictOfExit(calls[j].exit))
  <2>1. m \in Nat /\ DOMAIN calls = 1..m
    BY <1>t
  <2>2. /\ t \in Seq(Insns) /\ Len(t) = 2 * m
        /\ \A j \in 1..m : t[2 * j - 1] = Jump("jeq", calls[j].nr, 0, 1) /\ t[2 * j] = Ret(VerdictOfExit(calls[j].exit))
    BY <1>t, TraceInsns
  <2> QED
    BY <2>1, <2>2
<1>2. Len(end_arch_section) = 1 /\ end_arch_section[1] = Ret("allow")
  BY DEF end_arch_section
<1>4. GoesOn(prog, k, t) /\ GoesOn(prog, k + 2 * m, end_arch_section)
  BY <1>t
<1>6. k \in Nat \ {0}
  BY <1>t
<1> HIDE DEF t, m
<1>7. k + 2 * m \in DOMAIN prog /\ prog[k + 2 * m] = Ret("allow")
  <2>1. (k + 2 * m) - 1 + 1 = k + 2 * m
    BY <1>1, <1>6
  <2> QED
    BY <1>2, <1>4, <2>1 DEF GoesOn
<1>8. \A n \in 0..(m - 1) : /\ k + 2 * n \in DOMAIN prog /\ k + 2 * n + 1 \in DOMAIN prog
                             /\ prog[k + 2 * n] = Jump("jeq", calls[n + 1].nr, 0, 1)
                             /\ prog[k + 2 * n + 1] = Ret(VerdictOfExit(calls[n + 1].exit))
  <2>1. SUFFICES ASSUME NEW n \in 0..(m - 1)
                 PROVE  /\ k + 2 * n \in DOMAIN prog /\ k + 2 * n + 1 \in DOMAIN prog
                        /\ prog[k + 2 * n] = Jump("jeq", calls[n + 1].nr, 0, 1)
                        /\ prog[k + 2 * n + 1] = Ret(VerdictOfExit(calls[n + 1].exit))
    OBVIOUS
  <2>2. /\ n + 1 \in 1..m /\ 2 * (n + 1) - 1 \in 1..(2 * m) /\ 2 * (n + 1) \in 1..(2 * m)
        /\ k - 1 + (2 * (n + 1) - 1) = k + 2 * n /\ k - 1 + 2 * (n + 1) = k + 2 * n + 1
    BY <1>1, <1>6
  <2>3. \A i \in 1..(2 * m) : k - 1 + i \in DOMAIN prog /\ prog[k - 1 + i] = t[i]
    BY <1>1, <1>4 DEF GoesOn
  <2>4. /\ k + 2 * n \in DOMAIN prog /\ prog[k + 2 * n] = t[2 * (n + 1) - 1]
        /\ k + 2 * n + 1 \in DOMAIN prog /\ prog[k + 2 * n + 1] = t[2 * (n + 1)]
    BY <2>2, <2>3
  <2> QED
    BY <1>1, <2>2, <2>4
<1>9. 0 \in S
  <2>1. m - 0 = m /\ 0 \in 0..m /\ ~\E j \in (m + 1)..m : TRUE
    BY <1>1
  <2>2. run[k + 2 * m][l] = "allow"
    BY <1>7, <1>t, RetSays DEF SaysAt
  <2> QED
    BY <1>7, <2>1, <2>2
<1>10. ASSUME NEW n \in 0..(m - 1), n \in S
       PROVE  n + 1 \in S
  <2> DEFINE i == m - (n + 1)
  <2>1. i \in 0..(m - 1) /\ m - n = i + 1 /\ n + 1 \in 0..m /\ i + 1 \in 1..m
    BY <1>1
  <2>2. At(i + 1)
    BY <1>10, <2>1
  <2> HIDE DEF i
  <2>3. /\ k + 2 * i \in DOMAIN prog /\ k + 2 * i + 1 \in DOMAIN prog
        /\ prog[k + 2 * i] = Jump("jeq", calls[i + 1].nr, 0, 1)
        /\ prog[k + 2 * i + 1] = Ret(VerdictOfExit(calls[i + 1].exit))
    BY <1>8, <2>1
  <2>4. run[k + 2 * i + 1][l] = VerdictOfExit(calls[i + 1].exit)
    BY <2>3, <1>t, RetSays DEF SaysAt
  <2>5. EqGoes(data, run, k + 2 * i, l, "nr", calls[i + 1].nr, 0, 1)
    BY <1>t, <2>3, EqSays
  <2>6. (k + 2 * i) + 1 + 0 = k + 2 * i + 1 /\ (k + 2 * i) + 1 + 1 = k + 2 * (i + 1)
    BY <1>6, <2>1
  <2>7. run[k + 2 * i][l] = IF Asked(i + 1) THEN VerdictOfExit(calls[i + 1].exit) ELSE Says(i + 1)
    BY <2>2, <2>4, <2>5, <2>6 DEF EqGoes
  <2>8. Asked(i + 1) => v = VerdictOfExit(calls[i + 1].exit)
    BY <1>1, <2>1 DEF Asks
  <2>9. (i + 1)..m = {i + 1} \cup ((i + 1) + 1)..m
    BY <2>1
  <2> HIDE DEF Asked
  <2>10. Says(i) = IF Asked(i + 1) THEN v ELSE Says(i + 1)
    BY <2>9
  <2>11. At(i)
    BY <2>3, <2>7, <2>8, <2>10
  <2> QED
    BY <2>1, <2>11 DEF i
<1> HIDE DEF S
<1>11. \A n \in 0..m : n \in S
  BY <1>1, <1>9, <1>10, InductionUpTo
<1>12. At(0)
  <2>1. m \in S /\ m - m = 0
    BY <1>1, <1>11
  <2> QED
    BY <2>1 DEF S
<1>13. k + 2 * 0 = k /\ 0 + 1 = 1
  BY <1>6
<1>14. Says(0) = v
  <2>1. CASE \E j \in 1..m : Asked(j)
    BY <1>13, <2>1
  <2>2. CASE ~\E j \in 1..m : Asked(j)
    BY <1>1, <1>13, <2>2 DEF Asks
  <2> QED
    BY <2>1, <2>2
<1> QED
  BY <1>12, <1>13, <1>14 DEF SaysFrom

LibcType == [start : Nat, end : Nat]

LEMMA ExcludeInsns ==
    ASSUME NEW libc \in LibcType, NEW arch \in Archs, NEW n \in Nat
    PROVE  LET s == start_arch_section(TRUE, libc, arch, n)
           IN  /\ s \in Seq(Insns) /\ Len(s) = 9
               /\ s[1] = Load("arch") /\ s[2] = Jump("jeq", arch, 1, 0) /\ s[3] = Jump("ja", 0, 4, 4)
               /\ s[4] = Load("ip") /\ s[5] = Jump("jgt", Low(libc.end), 0, 1) /\ s[6] = Jump("ja", 0, 2, 2)
               /\ s[7] = Jump("jge", Low(libc.start), 0, 1) /\ s[8] = Jump("ja", 0, 1 + 2 * n, 1 + 2 * n)
               /\ s[9] = Load("nr")
<1> DEFINE a1 == Load("arch")
           a2 == Jump("jeq", arch, 1, 0)
           a3 == Jump("ja", 0, 4, 4)
           a4 == Load("ip")
           a5 == Jump("jgt", Low(libc.end), 0, 1)
           a6 == Jump("ja", 0, 2, 2)
           a7 == Jump("jge", Low(libc.start), 0, 1)
           a8 == Jump("ja", 0, 1 + 2 * n, 1 + 2 * n)
           a9 == Load("nr")
<1>1. Low(libc.end) \in Int /\ Low(libc.start) \in Int
  BY WordParts DEF LibcType
<1>2. /\ a1 \in Insns /\ a2 \in Insns /\ a3 \in Insns /\ a4 \in Insns /\ a5 \in Insns
      /\ a6 \in Insns /\ a7 \in Insns /\ a8 \in Insns /\ a9 \in Insns
  <2>1. a1 \in Insns /\ a4 \in Insns /\ a9 \in Insns
    BY InsnsMade
  <2>2. a2 \in Insns
    BY InsnsMade
  <2>3. a5 \in Insns /\ a7 \in Insns
    BY <1>1, InsnsMade
  <2>4. a3 \in Insns /\ a6 \in Insns
    BY InsnsMade
  <2>5. a8 \in Insns
    <3>1. 1 + 2 * n \in Nat
      OBVIOUS
    <3> QED
      BY <3>1, InsnsMade
  <2> QED
    BY <2>1, <2>2, <2>3, <2>4, <2>5
<1>3. start_arch_section(TRUE, libc, arch, n) = <<a1, a2, a3, a4, a5, a6, a7, a8, a9>>
  BY DEF start_arch_section, JA
<1> HIDE DEF a1, a2, a3, a4, a5, a6, a7, a8, a9
<1>4. <<a1, a2, a3, a4, a5, a6, a7, a8, a9>> \in Seq(Insns)
  BY <1>2
<1> DEFINE s == start_arch_section(TRUE, libc, arch, n)
<1>5. /\ s \in Seq(Insns) /\ Len(s) = 9
      /\ s[1] = a1 /\ s[2] = a2 /\ s[3] = a3 /\ s[4] = a4 /\ s[5] = a5 /\ s[6] = a6
      /\ s[7] = a7 /\ s[8] = a8 /\ s[9] = a9
  <2> DEFINE t == <<a1, a2, a3, a4, a5, a6, a7, a8, a9>>
  <2>1. /\ t \in Seq(Insns) /\ Len(t) = 9
        /\ t[1] = a1 /\ t[2] = a2 /\ t[3] = a3 /\ t[4] = a4 /\ t[5] = a5 /\ t[6] = a6
        /\ t[7] = a7 /\ t[8] = a8 /\ t[9] = a9
    BY <1>4
  <2>2. s = t
    BY <1>3
  <2> HIDE DEF s, t
  <2> QED
    BY <2>1, <2>2
<1> HIDE DEF s
<1> QED
  BY <1>5 DEF a1, a2, a3, a4, a5, a6, a7, a8, a9, s

LEMMA PlainInsns ==
    ASSUME NEW libc, NEW arch \in Archs, NEW n \in Nat
    PROVE  LET s == start_arch_section(FALSE, libc, arch, n)
           IN  /\ s \in Seq(Insns) /\ Len(s) = 4
               /\ s[1] = Load("arch") /\ s[2] = Jump("jeq", arch, 1, 0)
               /\ s[3] = Jump("ja", 0, 2 + 2 * n, 2 + 2 * n) /\ s[4] = Load("nr")
<1> DEFINE a1 == Load("arch")
           a2 == Jump("jeq", arch, 1, 0)
           a3 == Jump("ja", 0, 2 + 2 * n, 2 + 2 * n)
           a4 == Load("nr")
<1>1. a1 \in Insns /\ a2 \in Insns /\ a3 \in Insns /\ a4 \in Insns
  <2>1. a1 \in Insns /\ a4 \in Insns
    BY InsnsMade
  <2>2. a2 \in Insns
    BY InsnsMade
  <2>3. a3 \in Insns
    <3>1. 2 + 2 * n \in Nat
      OBVIOUS
    <3> QED
      BY <3>1, InsnsMade
  <2> QED
    BY <2>1, <2>2, <2>3
<1>2. start_arch_section(FALSE, libc, arch, n) = <<a1, a2, a3, a4>>
  <2>1. (1 + 2 * n) + 1 = 2 + 2 * n
    OBVIOUS
  <2> QED
    BY <2>1 DEF start_arch_section, JA
<1> HIDE DEF a1, a2, a3, a4
<1>3. <<a1, a2, a3, a4>> \in Seq(Insns)
  BY <1>1
<1> DEFINE s == start_arch_section(FALSE, libc, arch, n)
<1>4. s \in Seq(Insns) /\ Len(s) = 4 /\ s[1] = a1 /\ s[2] = a2 /\ s[3] = a3 /\ s[4] = a4
  <2> DEFINE t == <<a1, a2, a3, a4>>
  <2>1. t \in Seq(Insns) /\ Len(t) = 4 /\ t[1] = a1 /\ t[2] = a2 /\ t[3] = a3 /\ t[4] = a4
    BY <1>3
  <2>2. s = t
    BY <1>2
  <2> HIDE DEF s, t
  <2> QED
    BY <2>1, <2>2
<1> HIDE DEF s
<1> QED
  BY <1>4 DEF a1, a2, a3, a4, s

Section(exclude, libc, arch, calls) ==
    start_arch_section(exclude, libc, arch, Len(calls)) \o (trace_syscalls(calls) \o end_arch_section)

HeaderLength(exclude) == IF exclude THEN 9 ELSE 4

LEMMA HeaderInsns ==
    ASSUME NEW exclude \in BOOLEAN, NEW libc \in LibcType, NEW arch \in Archs, NEW n \in Nat
    PROVE  LET s == start_arch_section(exclude, libc, arch, n)
           IN  s \in Seq(Insns) /\ Len(s) = HeaderLength(exclude)
<1>1. CASE exclude
  <2>1. LET s == start_arch_section(TRUE, libc, arch, n) IN s \in Seq(Insns) /\ Len(s) = 9
    BY ExcludeInsns
  <2>2. exclude = TRUE /\ HeaderLength(TRUE) = 9
    BY <1>1 DEF HeaderLength
  <2> QED
    BY <2>1, <2>2
<1>2. CASE ~exclude
  <2>1. LET s == start_arch_section(FALSE, libc, arch, n) IN s \in Seq(Insns) /\ Len(s) = 4
    BY PlainInsns
  <2>2. exclude = FALSE /\ HeaderLength(FALSE) = 4
    BY <1>2 DEF HeaderLength
  <2> QED
    BY <2>1, <2>2
<1> QED
  BY <1>1, <1>2

\* A section in a program, and its parts.
LEMMA SectionParts ==
    ASSUME NEW exclude \in BOOLEAN, NEW libc \in LibcType, NEW arch \in Archs,
           NEW calls \in Seq(CallType)
    PROVE  LET s == start_arch_section(exclude, libc, arch, Len(calls))
               h == HeaderLength(exclude)
               n == 2 * Len(calls)
           IN  /\ Section(exclude, libc, arch, calls) \in Seq(Insns)
               /\ \A prog \in Seq(Insns), b \in Seq(Insns) : \A k :
                     Rests(prog, k, Section(exclude, libc, arch, calls) \o b) =>
                        /\ GoesOn(prog, k, s)
                        /\ GoesOn(prog, k + h, trace_syscalls(calls))
                        /\ GoesOn(prog, k + h + n, end_arch_section)
                        /\ Rests(prog, k + h + n + 1, b)
<1> DEFINE s == start_arch_section(exclude, libc, arch, Len(calls))
           t == trace_syscalls(calls)
           e == end_arch_section
           h == HeaderLength(exclude)
           n == 2 * Len(calls)
<1>1. s \in Seq(Insns) /\ Len(s) = h
  BY HeaderInsns
<1>2. t \in Seq(Insns) /\ Len(t) = n
  BY TraceInsns
<1>3. e \in Seq(Insns) /\ Len(e) = 1
  BY InsnsMade DEF end_arch_section
<1>4. Section(exclude, libc, arch, calls) = s \o (t \o e)
  BY DEF Section
<1> HIDE DEF s, t, e, h, n
<1>5. t \o e \in Seq(Insns) /\ s \o (t \o e) \in Seq(Insns)
  BY <1>1, <1>2, <1>3
<1>6. ASSUME NEW prog \in Seq(Insns), NEW b \in Seq(Insns), NEW k, Rests(prog, k, (s \o (t \o e)) \o b)
      PROVE  /\ GoesOn(prog, k, s) /\ GoesOn(prog, k + h, t)
             /\ GoesOn(prog, k + h + n, e) /\ Rests(prog, k + h + n + 1, b)
  <2>1. e \o b \in Seq(Insns) /\ t \o (e \o b) \in Seq(Insns)
    BY <1>2, <1>3
  <2>2. (s \o (t \o e)) \o b = s \o ((t \o e) \o b) /\ (t \o e) \o b = t \o (e \o b)
    <3>1. (s \o (t \o e)) \o b = s \o ((t \o e) \o b)
      <4> DEFINE te == t \o e
      <4>1. te \in Seq(Insns)
        BY <1>5
      <4> HIDE DEF te
      <4>2. (s \o te) \o b = s \o (te \o b)
        <5>1. s \in Seq(Insns) /\ b \in Seq(Insns)
          BY <1>1
        <5> QED
          BY <4>1, <5>1
      <4> QED
        BY <4>2 DEF te
    <3>3. \A x, y, z \in Seq(Insns) : (x \o y) \o z = x \o (y \o z)
      OBVIOUS
    <3>2. (t \o e) \o b = t \o (e \o b)
      BY <1>2, <1>3, <3>3
    <3> QED
      BY <3>1, <3>2
  <2>3. Rests(prog, k, s \o (t \o (e \o b)))
    BY <1>6, <2>2
  <2>4. GoesOn(prog, k, s) /\ Rests(prog, k + h, t \o (e \o b))
    BY <1>1, <2>1, <2>3, RestsThen
  <2>5. Rests(prog, k + h + n, e \o b) /\ GoesOn(prog, k + h, t)
    BY <1>2, <2>1, <2>4, RestsThen
  <2>6. GoesOn(prog, k + h + n, e) /\ Rests(prog, k + h + n + 1, b)
    BY <1>3, <2>5, RestsThen
  <2> QED
    BY <2>4, <2>5, <2>6
<1> QED
  BY <1>4, <1>5, <1>6 DEF s, t, e, h, n

\* What a section says that excludes no library.
PlainGoes(prog, data, run, arch, calls, k, l) ==
    /\ k \in Points(prog)
    /\ data["arch"] # arch => run[k][l] = run[k + 5 + 2 * Len(calls)][k]
    /\ data["arch"] = arch => \A v : Asks(calls, data["nr"], v) => run[k][l] = v

LEMMA PlainSays ==
    ASSUME NEW prog \in Seq(Insns), NEW data, NEW run, Runs(prog, data, run),
           NEW libc \in LibcType, NEW arch \in Archs, NEW calls \in Seq(CallType),
           NEW b \in Seq(Insns), NEW k, Rests(prog, k, Section(FALSE, libc, arch, calls) \o b),
           NEW l \in Points(prog)
    PROVE  PlainGoes(prog, data, run, arch, calls, k, l)
<1> DEFINE s == start_arch_section(FALSE, libc, arch, Len(calls))
           n == 2 * Len(calls)
<1>0. n \in Nat
  OBVIOUS
<1>1. /\ s \in Seq(Insns) /\ Len(s) = 4
      /\ s[1] = Load("arch") /\ s[2] = Jump("jeq", arch, 1, 0)
      /\ s[3] = Jump("ja", 0, 2 + n, 2 + n) /\ s[4] = Load("nr")
  <2>1. Len(calls) \in Nat
    OBVIOUS
  <2> QED
    BY <2>1, PlainInsns
<1>2. /\ GoesOn(prog, k, s) /\ GoesOn(prog, k + 4, trace_syscalls(calls))
      /\ GoesOn(prog, k + 4 + n, end_arch_section)
  <2>1. HeaderLength(FALSE) = 4 /\ FALSE \in BOOLEAN
    BY DEF HeaderLength
  <2> QED
    BY <2>1, SectionParts
<1>3. k \in Nat \ {0}
  BY DEF Rests
<1> HIDE DEF s, n
<1>4. \A i \in 0..3 : k + i \in DOMAIN prog /\ prog[k + i] = s[i + 1]
  <2> SUFFICES ASSUME NEW i \in 0..3 PROVE k + i \in DOMAIN prog /\ prog[k + i] = s[i + 1]
    OBVIOUS
  <2>1. i + 1 \in 1..4 /\ k - 1 + (i + 1) = k + i
    BY <1>3
  <2>2. \A j \in 1..4 : k - 1 + j \in DOMAIN prog /\ prog[k - 1 + j] = s[j]
    BY <1>1, <1>2 DEF GoesOn
  <2> QED
    BY <2>1, <2>2
<1>5. /\ k \in DOMAIN prog /\ k + 1 \in DOMAIN prog /\ k + 2 \in DOMAIN prog /\ k + 3 \in DOMAIN prog
      /\ prog[k] = Load("arch") /\ prog[k + 1] = Jump("jeq", arch, 1, 0)
      /\ prog[k + 2] = Jump("ja", 0, 2 + n, 2 + n) /\ prog[k + 3] = Load("nr")
  <2>1. k + 0 = k
    BY <1>3
  <2> QED
    BY <1>1, <1>4, <2>1
<1>6. run[k][l] = run[k + 1][k] /\ prog[k].field = "arch" /\ k \in Points(prog)
  BY <1>5, LoadSays
<1>7. run[k + 1][k] = IF data["arch"] = arch THEN run[k + 3][k] ELSE run[k + 2][k]
  <2>1. EqGoes(data, run, k + 1, k, "arch", arch, 1, 0)
    BY <1>5, <1>6, EqSays
  <2>2. (k + 1) + 1 + 1 = k + 3 /\ (k + 1) + 1 + 0 = k + 2
    BY <1>3
  <2> QED
    BY <2>1, <2>2 DEF EqGoes
<1>8. run[k + 2][k] = run[k + 5 + n][k]
  <2>1. run[k + 2][k] = run[(k + 2) + 1 + (2 + n)][k]
    BY <1>5, <1>6, JaSays
  <2>2. (k + 2) + 1 + (2 + n) = k + 5 + n
    BY <1>0, <1>3
  <2> QED
    BY <2>1, <2>2
<1>9. run[k + 3][k] = run[k + 4][k + 3] /\ prog[k + 3].field = "nr" /\ k + 3 \in Points(prog)
  <2>1. (k + 3) + 1 = k + 4
    BY <1>3
  <2>2. run[k + 3][k] = run[(k + 3) + 1][k + 3] /\ prog[k + 3].field = "nr" /\ k + 3 \in Points(prog)
    BY <1>5, <1>6, LoadSays
  <2> QED
    BY <2>1, <2>2
<1>10. ASSUME NEW v, Asks(calls, data["nr"], v)
       PROVE  run[k + 4][k + 3] = v
  <2> DEFINE p == k + 4
             q == k + 3
  <2>1. GoesOn(prog, p, trace_syscalls(calls)) /\ GoesOn(prog, p + 2 * Len(calls), end_arch_section)
    BY <1>2 DEF n
  <2>2. q \in Points(prog) /\ prog[q].field = "nr"
    BY <1>9
  <2> HIDE DEF p, q
  <2>3. SaysFrom(run, p, q, v)
    <3>1. Asks(calls, data["nr"], v)
      BY <1>10
    <3>2. TraceRuns(prog, data, run, calls, p)
      BY <1>3, <2>1 DEF TraceRuns, p
    <3> QED
      BY <2>2, <3>1, <3>2, TraceSays
  <2> QED
    BY <2>3 DEF p, q, SaysFrom
<1> QED
  BY <1>6, <1>7, <1>8, <1>9, <1>10 DEF n, PlainGoes

\* What one says that excludes libc.
ExcludeGoes(data, run, libc, arch, calls, k, l) ==
    /\ data["arch"] # arch => run[k][l] = "allow"
    /\ data["arch"] = arch =>
          \A v : Asks(calls, data["nr"], v) =>
                run[k][l] = IF Low(libc.start) <= data["ip"] /\ data["ip"] <= Low(libc.end)
                            THEN "allow" ELSE v

LEMMA ExcludeSays ==
    ASSUME NEW prog \in Seq(Insns), NEW data, NEW run, Runs(prog, data, run),
           NEW libc \in LibcType, NEW arch \in Archs, NEW calls \in Seq(CallType),
           NEW b \in Seq(Insns), NEW k, Rests(prog, k, Section(TRUE, libc, arch, calls) \o b),
           NEW l \in Points(prog), data["ip"] \in Int
    PROVE  ExcludeGoes(data, run, libc, arch, calls, k, l)
<1> DEFINE s == start_arch_section(TRUE, libc, arch, Len(calls))
           n == 2 * Len(calls)
           ip == data["ip"]
           low == Low(libc.start)
           high == Low(libc.end)
<1>0. n \in Nat /\ low \in Int /\ high \in Int /\ ip \in Int
  <2>1. low \in Int /\ high \in Int
    BY WordParts DEF LibcType
  <2> QED
    BY <2>1
<1>1. /\ s \in Seq(Insns) /\ Len(s) = 9
      /\ s[1] = Load("arch") /\ s[2] = Jump("jeq", arch, 1, 0) /\ s[3] = Jump("ja", 0, 4, 4)
      /\ s[4] = Load("ip") /\ s[5] = Jump("jgt", high, 0, 1) /\ s[6] = Jump("ja", 0, 2, 2)
      /\ s[7] = Jump("jge", low, 0, 1) /\ s[8] = Jump("ja", 0, 1 + n, 1 + n) /\ s[9] = Load("nr")
  <2>1. Len(calls) \in Nat
    OBVIOUS
  <2> QED
    BY <2>1, ExcludeInsns
<1>2. /\ GoesOn(prog, k, s) /\ GoesOn(prog, k + 9, trace_syscalls(calls))
      /\ GoesOn(prog, k + 9 + n, end_arch_section)
  <2>1. HeaderLength(TRUE) = 9 /\ TRUE \in BOOLEAN
    BY DEF HeaderLength
  <2> QED
    BY <2>1, SectionParts
<1>3. k \in Nat \ {0}
  BY DEF Rests
<1> HIDE DEF s, n, ip, low, high
<1>4. \A i \in 0..8 : k + i \in DOMAIN prog /\ prog[k + i] = s[i + 1]
  <2> SUFFICES ASSUME NEW i \in 0..8 PROVE k + i \in DOMAIN prog /\ prog[k + i] = s[i + 1]
    OBVIOUS
  <2>1. i + 1 \in 1..9 /\ k - 1 + (i + 1) = k + i
    BY <1>3
  <2>2. \A j \in 1..9 : k - 1 + j \in DOMAIN prog /\ prog[k - 1 + j] = s[j]
    BY <1>1, <1>2 DEF GoesOn
  <2> QED
    BY <2>1, <2>2
<1>5. /\ k \in DOMAIN prog /\ k + 1 \in DOMAIN prog /\ k + 2 \in DOMAIN prog /\ k + 3 \in DOMAIN prog
      /\ k + 4 \in DOMAIN prog /\ k + 5 \in DOMAIN prog /\ k + 6 \in DOMAIN prog /\ k + 7 \in DOMAIN prog
      /\ k + 8 \in DOMAIN prog
      /\ prog[k] = Load("arch") /\ prog[k + 1] = Jump("jeq", arch, 1, 0)
      /\ prog[k + 2] = Jump("ja", 0, 4, 4) /\ prog[k + 3] = Load("ip")
      /\ prog[k + 4] = Jump("jgt", high, 0, 1) /\ prog[k + 5] = Jump("ja", 0, 2, 2)
      /\ prog[k + 6] = Jump("jge", low, 0, 1) /\ prog[k + 7] = Jump("ja", 0, 1 + n, 1 + n)
      /\ prog[k + 8] = Load("nr")
  <2>1. k + 0 = k
    BY <1>3
  <2> QED
    BY <1>1, <1>4, <2>1
<1>6. SaysAt(prog, run, k + 9 + n, "allow")
  <2>1. end_arch_section[1] = Ret("allow") /\ Len(end_arch_section) = 1
    BY DEF end_arch_section
  <2>2. (k + 9 + n) - 1 + 1 = k + 9 + n
    BY <1>0, <1>3
  <2>3. k + 9 + n \in DOMAIN prog /\ prog[k + 9 + n] = Ret("allow")
    BY <1>2, <2>1, <2>2 DEF GoesOn
  <2> QED
    BY <2>3, RetSays
<1>7. \A p \in Points(prog) : run[k + 7][p] = "allow"
  <2>1. SUFFICES ASSUME NEW p \in Points(prog) PROVE run[k + 7][p] = "allow"
    OBVIOUS
  <2>2. run[k + 7][p] = run[(k + 7) + 1 + (1 + n)][p]
    BY <1>5, JaSays
  <2>3. (k + 7) + 1 + (1 + n) = k + 9 + n
    BY <1>0, <1>3
  <2> QED
    BY <1>6, <2>2, <2>3 DEF SaysAt
<1>8. run[k][l] = run[k + 1][k] /\ prog[k].field = "arch" /\ k \in Points(prog)
  BY <1>5, LoadSays
<1>9. run[k + 1][k] = IF data["arch"] = arch THEN run[k + 3][k] ELSE run[k + 2][k]
  <2>1. EqGoes(data, run, k + 1, k, "arch", arch, 1, 0)
    BY <1>5, <1>8, EqSays
  <2>2. (k + 1) + 1 + 1 = k + 3 /\ (k + 1) + 1 + 0 = k + 2
    BY <1>3
  <2> QED
    BY <2>1, <2>2 DEF EqGoes
<1>10. run[k + 2][k] = "allow"
  <2>1. run[k + 2][k] = run[(k + 2) + 1 + 4][k]
    <3>1. k + 2 \in DOMAIN prog /\ prog[k + 2] = Jump("ja", 0, 4, 4)
      BY <1>5
    <3> QED
      BY <1>8, <3>1, JaSays
  <2>2. (k + 2) + 1 + 4 = k + 7
    BY <1>3
  <2> QED
    BY <1>7, <1>8, <2>1, <2>2
<1>11. run[k + 3][k] = run[k + 4][k + 3] /\ prog[k + 3].field = "ip" /\ k + 3 \in Points(prog)
  <2>1. (k + 3) + 1 = k + 4
    BY <1>3
  <2>2. run[k + 3][k] = run[(k + 3) + 1][k + 3] /\ prog[k + 3].field = "ip" /\ k + 3 \in Points(prog)
    BY <1>5, <1>8, LoadSays
  <2> QED
    BY <2>1, <2>2
<1>12. run[k + 4][k + 3] = IF ip > high THEN run[k + 5][k + 3] ELSE run[k + 6][k + 3]
  <2>1. GtGoes(data, run, k + 4, k + 3, "ip", high, 0, 1)
    BY <1>5, <1>11, GtSays
  <2>2. (k + 4) + 1 + 0 = k + 5 /\ (k + 4) + 1 + 1 = k + 6
    BY <1>3
  <2> QED
    BY <2>1, <2>2 DEF GtGoes, ip
<1>13. run[k + 5][k + 3] = run[k + 8][k + 3]
  <2>1. run[k + 5][k + 3] = run[(k + 5) + 1 + 2][k + 3]
    <3>1. k + 5 \in DOMAIN prog /\ prog[k + 5] = Jump("ja", 0, 2, 2)
      BY <1>5
    <3> QED
      BY <1>11, <3>1, JaSays
  <2>2. (k + 5) + 1 + 2 = k + 8
    BY <1>3
  <2> QED
    BY <2>1, <2>2
<1>14. run[k + 6][k + 3] = IF ip >= low THEN run[k + 7][k + 3] ELSE run[k + 8][k + 3]
  <2>1. GeGoes(data, run, k + 6, k + 3, "ip", low, 0, 1)
    BY <1>5, <1>11, GeSays
  <2>2. (k + 6) + 1 + 0 = k + 7 /\ (k + 6) + 1 + 1 = k + 8
    BY <1>3
  <2> QED
    BY <2>1, <2>2 DEF GeGoes, ip
<1>15. run[k + 8][k + 3] = run[k + 9][k + 8] /\ prog[k + 8].field = "nr" /\ k + 8 \in Points(prog)
  <2>1. (k + 8) + 1 = k + 9
    BY <1>3
  <2>2. run[k + 8][k + 3] = run[(k + 8) + 1][k + 8] /\ prog[k + 8].field = "nr" /\ k + 8 \in Points(prog)
    <3>1. k + 8 \in DOMAIN prog /\ prog[k + 8] = Load("nr")
      BY <1>5
    <3> QED
      BY <1>11, <3>1, LoadSays
  <2> QED
    BY <2>1, <2>2
<1>16. ASSUME NEW v, Asks(calls, data["nr"], v)
       PROVE  run[k + 9][k + 8] = v
  <2> DEFINE p == k + 9
             q == k + 8
  <2>1. GoesOn(prog, p, trace_syscalls(calls)) /\ GoesOn(prog, p + 2 * Len(calls), end_arch_section)
    BY <1>2 DEF n
  <2>2. q \in Points(prog) /\ prog[q].field = "nr"
    BY <1>15
  <2> HIDE DEF p, q
  <2>3. SaysFrom(run, p, q, v)
    <3>1. Asks(calls, data["nr"], v)
      BY <1>16
    <3>2. TraceRuns(prog, data, run, calls, p)
      BY <1>3, <2>1 DEF TraceRuns, p
    <3> QED
      BY <2>2, <3>1, <3>2, TraceSays
  <2> QED
    BY <2>3 DEF p, q, SaysFrom
<1>17. ASSUME data["arch"] = arch, NEW v, Asks(calls, data["nr"], v)
       PROVE  run[k][l] = IF low <= ip /\ ip <= high THEN "allow" ELSE v
  <2>1. run[k][l] = run[k + 4][k + 3]
    BY <1>8, <1>9, <1>11, <1>17
  <2>2. run[k + 8][k + 3] = v
    BY <1>15, <1>16, <1>17
  <2>3. run[k + 7][k + 3] = "allow"
    BY <1>7, <1>11
  <2>4. ip > high <=> ~(ip <= high)
    BY <1>0
  <2>5. ip >= low <=> low <= ip
    BY <1>0
  <2> QED
    BY <1>12, <1>13, <1>14, <2>1, <2>2, <2>3, <2>4, <2>5
<1> QED
  BY <1>8, <1>9, <1>10, <1>17 DEF ip, low, high, ExcludeGoes

-----------------------------------------------------------------------------
(***************************************************************************)
(* What a filter says: that of its sections.                               *)
(***************************************************************************)
\* The sections of a program, and its end.
LEMMA ProgramParts ==
    ASSUME NEW req, NEW libc, NEW list, req.host \in Hosts,
           \A i \in DOMAIN SECCOMP_ARCHS(req.host) :
              arch_section(req, libc, SECCOMP_ARCHS(req.host)[i], list) \in Seq(Insns)
    PROVE  LET archs == SECCOMP_ARCHS(req.host)
               section(i) == arch_section(req, libc, archs[i], list)
               end == finalize_program_filter
               prog == set_seccomp_filters(req, libc, list)
           IN  /\ end \in Seq(Insns)
               /\ Len(archs) = 1 => prog = section(1) \o end
               /\ Len(archs) = 2 => prog = section(1) \o (section(2) \o end)
<1> DEFINE archs == SECCOMP_ARCHS(req.host)
           m == Len(archs)
           D == Seq(Insns)
           part(i) == arch_section(req, libc, archs[i], list)
           end == finalize_program_filter
           At(f, n) == IF n = 0 THEN <<>> ELSE f[n - 1] \o part(n)
           Is(f) == f = [n \in 0..m |-> At(f, n)]
           k == CHOOSE f : Is(f)
           step == [z \in (1..m) \X D |-> z[2] \o part(z[1])]
<1>1. m \in {1, 2} /\ m \in Nat /\ <<>> \in D /\ DOMAIN archs = 1..m
  <2>1. m \in {1, 2} /\ archs \in Seq(ArchType(req.host))
    BY HostsSections
  <2> QED
    BY <2>1
<1>2. \A n \in 1..m : part(n) \in D
  BY <1>1
<1>3. set_seccomp_filters(req, libc, list) = k[m] \o end
  BY DEF set_seccomp_filters
<1>4. end \in D
  BY InsnsMade DEF finalize_program_filter
<1> HIDE DEF part, end
<1>5. step \in [(1..m) \X D -> D]
  BY <1>2
<1>6. Is(k)
  <2>1. PICK f \in [0..m -> D] : IsLoop(f, m, <<>>, step)
    <3> HIDE DEF D, step, m
    <3> QED
      BY <1>1, <1>5, LoopExists
  <2>2. \A n \in 0..m : f[n] = IF n = 0 THEN <<>> ELSE step[<<n, f[n - 1]>>]
    BY <2>1 DEF IsLoop
  <2>3. \A n \in 0..m : f[n] = At(f, n)
    <3>1. SUFFICES ASSUME NEW n \in 0..m, n # 0
                   PROVE  f[n] = At(f, n)
      BY <2>2
    <3> HIDE DEF D, m
    <3>4. n \in 1..m /\ n - 1 \in 0..m
      BY <1>1, <3>1
    <3>2. n \in 1..m /\ n - 1 \in 0..m /\ f[n - 1] \in D
      BY <3>4
    <3> QED
      BY <2>2, <3>1, <3>2
  <2>4. Is(f)
    BY <2>1, <2>3
  <2> HIDE DEF At
  <2> QED
    BY <2>4
<1> HIDE DEF k, step
<1>7. k[0] = <<>> /\ \A n \in 0..(m - 1) : k[n + 1] = k[n] \o part(n + 1)
  <2>1. \A n \in 0..m : k[n] = At(k, n)
    BY <1>6
  <2>2. 0 \in 0..m /\ \A n \in 0..(m - 1) : n + 1 \in 0..m /\ n + 1 # 0 /\ (n + 1) - 1 = n
    BY <1>1
  <2> HIDE DEF m
  <2> QED
    BY <2>1, <2>2
<1>8. part(1) \in D /\ k[1] = part(1)
  <2>1. 1 \in 1..m /\ 0 \in 0..(m - 1) /\ 0 + 1 = 1
    <3> HIDE DEF m
    <3> QED
      BY <1>1
  <2>2. part(1) \in D
    BY <1>2, <2>1
  <2>3. k[1] = <<>> \o part(1)
    BY <1>7, <2>1
  <2> HIDE DEF m
  <2> QED
    BY <2>2, <2>3
<1>9. CASE m = 1
  <2>1. set_seccomp_filters(req, libc, list) = part(1) \o end
    <3> HIDE DEF m
    <3> QED
      BY <1>3, <1>8, <1>9
  <2> QED
    BY <1>4, <1>9, <2>1 DEF part, end
<1>10. CASE m = 2
  <2>1. 2 \in 1..m /\ 1 \in 0..(m - 1) /\ 1 + 1 = 2
    BY <1>10
  <2> DEFINE a == part(1)
             b == part(2)
  <2>2. a \in D /\ b \in D
    BY <1>2, <1>8, <2>1
  <2>3. k[m] = a \o b
    BY <1>7, <1>8, <1>10, <2>1
  <2>4. set_seccomp_filters(req, libc, list) = (a \o b) \o end
    BY <1>3, <2>3
  <2> HIDE DEF a, b
  <2>5. (a \o b) \o end = a \o (b \o end)
    BY <1>4, <2>2, ConcatAssociative
  <2>6. set_seccomp_filters(req, libc, list) = a \o (b \o end)
    BY <2>4, <2>5
  <2> QED
    BY <1>4, <1>10, <2>6 DEF a, b, part, end
<1> QED
  BY <1>1, <1>9, <1>10

\* The end of a program kills.
LEMMA EndKills ==
    ASSUME NEW prog \in Seq(Insns), NEW data, NEW run, Runs(prog, data, run),
           NEW k, Rests(prog, k, finalize_program_filter)
    PROVE  SaysAt(prog, run, k, "kill")
<1>1. Len(finalize_program_filter) = 1 /\ finalize_program_filter[1] = Ret("kill")
  BY DEF finalize_program_filter
<1>2. k \in Nat \ {0} /\ Len(prog) = k /\ prog[k - 1 + 1] = Ret("kill")
  BY <1>1 DEF Rests
<1>3. k - 1 + 1 = k /\ DOMAIN prog = 1..Len(prog)
  BY <1>2
<1>4. k \in DOMAIN prog /\ prog[k] = Ret("kill")
  BY <1>2, <1>3
<1> QED
  BY <1>4, RetSays

\* One section, and what follows it.
Then(exclude, data, libc, arch, calls, rest) ==
    IF data["arch"] = arch
    THEN \A v : Asks(calls, data["nr"], v) =>
                rest.here = IF exclude /\ Low(libc.start) <= data["ip"] /\ data["ip"] <= Low(libc.end)
                            THEN "allow" ELSE v
    ELSE rest.here = IF exclude THEN "allow" ELSE rest.next

SectionGoes(prog, data, run, exclude, libc, arch, calls, b, k, l) ==
    \E j : /\ Rests(prog, j, b) /\ k \in Points(prog)
           /\ Then(exclude, data, libc, arch, calls, [here |-> run[k][l], next |-> run[j][k]])

LEMMA SectionSays ==
    ASSUME NEW prog \in Seq(Insns), NEW data, NEW run, Runs(prog, data, run),
           NEW exclude \in BOOLEAN, NEW libc \in LibcType, NEW arch \in Archs, NEW calls \in Seq(CallType),
           NEW b \in Seq(Insns), NEW k, Rests(prog, k, Section(exclude, libc, arch, calls) \o b),
           NEW l \in Points(prog), data["ip"] \in Int
    PROVE  SectionGoes(prog, data, run, exclude, libc, arch, calls, b, k, l)
<1> DEFINE j == k + HeaderLength(exclude) + 2 * Len(calls) + 1
<1>1. Rests(prog, j, b)
  BY SectionParts
<1>2. k \in Nat \ {0}
  BY DEF Rests
<1>3. CASE exclude
  <2>1. exclude = TRUE
    BY <1>3
  <2>2. ExcludeGoes(data, run, libc, arch, calls, k, l)
    <3>1. Rests(prog, k, Section(TRUE, libc, arch, calls) \o b)
      BY <2>1
    <3> QED
      BY <3>1, ExcludeSays
  <2>3. k \in Points(prog)
    <3>1. GoesOn(prog, k, start_arch_section(exclude, libc, arch, Len(calls)))
      BY SectionParts
    <3>2. /\ Len(start_arch_section(exclude, libc, arch, Len(calls))) = HeaderLength(exclude)
          /\ HeaderLength(exclude) = 9
      <4>1. Len(calls) \in Nat
        OBVIOUS
      <4> QED
        BY <2>1, <4>1, HeaderInsns DEF HeaderLength
    <3>3. k - 1 + 1 \in DOMAIN prog /\ k - 1 + 1 = k
      BY <1>2, <3>1, <3>2 DEF GoesOn
    <3> QED
      BY <3>3 DEF Points
  <2>4. Then(exclude, data, libc, arch, calls, [here |-> run[k][l], next |-> run[j][k]])
    BY <2>1, <2>2 DEF Then, ExcludeGoes
  <2> QED
    BY <1>1, <2>3, <2>4 DEF SectionGoes
<1>4. CASE ~exclude
  <2>1. exclude = FALSE
    BY <1>4
  <2>2. PlainGoes(prog, data, run, arch, calls, k, l)
    <3>1. Rests(prog, k, Section(FALSE, libc, arch, calls) \o b)
      BY <2>1
    <3> QED
      BY <3>1, PlainSays
  <2>3. j = k + 5 + 2 * Len(calls)
    <3>1. HeaderLength(exclude) = 4 /\ Len(calls) \in Nat
      BY <2>1 DEF HeaderLength
    <3> QED
      BY <1>2, <3>1
  <2> HIDE DEF j
  <2>4. Then(exclude, data, libc, arch, calls, [here |-> run[k][l], next |-> run[j][k]])
    BY <2>1, <2>2, <2>3 DEF Then, PlainGoes
  <2> QED
    BY <1>1, <2>2, <2>4 DEF PlainGoes, SectionGoes
<1> QED
  BY <1>3, <1>4

\* What a program says of a call, by its sections.
ProgramGoes(req, libc, list, data, verdict) ==
    LET archs == SECCOMP_ARCHS(req.host)
        Asked(i, v) == data["arch"] = archs[i].value /\ Asks(traced_calls(req.host, archs[i], list), data["nr"], v)
        excluded == req.exclude /\ Low(libc.start) <= data["ip"] /\ data["ip"] <= Low(libc.end)
    IN  /\ \A v : Asked(1, v) => verdict = IF excluded THEN "allow" ELSE v
        /\ data["arch"] # archs[1].value /\ req.exclude => verdict = "allow"
        /\ \A i \in 2..Len(archs) : \A v : Asked(i, v) /\ ~req.exclude => verdict = v
        /\ (\A i \in DOMAIN archs : data["arch"] # archs[i].value) /\ ~req.exclude => verdict = "kill"

LEMMA SectionInsns ==
    ASSUME NEW req, req.host \in Hosts, req.exclude \in BOOLEAN, NEW libc \in LibcType,
           NEW list \in Seq(Entries), NEW i \in DOMAIN SECCOMP_ARCHS(req.host)
    PROVE  LET arch == SECCOMP_ARCHS(req.host)[i]
               calls == traced_calls(req.host, arch, list)
           IN  /\ arch.value \in Archs /\ calls \in Seq(CallType)
               /\ arch_section(req, libc, arch, list) = Section(req.exclude, libc, arch.value, calls)
               /\ arch_section(req, libc, arch, list) \in Seq(Insns)
<1> DEFINE arch == SECCOMP_ARCHS(req.host)[i]
           calls == traced_calls(req.host, arch, list)
<1>1. arch \in ArchType(req.host)
  BY HostsSections
<1>2. arch.value \in Archs /\ arch.abis \in Seq({"DEFAULT", "2", "3"})
  BY <1>1 DEF ArchType
<1>3. \A m \in DOMAIN arch.abis :
         LET s == get_sysnums(req.host, arch.abis[m]) IN IsTable(s.table) /\ s.offset \in Nat
  BY AbisTables
<1> HIDE DEF arch
<1>4. calls \in Seq(CallType)
  BY <1>2, <1>3, TracedCallsHas
<1>5. arch_section(req, libc, arch, list) = Section(req.exclude, libc, arch.value, calls)
  BY DEF arch_section, Section
<1>6. Section(req.exclude, libc, arch.value, calls) \in Seq(Insns)
  <2> HIDE DEF calls
  <2> QED
    BY <1>2, <1>4, SectionParts
<1> QED
  BY <1>2, <1>4, <1>5, <1>6 DEF arch

LEMMA ProgramSays ==
    ASSUME NEW req, req.host \in Hosts, req.exclude \in BOOLEAN, NEW libc \in LibcType,
           NEW list \in Seq(Entries), NEW prog, prog = set_seccomp_filters(req, libc, list),
           Accepted(prog), NEW data, data["ip"] \in Int
    PROVE  ProgramGoes(req, libc, list, data, Verdict(prog, data))
<1> DEFINE archs == SECCOMP_ARCHS(req.host)
           section(i) == arch_section(req, libc, archs[i], list)
           calls(i) == traced_calls(req.host, archs[i], list)
           end == finalize_program_filter
           verdict == Verdict(prog, data)
           arch(i) == archs[i].value
           ip == data["ip"]
           excluded == req.exclude /\ Low(libc.start) <= ip /\ ip <= Low(libc.end)
<1>1. /\ Len(archs) \in {1, 2} /\ DOMAIN archs = 1..Len(archs)
      /\ Len(archs) = 2 => arch(1) # arch(2)
  <2>1. archs \in Seq(ArchType(req.host)) /\ Len(archs) \in {1, 2} /\ (Len(archs) = 2 => arch(1) # arch(2))
    BY HostsSections
  <2> QED
    BY <2>1
<1>2. \A i \in DOMAIN archs : /\ arch(i) \in Archs /\ calls(i) \in Seq(CallType)
                              /\ section(i) = Section(req.exclude, libc, arch(i), calls(i))
                              /\ section(i) \in Seq(Insns)
  BY SectionInsns
<1>3. /\ end \in Seq(Insns)
      /\ Len(archs) = 1 => prog = section(1) \o end
      /\ Len(archs) = 2 => prog = section(1) \o (section(2) \o end)
  <2>1. \A i \in DOMAIN archs : section(i) \in Seq(Insns)
    BY <1>2
  <2> QED
    BY <2>1, ProgramParts
<1> DEFINE n == Len(archs)
           Rest(i) == IF i = n THEN end ELSE section(2) \o end
<1>4. n \in {1, 2} /\ DOMAIN archs = 1..n /\ 1 \in DOMAIN archs
  BY <1>1
<1>5. /\ \A i \in 1..n : Rest(i) \in Seq(Insns) /\ section(i) \o Rest(i) \in Seq(Insns)
      /\ prog = section(1) \o Rest(1) /\ prog \in Seq(Insns)
  <2> DEFINE a == section(1)
             b == section(2)
  <2>1. CASE n = 1
    <3>1. a \in Seq(Insns) /\ prog = a \o end /\ Rest(1) = end /\ end \in Seq(Insns) /\ 1..n = {1}
      BY <1>2, <1>3, <1>4, <2>1
    <3> HIDE DEF a, end, Rest, n
    <3>2. a \o end \in Seq(Insns)
      BY <3>1
    <3> QED
      BY <3>1, <3>2 DEF a
  <2>2. CASE n = 2
    <3>1. /\ a \in Seq(Insns) /\ b \in Seq(Insns) /\ prog = a \o (b \o end) /\ end \in Seq(Insns)
          /\ Rest(1) = b \o end /\ Rest(2) = end /\ 1..n = {1, 2}
      BY <1>2, <1>3, <1>4, <2>2
    <3> HIDE DEF a, b, end, Rest, n
    <3>2. b \o end \in Seq(Insns) /\ a \o (b \o end) \in Seq(Insns)
      BY <3>1
    <3> QED
      BY <3>1, <3>2 DEF a, b
  <2> QED
    BY <1>4, <2>1, <2>2
<1>6. PICK run : Runs(prog, data, run) /\ verdict = run[1][0]
  BY <1>5, VerdictRuns
<1> HIDE DEF section, end, n, verdict
<1>7. Rests(prog, 1, section(1) \o Rest(1))
  <2> DEFINE s == section(1) \o Rest(1)
  <2>1. prog = s /\ s \in Seq(Insns)
    BY <1>5
  <2> HIDE DEF s, Rest
  <2>2. Len(prog) = 1 - 1 + Len(s) /\ \A m \in 1..Len(s) : 1 - 1 + m = m
    BY <2>1
  <2>3. Rests(prog, 1, s)
    BY <2>1, <2>2 DEF Rests
  <2> QED
    BY <2>3 DEF s
<1>8. SectionGoes(prog, data, run, req.exclude, libc, arch(1), calls(1), Rest(1), 1, 0)
  <2>1. 0 \in Points(prog)
    BY DEF Points
  <2>2. Rests(prog, 1, Section(req.exclude, libc, arch(1), calls(1)) \o Rest(1))
    BY <1>2, <1>4, <1>7
  <2>3. arch(1) \in Archs /\ calls(1) \in Seq(CallType) /\ Rest(1) \in Seq(Insns)
    BY <1>2, <1>4, <1>5
  <2> HIDE DEF archs, calls, Rest
  <2> QED
    BY <1>5, <1>6, <2>1, <2>2, <2>3, SectionSays
<1>9. PICK j : /\ Rests(prog, j, Rest(1)) /\ 1 \in Points(prog)
               /\ Then(req.exclude, data, libc, arch(1), calls(1), [here |-> run[1][0], next |-> run[j][1]])
  BY <1>8 DEF SectionGoes
<1>10. CASE data["arch"] = arch(1)
  <2>1. \A v : Asks(calls(1), data["nr"], v) => verdict = IF excluded THEN "allow" ELSE v
    BY <1>6, <1>9, <1>10 DEF Then
  <2>2. \A i \in 2..n : data["arch"] # arch(i)
    BY <1>1, <1>10 DEF n
  <2> QED
    BY <1>4, <1>10, <2>1, <2>2 DEF ProgramGoes, n, verdict
<1>11. CASE data["arch"] # arch(1) /\ req.exclude
  <2>1. verdict = "allow"
    BY <1>6, <1>9, <1>11 DEF Then
  <2> QED
    BY <1>11, <2>1 DEF ProgramGoes, n, verdict
<1>12. CASE data["arch"] # arch(1) /\ ~req.exclude
  <2>1. verdict = run[j][1]
    BY <1>6, <1>9, <1>12 DEF Then
  <2>2. CASE n = 1
    <3>1. Rests(prog, j, end)
      BY <1>9, <2>2
    <3>2. SaysAt(prog, run, j, "kill")
      BY <1>5, <1>6, <3>1, EndKills DEF end
    <3>3. verdict = "kill"
      BY <1>9, <2>1, <3>2 DEF SaysAt
    <3> QED
      BY <1>12, <2>2, <3>3 DEF ProgramGoes, n, verdict
  <2>3. CASE n = 2
    <3>1. 2 \in DOMAIN archs /\ Rest(2) = end /\ Rest(1) = section(2) \o end
      BY <1>4, <2>3
    <3>2. SectionGoes(prog, data, run, req.exclude, libc, arch(2), calls(2), end, j, 1)
      <4>1. Rests(prog, j, Section(req.exclude, libc, arch(2), calls(2)) \o end)
        BY <1>2, <1>9, <3>1
      <4>2. arch(2) \in Archs /\ calls(2) \in Seq(CallType) /\ end \in Seq(Insns)
        BY <1>2, <1>3, <3>1
      <4>3. 1 \in Points(prog)
        BY <1>9
      <4> HIDE DEF archs, calls, Rest
      <4> QED
        BY <1>5, <1>6, <4>1, <4>2, <4>3, SectionSays
    <3>3. PICK q : /\ Rests(prog, q, end) /\ j \in Points(prog)
                   /\ Then(req.exclude, data, libc, arch(2), calls(2), [here |-> run[j][1], next |-> run[q][j]])
      BY <3>2 DEF SectionGoes
    <3>4. SaysAt(prog, run, q, "kill")
      BY <1>5, <1>6, <3>3, EndKills DEF end
    <3>5. run[q][j] = "kill"
      BY <3>3, <3>4 DEF SaysAt
    <3>6. data["arch"] = arch(2) => \A v : Asks(calls(2), data["nr"], v) => verdict = v
      BY <1>12, <2>1, <3>3 DEF Then
    <3>7. data["arch"] # arch(2) => verdict = "kill"
      BY <1>12, <2>1, <3>3, <3>5 DEF Then
    <3>8. 2..n = {2}
      BY <2>3
    <3> QED
      BY <1>12, <3>1, <3>6, <3>7, <3>8 DEF ProgramGoes, n, verdict
  <2> QED
    BY <1>4, <2>2, <2>3
<1> QED
  BY <1>10, <1>11, <1>12

\* The addresses of libc, as the filter has them.
LEMMA LibcFound ==
    ASSUME NEW maps \in Seq(MapLines), maps = trial.in.maps,
           NEW libc, libc = find_libc_exec_maps(maps)
    PROVE  /\ libc \in LibcType
           /\ \A ip \in 0..(Word * Word - 2) :
                 High(libc.start) = High(libc.end) /\ High(ip) = High(libc.end) =>
                    (InLibc(ip) <=> Low(libc.start) <= Low(ip) /\ Low(ip) <= Low(libc.end))
<1> DEFINE IsPart(n) == maps[n].name = "libc" /\ maps[n].exec
           hits == {n \in DOMAIN maps : maps[n].exec /\ maps[n].name = "libc"}
           n == CHOOSE k \in hits : \A l \in hits : k <= l
           max == Word * Word - 1
<1>1. max \in Nat
  <2>1. Word \in Nat /\ Word >= 1
    BY WordAssumption
  <2>2. \A w \in Nat : w >= 1 => w * w >= 1 /\ w * w \in Nat
    OBVIOUS
  <2> QED
    BY <2>1, <2>2
<1>2. \A i \in DOMAIN maps : maps[i].start \in Nat /\ maps[i].end \in Nat
  <2>1. \A i \in DOMAIN maps : maps[i] \in MapLines
    OBVIOUS
  <2>2. \A x \in 0..max : x \in Nat
    BY <1>1
  <2> QED
    BY <2>1, <2>2 DEF MapLines
<1>3. \A ip : InLibc(ip) <=> \E i \in DOMAIN maps :
                /\ IsPart(i) /\ \A j \in 1..(i - 1) : ~IsPart(j)
                /\ maps[i].start <= ip /\ ip <= maps[i].end
  BY DEF InLibc
<1>4. Word * Word - 2 = max - 1
  BY WordAssumption
<1> HIDE DEF max
<1>5. CASE hits = {}
  <2>1. libc = [start |-> max, end |-> max]
    BY <1>5 DEF find_libc_exec_maps, max
  <2>2. ASSUME NEW ip \in 0..(max - 1), High(ip) = High(max)
        PROVE  ~InLibc(ip) /\ ~(Low(max) <= Low(ip))
    <3>1. ~InLibc(ip)
      BY <1>3, <1>5
    <3>2. ip \in Nat /\ ~(max <= ip)
      BY <1>1
    <3> QED
      BY <1>1, <2>2, <3>1, <3>2, LowOrders
  <2>3. libc \in LibcType
    BY <1>1, <2>1 DEF LibcType
  <2> QED
    BY <1>4, <2>1, <2>2, <2>3
<1>6. CASE hits # {}
  <2>1. hits \subseteq Nat /\ DOMAIN maps = 1..Len(maps)
    OBVIOUS
  <2>2. \E k \in hits : \A l \in hits : k <= l
    <3> HIDE DEF hits
    <3> QED
      BY <1>6, <2>1, LeastNumber
  <2>3. n \in hits /\ \A l \in hits : n <= l
    <3> HIDE DEF hits
    <3> QED
      BY <2>2
  <2>4. libc = [start |-> maps[n].start, end |-> maps[n].end]
    BY <1>6 DEF find_libc_exec_maps
  <2> HIDE DEF n
  <2>5. n \in DOMAIN maps /\ IsPart(n) /\ \A i \in DOMAIN maps : IsPart(i) => n <= i
    BY <2>3
  <2>6. \A i \in DOMAIN maps : IsPart(i) /\ (\A j \in 1..(i - 1) : ~IsPart(j)) <=> i = n
    <3>1. SUFFICES ASSUME NEW i \in DOMAIN maps
                   PROVE  IsPart(i) /\ (\A j \in 1..(i - 1) : ~IsPart(j)) <=> i = n
      OBVIOUS
    <3> HIDE DEF IsPart
    <3>2. ASSUME IsPart(i), \A j \in 1..(i - 1) : ~IsPart(j)
          PROVE  i = n
      <4>1. n <= i /\ n \in 1..Len(maps) /\ i \in 1..Len(maps)
        BY <2>1, <2>5, <3>2
      <4>2. n \notin 1..(i - 1)
        BY <2>5, <3>2
      <4> QED
        BY <4>1, <4>2
    <3>3. ASSUME i = n
          PROVE  \A j \in 1..(i - 1) : ~IsPart(j)
      <4>1. SUFFICES ASSUME NEW j \in 1..(n - 1), IsPart(j)
                     PROVE  FALSE
        BY <3>3
      <4>2. j \in DOMAIN maps /\ ~(n <= j)
        BY <2>1, <2>5
      <4> QED
        BY <2>5, <4>1, <4>2
    <3> QED
      BY <2>5, <3>2, <3>3
  <2>7. \A ip : InLibc(ip) <=> libc.start <= ip /\ ip <= libc.end
    <3> HIDE DEF IsPart, hits
    <3> QED
      BY <1>3, <2>4, <2>5, <2>6
  <2>8. libc.start \in Nat /\ libc.end \in Nat /\ libc \in LibcType
    BY <1>2, <2>4, <2>5 DEF LibcType
  <2>9. ASSUME NEW ip \in 0..(max - 1), High(libc.start) = High(libc.end), High(ip) = High(libc.end)
        PROVE  InLibc(ip) <=> Low(libc.start) <= Low(ip) /\ Low(ip) <= Low(libc.end)
    <3>1. ip \in Nat
      BY <1>1
    <3>2. libc.start <= ip <=> Low(libc.start) <= Low(ip)
      BY <2>8, <2>9, <3>1, LowOrders
    <3>3. ip <= libc.end <=> Low(ip) <= Low(libc.end)
      BY <2>8, <2>9, <3>1, LowOrders
    <3> QED
      BY <2>7, <3>2, <3>3
  <2> QED
    BY <1>4, <2>8, <2>9
<1> QED
  BY <1>5, <1>6

\* What one call of enable_syscall_filtering leaves.
FilterTried ==
    trial.op = "filter" =>
        LET list == merge_filtered_sysnums(with_internal(trial.in.list))
        IN  /\ trial.in \in FilterRequests
            /\ trial.out.libc = find_libc_exec_maps(trial.in.maps)
            /\ trial.out.prog = set_seccomp_filters(trial.in, trial.out.libc, list)
            /\ trial.out.filtered => Accepted(trial.out.prog)

LEMMA FilterTriedHolds == FilterSpec => []FilterTried
<1>1. TrialInit => FilterTried
  BY DEF TrialInit, NoTrial, FilterTried
<1>2. FilterTried /\ [FilterNext]_trial => FilterTried'
  <2>1. ASSUME FilterTried, FilterNext
        PROVE  FilterTried'
    <3>1. PICK req \in FilterRequests, fails \in BOOLEAN : enable_syscall_filtering(req, fails)
      BY <2>1 DEF FilterNext
    <3> DEFINE libc == find_libc_exec_maps(req.maps)
               prog == set_seccomp_filters(req, libc, merge_filtered_sysnums(with_internal(req.list)))
    <3>2. trial' = [op |-> "filter", in |-> req,
                    out |-> [filtered |-> ~fails /\ Accepted(prog), libc |-> libc, prog |-> prog]]
      BY <3>1 DEF enable_syscall_filtering, Try
    <3> HIDE DEF libc, prog
    <3>3. trial'.in = req /\ trial'.out.libc = libc /\ trial'.out.prog = prog /\ (trial'.out.filtered => Accepted(prog))
      BY <3>2
    <3> QED
      BY <3>3 DEF FilterTried, libc, prog
  <2>2. ASSUME FilterTried, UNCHANGED trial
        PROVE  FilterTried'
    BY <2>2 DEF FilterTried
  <2> QED
    BY <2>1, <2>2
<1> QED
  BY <1>1, <1>2, PTL DEF FilterSpec

LEMMA RequestKnown ==
    ASSUME FilterTried, trial.op = "filter"
    PROVE  /\ trial.in.host \in Hosts /\ trial.in.exclude \in BOOLEAN
           /\ trial.in.maps \in Seq(MapLines) /\ trial.in.list \in Seq(Entries)
<1>1. trial.in \in [host : Hosts, exclude : BOOLEAN, maps : Seq(MapLines), list : Seq(Entries)]
  BY FilterRequestsAssumption DEF FilterTried
<1> QED
  BY <1>1

LEMMA RoundTripHolds ==
    ASSUME FilterTried
    PROVE  NumbersRoundTrip
<1>1. SUFFICES ASSUME trial.op = "filter", NEW abi \in Abis(trial.in.host)
               PROVE  LET host == trial.in.host
                          s == get_sysnums(host, abi)
                      IN  /\ \A pr \in DOMAIN s.table.entries :
                                translate_sysnum(host, abi, detranslate_sysnum(host, abi, pr)) = pr
                          /\ \A nr \in {s.offset - 1, s.offset + s.table.length - 1,
                                        s.offset + s.table.length, s.offset + s.table.length + 1} :
                                translate_sysnum(host, abi, nr) = "past" <=> nr = s.offset + s.table.length
  BY DEF NumbersRoundTrip
<1> DEFINE host == trial.in.host
           s == get_sysnums(host, abi)
<1>2. host \in Hosts
  BY <1>1, RequestKnown
<1>3. IsTable(s.table) /\ s.offset \in Nat
  BY <1>2, AbisOfHost, AbisTables
<1>4. \A pr : detranslate_sysnum(host, abi, pr) = index_of(s, pr)
  BY DEF detranslate_sysnum
<1>5. \A nr : translate_sysnum(host, abi, nr) = entry_of(s, nr)
  BY DEF translate_sysnum
<1> HIDE DEF s
<1>6. \A pr \in DOMAIN s.table.entries : entry_of(s, index_of(s, pr)) = pr
  BY <1>3, TableRoundTrip
<1>7. \A nr \in Int : entry_of(s, nr) = "past" <=> nr = s.offset + s.table.length
  BY <1>3, PastTable
<1>8. s.offset \in Int /\ s.table.length \in Int
  BY <1>3 DEF IsTable
<1>9. {s.offset - 1, s.offset + s.table.length - 1, s.offset + s.table.length,
       s.offset + s.table.length + 1} \subseteq Int
  BY <1>8
<1> QED
  BY <1>4, <1>5, <1>6, <1>7, <1>9 DEF s

LEMMA NativeHolds ==
    ASSUME FilterTried
    PROVE  NativeCallsReported
<1> DEFINE req == trial.in
           archs == SECCOMP_ARCHS(req.host)
           arch == archs[1]
           libc == trial.out.libc
           merged == merge_filtered_sysnums(with_internal(req.list))
<1>1. SUFFICES ASSUME Filtered, NEW n \in DOMAIN arch.abis,
                      NEW pr \in DOMAIN get_sysnums(req.host, arch.abis[n]).table.entries,
                      NEW ip \in 0..(Word * Word - 2), ~req.exclude \/ Comparable(ip)
               PROVE  VerdictOf(arch.value, detranslate_sysnum(req.host, arch.abis[n], pr), ip)
                          = IF req.exclude /\ InLibc(ip) THEN "allow" ELSE Reported(pr)
  BY DEF NativeCallsReported
<1>2. /\ req.host \in Hosts /\ req.exclude \in BOOLEAN
      /\ req.maps \in Seq(MapLines) /\ req.list \in Seq(Entries)
  BY <1>1, RequestKnown DEF Filtered
<1>3. /\ libc = find_libc_exec_maps(req.maps) /\ trial.out.prog = set_seccomp_filters(req, libc, merged)
      /\ Accepted(trial.out.prog)
  BY <1>1 DEF FilterTried, Filtered
<1>4. /\ libc \in LibcType
      /\ req.exclude => (InLibc(ip) <=> Low(libc.start) <= Low(ip) /\ Low(ip) <= Low(libc.end))
  BY <1>1, <1>2, <1>3, LibcFound DEF Comparable
<1>5. merged \in Seq(Entries)
  BY <1>2, MergedReported
<1> DEFINE nr == detranslate_sysnum(req.host, arch.abis[n], pr)
           calls == traced_calls(req.host, arch, merged)
           data == [arch |-> arch.value, nr |-> nr, ip |-> Low(ip)]
<1>6. 1 \in DOMAIN archs
  <2>1. archs \in Seq(ArchType(req.host)) /\ Len(archs) \in {1, 2}
    BY <1>2, HostsSections
  <2> QED
    BY <2>1
<1>7. Asks(calls, nr, Reported(pr))
  BY <1>2, <1>6, SectionAsks
<1>8. Low(ip) \in Int
  <2>1. \A w \in Nat : ip \in 0..(w * w - 2) => ip \in Nat
    OBVIOUS
  <2>2. ip \in Nat
    BY <2>1, WordAssumption
  <2> QED
    BY <2>2, WordParts
<1>9. ProgramGoes(req, libc, merged, data, Verdict(trial.out.prog, data))
  <2>1. data["ip"] \in Int
    BY <1>8
  <2> HIDE DEF data, merged, req, libc
  <2> QED
    BY <1>2, <1>3, <1>4, <1>5, <2>1, ProgramSays
<1>10. data["arch"] = arch.value /\ data["nr"] = nr /\ data["ip"] = Low(ip)
  OBVIOUS
<1>11. VerdictOf(arch.value, nr, ip) = Verdict(trial.out.prog, data)
  BY DEF VerdictOf
<1> HIDE DEF data
<1>12. Verdict(trial.out.prog, data)
          = IF req.exclude /\ Low(libc.start) <= Low(ip) /\ Low(ip) <= Low(libc.end)
            THEN "allow" ELSE Reported(pr)
  <2> HIDE DEF nr
  <2> QED
    BY <1>7, <1>9, <1>10 DEF ProgramGoes
<1> HIDE DEF libc
<1> QED
  BY <1>4, <1>11, <1>12

LEMMA ForeignHolds ==
    ASSUME FilterTried
    PROVE  ForeignCallsReported
<1> DEFINE req == trial.in
           archs == SECCOMP_ARCHS(req.host)
           libc == trial.out.libc
           merged == merge_filtered_sysnums(with_internal(req.list))
           prog == trial.out.prog
<1>1. SUFFICES ASSUME Filtered
               PROVE  /\ \A i \in 2..Len(archs) : \A n \in DOMAIN archs[i].abis :
                         \A pr \in DOMAIN get_sysnums(req.host, archs[i].abis[n]).table.entries :
                           VerdictOf(archs[i].value, detranslate_sysnum(req.host, archs[i].abis[n], pr), 0)
                               = IF req.exclude THEN "allow" ELSE Reported(pr)
                      /\ VerdictOf("unknown", 0, 0) = IF req.exclude THEN "allow" ELSE "kill"
  BY DEF ForeignCallsReported
<1>2. /\ req.host \in Hosts /\ req.exclude \in BOOLEAN
      /\ req.maps \in Seq(MapLines) /\ req.list \in Seq(Entries)
  BY <1>1, RequestKnown DEF Filtered
<1>3. /\ libc = find_libc_exec_maps(req.maps) /\ prog = set_seccomp_filters(req, libc, merged)
      /\ Accepted(prog)
  BY <1>1 DEF FilterTried, Filtered
<1>4. libc \in LibcType
  BY <1>2, <1>3, LibcFound
<1>5. merged \in Seq(Entries)
  BY <1>2, MergedReported
<1>6. /\ DOMAIN archs = 1..Len(archs) /\ Len(archs) \in {1, 2}
      /\ Len(archs) = 2 => archs[1].value # archs[2].value
      /\ \A i \in DOMAIN archs : archs[i].value \in Archs
  <2>1. archs \in Seq(ArchType(req.host)) /\ Len(archs) \in {1, 2} /\ (Len(archs) = 2 => archs[1].value # archs[2].value)
    BY <1>2, HostsSections
  <2>2. \A i \in DOMAIN archs : archs[i] \in ArchType(req.host)
    BY <2>1
  <2> HIDE DEF archs
  <2> QED
    BY <2>1, <2>2 DEF ArchType
<1>7. Low(0) \in Int
  BY WordParts
<1>8. \A data : data["ip"] \in Int => ProgramGoes(req, libc, merged, data, Verdict(prog, data))
  <2> HIDE DEF merged, req, libc, prog
  <2> QED
    BY <1>2, <1>3, <1>4, <1>5, ProgramSays
<1>9. ASSUME NEW i \in 2..Len(archs), NEW n \in DOMAIN archs[i].abis,
             NEW pr \in DOMAIN get_sysnums(req.host, archs[i].abis[n]).table.entries
      PROVE  VerdictOf(archs[i].value, detranslate_sysnum(req.host, archs[i].abis[n], pr), 0)
                 = IF req.exclude THEN "allow" ELSE Reported(pr)
  <2> DEFINE nr == detranslate_sysnum(req.host, archs[i].abis[n], pr)
             data == [arch |-> archs[i].value, nr |-> nr, ip |-> Low(0)]
             calls == traced_calls(req.host, archs[i], merged)
  <2>1. i \in DOMAIN archs /\ archs[i].value # archs[1].value
    BY <1>6
  <2>2. Asks(calls, nr, Reported(pr))
    BY <1>2, <2>1, SectionAsks
  <2>3. ProgramGoes(req, libc, merged, data, Verdict(prog, data))
    BY <1>7, <1>8
  <2>4. data["arch"] = archs[i].value /\ data["nr"] = nr
    OBVIOUS
  <2>5. VerdictOf(archs[i].value, nr, 0) = Verdict(prog, data)
    BY DEF VerdictOf
  <2> HIDE DEF data, nr
  <2> QED
    BY <2>1, <2>2, <2>3, <2>4, <2>5 DEF ProgramGoes, nr
<1>10. VerdictOf("unknown", 0, 0) = IF req.exclude THEN "allow" ELSE "kill"
  <2> DEFINE data == [arch |-> "unknown", nr |-> 0, ip |-> Low(0)]
  <2>1. ProgramGoes(req, libc, merged, data, Verdict(prog, data))
    BY <1>7, <1>8
  <2>2. data["arch"] = "unknown" /\ VerdictOf("unknown", 0, 0) = Verdict(prog, data)
    BY DEF VerdictOf
  <2>3. \A i \in DOMAIN archs : archs[i].value # "unknown"
    BY <1>6 DEF Archs
  <2>4. 1 \in DOMAIN archs
    BY <1>6
  <2> HIDE DEF data
  <2> QED
    BY <2>1, <2>2, <2>3, <2>4 DEF ProgramGoes
<1> QED
  BY <1>9, <1>10

\* Whatever a process asks for, wherever its libc lies and on whichever host,
\* the filter set_seccomp_filters builds for it does to each call of each
\* architecture what the merged list says.
THEOREM FilterReportsCalls == FilterSpec => []CallsReported
<1>1. FilterTried => CallsReported
  BY NativeHolds, ForeignHolds, RoundTripHolds DEF CallsReported
<1> QED
  BY <1>1, FilterTriedHolds, PTL

-----------------------------------------------------------------------------
(***************************************************************************)
(* Arrays of pointers: until the array is pushed, every entry stands for   *)
(* the string the edits have put there, by its copy or by its address.     *)
(***************************************************************************)
StringsHeld == Texts \cup {NULL, "?"}
XPointers == [remote : Nat, local : Texts \cup {NULL}]

Stands(i) ==
    IF array[i].local # NULL THEN want[i] = array[i].local
    ELSE /\ array[i].remote \in {0} \cup DOMAIN memory
         /\ want[i] = TextAt(array[i].remote)

ArrayHeld ==
    /\ array \in Seq(XPointers) /\ want \in Seq(StringsHeld) /\ Len(want) = Len(array)
    /\ DOMAIN memory \subseteq 1..MaxArray /\ memory \in [DOMAIN memory -> StringsHeld]
    /\ \A i \in DOMAIN array : Stands(i)

\* The tracee's own array, of which entries were read or replaced only.
Unmoved ==
    ~resized => /\ DOMAIN words = DOMAIN array
                /\ \A i \in DOMAIN array : array[i].local = NULL => words[i] = array[i].remote

XpointersInv == (pushed \in {"no", "failed"} => ArrayHeld /\ Unmoved) /\ ArrayPushed

LEMMA ArrayStarts == XpointersInit => XpointersInv
  BY DEF XpointersInit, XpointersInv, ArrayPushed, PushedExact, PushedUnlessSame

\* What is left of ArrayPushed while the array is being edited.
LEMMA NotPushedYet ==
    ASSUME pushed \in {"no", "failed"}
    PROVE  ArrayPushed
  BY DEF ArrayPushed, PushedExact, PushedUnlessSame

LEMMA FetchHolds ==
    ASSUME fetch_array_of_xpointers
    PROVE  XpointersInv'
<1>1. PICK n \in 1..MaxArray, whole \in BOOLEAN : \E strings \in [1..n -> Texts \cup {"?"}] :
        LET given == IF whole THEN [strings EXCEPT ![n] = NULL] ELSE strings
        IN  /\ pushed = "none"
            /\ memory' = [a \in 1..n |-> given[a]]
            /\ words' = [i \in 1..n |-> IF given[i] = NULL THEN 0 ELSE i]
            /\ array' = [i \in 1..n |-> XPointer(words'[i], NULL)]
            /\ want' = given
            /\ pushed' = "no"
            /\ UNCHANGED <<resized, edits>>
  BY DEF fetch_array_of_xpointers
<1>2. PICK strings \in [1..n -> Texts \cup {"?"}] :
        LET given == IF whole THEN [strings EXCEPT ![n] = NULL] ELSE strings
        IN  /\ pushed = "none"
            /\ memory' = [a \in 1..n |-> given[a]]
            /\ words' = [i \in 1..n |-> IF given[i] = NULL THEN 0 ELSE i]
            /\ array' = [i \in 1..n |-> XPointer(words'[i], NULL)]
            /\ want' = given
            /\ pushed' = "no"
            /\ UNCHANGED <<resized, edits>>
  BY <1>1
<1> DEFINE given == IF whole THEN [strings EXCEPT ![n] = NULL] ELSE strings
           word(i) == IF given[i] = NULL THEN 0 ELSE i
           entry(i) == XPointer(word(i), NULL)
<1>3. /\ memory' = [a \in 1..n |-> given[a]] /\ array' = [i \in 1..n |-> entry(i)]
      /\ words' = [i \in 1..n |-> word(i)]
      /\ want' = given /\ pushed' = "no"
  BY <1>2
<1>4. given \in [1..n -> StringsHeld] /\ n \in Nat /\ n <= MaxArray
  BY XpointersAssumption DEF StringsHeld
<1> HIDE DEF given
<1>5. \A i \in 1..n : entry(i) \in XPointers /\ entry(i).local = NULL
                      /\ entry(i).remote = word(i) /\ word(i) = IF given[i] = NULL THEN 0 ELSE i
  BY <1>4 DEF XPointer, XPointers
<1> HIDE DEF entry, word
<1>6. array' \in Seq(XPointers) /\ want' \in Seq(StringsHeld) /\ Len(array') = n /\ Len(want') = n /\ DOMAIN array' = 1..n
  BY <1>3, <1>4, <1>5
<1>7. DOMAIN memory' = 1..n /\ memory' \in [1..n -> StringsHeld] /\ 1..n \subseteq 1..MaxArray
  BY <1>3, <1>4, XpointersAssumption
<1>8. ASSUME NEW i \in 1..n
      PROVE  Stands(i)'
  <2>1. array'[i] = entry(i) /\ want'[i] = given[i] /\ memory'[i] = given[i]
    BY <1>3, <1>4
  <2>2. i # 0
    OBVIOUS
  <2> QED
    BY <1>5, <1>7, <2>1, <2>2 DEF Stands, TextAt
<1>9. ArrayHeld'
  BY <1>6, <1>7, <1>8 DEF ArrayHeld
<1>10. pushed' = "no" /\ Unmoved'
  <2>1. DOMAIN words' = 1..n /\ \A i \in 1..n : words'[i] = array'[i].remote
    BY <1>3, <1>5
  <2> QED
    BY <1>3, <1>6, <2>1 DEF Unmoved
<1> QED
  BY <1>9, <1>10, NotPushedYet DEF XpointersInv, ArrayPushed, PushedExact, PushedUnlessSame

LEMMA EditHolds ==
    ASSUME Edit, ArrayHeld', Unmoved'
    PROVE  XpointersInv'
<1>1. pushed' = "no"
  BY DEF Edit
<1> QED
  BY <1>1 DEF XpointersInv, ArrayPushed, PushedExact, PushedUnlessSame

LEMMA HeldWhenEdited ==
    ASSUME XpointersInv, Edit
    PROVE  ArrayHeld /\ Unmoved /\ memory' = memory /\ words' = words
  BY DEF XpointersInv, Edit

LEMMA FindHolds ==
    ASSUME XpointersInv, find_xpointee
    PROVE  XpointersInv'
<1>1. PICK n :
        /\ Edit
        /\ array' = [i \in DOMAIN array |-> IF i <= n THEN read_xpointee_as_string(i) ELSE array[i]]
        /\ UNCHANGED <<want, resized>>
  BY DEF find_xpointee
<1>2. ArrayHeld /\ Unmoved /\ memory' = memory /\ words' = words
  BY <1>1, HeldWhenEdited
<1> DEFINE m == Len(array)
<1>3. /\ array \in Seq(XPointers) /\ want \in Seq(StringsHeld) /\ Len(want) = m /\ m \in Nat
      /\ DOMAIN array = 1..m
      /\ DOMAIN memory \subseteq 1..MaxArray /\ memory \in [DOMAIN memory -> StringsHeld]
      /\ \A i \in 1..m : Stands(i) /\ array[i] \in XPointers
  BY <1>2 DEF ArrayHeld
<1>4. ASSUME NEW i \in 1..m, NEW e, e = read_xpointee_as_string(i) \/ e = array[i]
      PROVE  /\ e \in XPointers /\ e.remote = array[i].remote
             /\ e.local = NULL => array[i].local = NULL
             /\ IF e.local # NULL THEN want[i] = e.local
                ELSE e.remote \in {0} \cup DOMAIN memory /\ want[i] = TextAt(e.remote)
  <2>1. CASE e = array[i]
    BY <1>3, <2>1 DEF Stands
  <2>2. CASE e # array[i]
    <3>1. /\ array[i].local = NULL /\ array[i].remote # 0 /\ TextAt(array[i].remote) # "?"
          /\ e = [array[i] EXCEPT !.local = TextAt(array[i].remote)]
      BY <1>4, <2>2 DEF read_xpointee_as_string
    <3>2. /\ array[i].remote \in DOMAIN memory /\ TextAt(array[i].remote) = want[i]
          /\ TextAt(array[i].remote) \in StringsHeld
      BY <1>3, <3>1 DEF Stands, TextAt
    <3>3. e.local = want[i] /\ e.remote = array[i].remote /\ e \in XPointers
      BY <1>3, <3>1, <3>2 DEF XPointers, StringsHeld
    <3> QED
      BY <3>1, <3>2, <3>3
  <2> QED
    BY <2>1, <2>2
<1>5. /\ DOMAIN array' = 1..m
      /\ \A i \in 1..m : array'[i] \in XPointers /\ (array'[i] = read_xpointee_as_string(i) \/ array'[i] = array[i])
  BY <1>1, <1>3, <1>4
<1>6. array' = [i \in 1..m |-> array'[i]]
  BY <1>1, <1>3
<1>7. array' \in Seq(XPointers) /\ Len(array') = m
  BY <1>3, <1>5, <1>6
<1>8. ASSUME NEW i \in 1..m
      PROVE  Stands(i)'
  <2>1. IF array'[i].local # NULL THEN want[i] = array'[i].local
        ELSE array'[i].remote \in {0} \cup DOMAIN memory /\ want[i] = TextAt(array'[i].remote)
    BY <1>4, <1>5
  <2> QED
    BY <1>1, <1>2, <2>1 DEF Stands, TextAt
<1>9. ArrayHeld'
  BY <1>1, <1>2, <1>3, <1>5, <1>7, <1>8 DEF ArrayHeld
<1>10. Unmoved'
  <2>1. \A i \in 1..m : array'[i].remote = array[i].remote /\ (array'[i].local = NULL => array[i].local = NULL)
    BY <1>4, <1>5
  <2> QED
    BY <1>1, <1>2, <1>3, <1>5, <2>1 DEF Unmoved
<1> QED
  BY <1>1, <1>9, <1>10, EditHolds

LEMMA WriteHolds ==
    ASSUME XpointersInv, write_xpointee_as_string
    PROVE  XpointersInv'
<1>1. PICK i \in DOMAIN array, s \in Texts :
        /\ Edit
        /\ array' = [array EXCEPT ![i].local = s]
        /\ want' = [want EXCEPT ![i] = s]
        /\ UNCHANGED resized
  BY DEF write_xpointee_as_string
<1>2. ArrayHeld /\ Unmoved /\ memory' = memory /\ words' = words
  BY <1>1, HeldWhenEdited
<1> DEFINE m == Len(array)
<1>3. /\ array \in Seq(XPointers) /\ want \in Seq(StringsHeld) /\ Len(want) = m /\ m \in Nat
      /\ DOMAIN array = 1..m
      /\ DOMAIN memory \subseteq 1..MaxArray /\ memory \in [DOMAIN memory -> StringsHeld]
      /\ \A j \in 1..m : Stands(j) /\ array[j] \in XPointers
  BY <1>2 DEF ArrayHeld
<1>4. s # NULL /\ s \in StringsHeld
  BY XpointersAssumption DEF NULL, StringsHeld
<1> DEFINE e == [array[i] EXCEPT !.local = s]
<1>5. e \in XPointers /\ e.local = s
  BY <1>3 DEF XPointers
<1>6. array' = [array EXCEPT ![i] = e]
  BY <1>1
<1> HIDE DEF e
<1>7. array' \in Seq(XPointers) /\ Len(array') = m /\ want' \in Seq(StringsHeld) /\ Len(want') = m
  <2>1. array' \in Seq(XPointers) /\ Len(array') = m
    BY <1>3, <1>5, <1>6
  <2>2. want' \in Seq(StringsHeld) /\ Len(want') = m
    BY <1>1, <1>3, <1>4
  <2> QED
    BY <2>1, <2>2
<1>8. ASSUME NEW j \in 1..m
      PROVE  Stands(j)'
  <2>1. CASE j = i
    <3>1. array'[j] = e /\ want'[j] = s
      BY <1>1, <1>3, <1>6, <2>1
    <3> QED
      BY <1>4, <1>5, <3>1 DEF Stands
  <2>2. CASE j # i
    <3>1. array'[j] = array[j] /\ want'[j] = want[j]
      BY <1>1, <1>3, <1>6, <2>2
    <3> QED
      BY <1>2, <1>3, <3>1 DEF Stands, TextAt
  <2> QED
    BY <2>1, <2>2
<1>9. DOMAIN array' = 1..m
  BY <1>3, <1>7
<1>10. ArrayHeld'
  BY <1>2, <1>3, <1>7, <1>8, <1>9 DEF ArrayHeld
<1>11. Unmoved'
  <2>1. array'[i].local # NULL /\ \A j \in 1..m : j # i => array'[j] = array[j]
    BY <1>3, <1>4, <1>5, <1>6
  <2> QED
    BY <1>1, <1>2, <1>3, <1>9, <2>1 DEF Unmoved
<1> QED
  BY <1>1, <1>10, <1>11, EditHolds

\* A list with some entries before index taken out or put in: where each one is.
Joined(s, t, cut, more, from, e) ==
    /\ Len(t) = cut + more + (Len(s) - from)
    /\ \A i \in 1..cut : t[i] = s[i]
    /\ \A i \in (cut + 1)..(cut + more) : t[i] = e
    /\ \A i \in (cut + more + 1)..Len(t) : t[i] = s[i - cut - more + from]

LEMMA JoinedParts ==
    ASSUME NEW X, NEW s \in Seq(X), NEW from \in 0..Len(s), NEW cut \in 0..from,
           NEW e \in X, NEW mid \in Seq(X), \A i \in 1..Len(mid) : mid[i] = e
    PROVE  LET t == SubSeq(s, 1, cut) \o mid \o SubSeq(s, from + 1, Len(s))
           IN  t \in Seq(X) /\ Joined(s, t, cut, Len(mid), from, e)
<1> DEFINE a == SubSeq(s, 1, cut)
           c == SubSeq(s, from + 1, Len(s))
           n == Len(s)
           more == Len(mid)
           ab == a \o mid
           t == ab \o c
<1>1. n \in Nat /\ more \in Nat /\ from \in Nat /\ cut \in Nat /\ cut <= from /\ from <= n
  OBVIOUS
<1>2. a \in Seq(X) /\ Len(a) = cut /\ \A i \in 1..cut : a[i] = s[i]
  BY <1>1
<1>3. c \in Seq(X) /\ Len(c) = n - from /\ \A i \in 1..(n - from) : c[i] = s[from + i]
  <2>1. \A i \in (from + 1)..n : s[i] \in X
    BY <1>1
  <2>2. /\ c \in Seq(X)
        /\ Len(c) = IF from + 1 <= n THEN n - (from + 1) + 1 ELSE 0
        /\ \A i \in 1..(n - (from + 1) + 1) : c[i] = s[from + 1 + i - 1]
    <3> HIDE DEF n
    <3> QED
      BY <1>1, <2>1, SubSeqProperties DEF n
  <2>3. (IF from + 1 <= n THEN n - (from + 1) + 1 ELSE 0) = n - from
    BY <1>1
  <2>4. n - (from + 1) + 1 = n - from /\ \A i \in 1..(n - from) : from + 1 + i - 1 = from + i
    BY <1>1
  <2> HIDE DEF c, n
  <2> QED
    BY <2>2, <2>3, <2>4
<1> HIDE DEF a, c, n
<1>4. /\ ab \in Seq(X) /\ Len(ab) = cut + more
      /\ \A i \in 1..cut : ab[i] = s[i]
      /\ \A i \in (cut + 1)..(cut + more) : ab[i] = e
  <2>1. /\ ab \in Seq(X) /\ Len(ab) = cut + more
        /\ \A i \in 1..(cut + more) : ab[i] = IF i <= cut THEN a[i] ELSE mid[i - cut]
    <3>1. mid \in Seq(X) /\ more = Len(mid)
      OBVIOUS
    <3> HIDE DEF more
    <3> QED
      BY <1>1, <1>2, <3>1, ConcatProperties
  <2>2. \A i \in (cut + 1)..(cut + more) : i - cut \in 1..more /\ ~(i <= cut) /\ i \in 1..(cut + more)
    BY <1>1
  <2>3. \A i \in 1..cut : i <= cut /\ i \in 1..(cut + more)
    BY <1>1
  <2> HIDE DEF ab
  <2> QED
    BY <1>2, <2>1, <2>2, <2>3
<1> HIDE DEF ab, more
<1>5. /\ t \in Seq(X) /\ Len(t) = cut + more + (n - from)
      /\ \A i \in 1..(cut + more) : t[i] = ab[i]
      /\ \A i \in (cut + more + 1)..Len(t) : t[i] = c[i - (cut + more)]
  <2>1. /\ t \in Seq(X) /\ Len(t) = Len(ab) + Len(c)
        /\ \A i \in 1..(Len(ab) + Len(c)) : t[i] = IF i <= Len(ab) THEN ab[i] ELSE c[i - Len(ab)]
    BY <1>3, <1>4, ConcatProperties
  <2>2. /\ \A i \in 1..(cut + more) : i \in 1..(cut + more + (n - from)) /\ i <= cut + more
        /\ \A i \in (cut + more + 1)..(cut + more + (n - from)) :
              i \in 1..(cut + more + (n - from)) /\ ~(i <= cut + more)
    BY <1>1
  <2> HIDE DEF t
  <2> QED
    BY <1>3, <1>4, <2>1, <2>2
<1> HIDE DEF t
<1>6. \A i \in 1..cut : t[i] = s[i]
  <2>1. \A i \in 1..cut : i \in 1..(cut + more)
    BY <1>1
  <2> QED
    BY <1>4, <1>5, <2>1
<1>7. \A i \in (cut + 1)..(cut + more) : t[i] = e
  <2>1. \A i \in (cut + 1)..(cut + more) : i \in 1..(cut + more)
    BY <1>1
  <2> QED
    BY <1>4, <1>5, <2>1
<1>8. \A i \in (cut + more + 1)..Len(t) : t[i] = s[i - cut - more + from]
  <2>1. \A i \in (cut + more + 1)..Len(t) :
           i - (cut + more) \in 1..(n - from) /\ from + (i - (cut + more)) = i - cut - more + from
    BY <1>1, <1>5
  <2> QED
    BY <1>3, <1>5, <2>1
<1> QED
  BY <1>5, <1>6, <1>7, <1>8 DEF Joined, a, c, n, ab, more, t

LEMMA ResizeHolds ==
    ASSUME XpointersInv, Resize
    PROVE  XpointersInv'
<1>1. PICK index \in 0..(Len(array) - 1), delta \in {-1, 1, 2} :
        /\ Edit
        /\ -delta <= index /\ Len(array) + delta <= MaxArray
        /\ array' = resize_array_of_xpointers(array, index, delta, XPointer(0, NULL))
        /\ want' = SubSeq(want, 1, IF delta < 0 THEN index + delta ELSE index)
                   \o [n \in 1..(IF delta < 0 THEN 0 ELSE delta) |-> NULL]
                   \o SubSeq(want, index + 1, Len(want))
        /\ resized' = TRUE
  BY DEF Resize
<1>2. ArrayHeld /\ Unmoved /\ memory' = memory /\ words' = words
  BY <1>1, HeldWhenEdited
<1> DEFINE m == Len(array)
           cut == IF delta < 0 THEN index + delta ELSE index
           more == IF delta < 0 THEN 0 ELSE delta
           e == XPointer(0, NULL)
           add == IF delta < 0 THEN <<>> ELSE [n \in 1..delta |-> e]
           nulls == [n \in 1..more |-> NULL]
<1>3. /\ array \in Seq(XPointers) /\ want \in Seq(StringsHeld) /\ Len(want) = m /\ m \in Nat
      /\ DOMAIN array = 1..m
      /\ DOMAIN memory \subseteq 1..MaxArray /\ memory \in [DOMAIN memory -> StringsHeld]
      /\ \A i \in 1..m : Stands(i)
  BY <1>2 DEF ArrayHeld
<1>4. index \in 0..m /\ cut \in 0..index /\ more \in Nat
  BY <1>1, <1>3
<1>5. e \in XPointers /\ e.local = NULL /\ e.remote = 0 /\ NULL \in StringsHeld
  BY DEF XPointer, XPointers, StringsHeld
<1>6. add \in Seq(XPointers) /\ Len(add) = more /\ \A i \in 1..Len(add) : add[i] = e
  <2> HIDE DEF e
  <2> QED
    BY <1>5
<1>7. nulls \in Seq(StringsHeld) /\ Len(nulls) = more /\ \A i \in 1..Len(nulls) : nulls[i] = NULL
  <2> HIDE DEF more
  <2> QED
    BY <1>4, <1>5
<1>8. array' = SubSeq(array, 1, cut) \o add \o SubSeq(array, index + 1, m)
  BY <1>1 DEF resize_array_of_xpointers
<1>9. want' = SubSeq(want, 1, cut) \o nulls \o SubSeq(want, index + 1, m)
  BY <1>1, <1>3
<1> HIDE DEF m, cut, more, e, add, nulls
<1>10. array' \in Seq(XPointers) /\ Joined(array, array', cut, more, index, e)
  <2>1. index \in 0..Len(array)
    BY <1>4 DEF m
  <2> QED
    BY <1>3, <1>4, <1>5, <1>6, <1>8, <2>1, JoinedParts DEF m
<1>11. want' \in Seq(StringsHeld) /\ Joined(want, want', cut, more, index, NULL)
  <2>1. index \in 0..Len(want)
    BY <1>3, <1>4
  <2>2. want' = SubSeq(want, 1, cut) \o nulls \o SubSeq(want, index + 1, Len(want))
    BY <1>3, <1>9
  <2> QED
    BY <1>3, <1>4, <1>5, <1>7, <2>1, <2>2, JoinedParts
<1>12. Len(array') = Len(want') /\ Len(array') = cut + more + (m - index) /\ DOMAIN array' = 1..Len(array')
  BY <1>3, <1>10, <1>11 DEF Joined, m
<1>13. ASSUME NEW i \in DOMAIN array'
       PROVE  Stands(i)'
  <2>1. i \in 1..(cut + more + (m - index)) /\ cut \in Nat /\ more \in Nat /\ index \in Nat /\ m \in Nat /\ cut <= m
    BY <1>3, <1>4, <1>12
  <2>2. ASSUME NEW j \in 1..m, array'[i] = array[j], want'[i] = want[j]
        PROVE  Stands(i)'
    BY <1>2, <1>3, <2>2 DEF Stands, TextAt
  <2>3. CASE i <= cut
    <3>1. i \in 1..cut /\ i \in 1..m
      BY <2>1, <2>3
    <3>2. array'[i] = array[i] /\ want'[i] = want[i]
      BY <1>10, <1>11, <3>1 DEF Joined
    <3> QED
      BY <2>2, <3>1, <3>2
  <2>4. CASE cut < i /\ i <= cut + more
    <3>1. i \in (cut + 1)..(cut + more)
      BY <2>1, <2>4
    <3>2. array'[i] = e /\ want'[i] = NULL
      BY <1>10, <1>11, <3>1 DEF Joined
    <3> QED
      BY <1>5, <3>2 DEF Stands, TextAt
  <2>5. CASE cut + more < i
    <3>1. i \in (cut + more + 1)..Len(array') /\ i - cut - more + index \in 1..m
      BY <1>4, <1>12, <2>1, <2>5
    <3>2. /\ array'[i] = array[i - cut - more + index]
          /\ want'[i] = want[i - cut - more + index]
      BY <1>10, <1>11, <1>12, <3>1 DEF Joined
    <3> QED
      BY <2>2, <3>1, <3>2
  <2> QED
    BY <2>1, <2>3, <2>4, <2>5
<1>14. ArrayHeld'
  BY <1>2, <1>3, <1>10, <1>11, <1>12, <1>13 DEF ArrayHeld
<1> QED
  BY <1>1, <1>14, EditHolds DEF Unmoved

\* The copies lie one after the other, after the array.
LEMMA OffsetsApart ==
    ASSUME ArrayHeld
    PROVE  /\ \A i \in DOMAIN array : OffsetOf(i) \in Nat /\ Len(array) * WordSize <= OffsetOf(i)
           /\ \A i \in Copied : SizeOfText[array[i].local] \in Nat \ {0}
           /\ \A i, j \in Copied : i < j => OffsetOf(i) + SizeOfText[array[i].local] <= OffsetOf(j)
<1> DEFINE m == Len(array)
           b == m * WordSize
           size(n) == SizeOfText[array[n].local]
           At(f, n) == IF n = 0 THEN b ELSE IF n \in Copied THEN f[n - 1] + size(n) ELSE f[n - 1]
           Is(f) == f = [n \in 0..m |-> At(f, n)]
           o == CHOOSE f : Is(f)
           step == [z \in (1..m) \X Nat |-> IF z[1] \in Copied THEN z[2] + size(z[1]) ELSE z[2]]
<1>1. array \in Seq(XPointers) /\ m \in Nat /\ DOMAIN array = 1..m /\ Copied \subseteq 1..m
  BY DEF ArrayHeld, Copied
<1>2. b \in Nat
  BY <1>1 DEF WordSize
<1>3. \A i \in Copied : size(i) \in Nat /\ size(i) > 0
  <2>1. \A i \in Copied : array[i] \in XPointers /\ array[i].local # NULL
    BY <1>1 DEF Copied
  <2>2. \A i \in Copied : array[i].local \in Texts
    BY <2>1 DEF XPointers
  <2> QED
    BY <2>2, XpointersAssumption
<1>4. \A i : OffsetOf(i) = o[i - 1]
  BY DEF OffsetOf
<1> HIDE DEF b, size
<1>5. step \in [(1..m) \X Nat -> Nat]
  BY <1>3
<1>6. Is(o)
  <2>1. PICK f \in [0..m -> Nat] : IsLoop(f, m, b, step)
    <3> HIDE DEF step, m
    <3> QED
      BY <1>1, <1>2, <1>5, LoopExists
  <2>2. \A n \in 0..m : f[n] = IF n = 0 THEN b ELSE step[<<n, f[n - 1]>>]
    BY <2>1 DEF IsLoop
  <2>3. \A n \in 0..m : f[n] = At(f, n)
    <3>1. SUFFICES ASSUME NEW n \in 0..m, n # 0
                   PROVE  f[n] = At(f, n)
      BY <2>2
    <3>2. n \in 1..m /\ n - 1 \in 0..m /\ f[n - 1] \in Nat
      BY <1>1, <3>1
    <3> HIDE DEF m
    <3> QED
      BY <2>2, <3>1, <3>2
  <2>4. Is(f)
    BY <2>1, <2>3
  <2> HIDE DEF At
  <2> QED
    BY <2>4
<1> HIDE DEF o, step
<1>7. o[0] = b /\ \A n \in 0..(m - 1) : o[n + 1] = IF n + 1 \in Copied THEN o[n] + size(n + 1) ELSE o[n]
  <2>1. \A n \in 0..m : o[n] = At(o, n)
    BY <1>6
  <2>2. 0 \in 0..m /\ \A n \in 0..(m - 1) : n + 1 \in 0..m /\ n + 1 # 0 /\ (n + 1) - 1 = n
    BY <1>1
  <2> HIDE DEF m
  <2> QED
    BY <2>1, <2>2
<1> HIDE DEF m
<1> DEFINE S == {n \in 0..m : o[n] \in Nat /\ b <= o[n]}
<1>8. \A n \in 0..m : o[n] \in Nat /\ b <= o[n]
  <2>1. 0 \in S
    BY <1>1, <1>2, <1>7
  <2>2. ASSUME NEW n \in 0..(m - 1), n \in S
        PROVE  n + 1 \in S
    <3>1. n + 1 \in 0..m /\ o[n] \in Nat /\ b <= o[n]
      BY <1>1, <2>2
    <3>2. o[n + 1] \in Nat /\ b <= o[n + 1]
      BY <1>2, <1>3, <1>7, <3>1
    <3> QED
      BY <3>1, <3>2
  <2> HIDE DEF S
  <2>3. \A n \in 0..m : n \in S
    BY <1>1, <2>1, <2>2, InductionUpTo
  <2> QED
    BY <2>3 DEF S
<1>9. ASSUME NEW i \in Copied
      PROVE  \A n \in 0..m : n >= i => o[i - 1] + size(i) <= o[n]
  <2> DEFINE R == {n \in 0..m : n >= i => o[i - 1] + size(i) <= o[n]}
  <2>1. i \in 1..m /\ i - 1 \in 0..(m - 1) /\ (i - 1) + 1 = i /\ i - 1 \in 0..m
    BY <1>1
  <2>2. o[i] = o[i - 1] + size(i) /\ o[i - 1] \in Nat /\ size(i) \in Nat
    BY <1>3, <1>7, <1>8, <2>1
  <2>3. 0 \in R
    BY <1>1, <2>1
  <2>4. ASSUME NEW n \in 0..(m - 1), n \in R
        PROVE  n + 1 \in R
    <3>1. n + 1 \in 0..m /\ n \in 0..m /\ o[n] \in Nat
      BY <1>1, <1>8
    <3>2. CASE n >= i
      <4>1. o[i - 1] + size(i) <= o[n] /\ o[n] <= o[n + 1]
        BY <1>3, <1>7, <2>4, <3>1, <3>2
      <4>2. o[n + 1] \in Nat
        BY <1>8, <3>1
      <4> QED
        BY <2>2, <3>1, <4>1, <4>2
    <3>3. CASE ~(n >= i) /\ n + 1 >= i
      <4>1. n + 1 = i
        BY <2>1, <3>3
      <4> QED
        BY <2>2, <3>1, <4>1
    <3>4. CASE ~(n + 1 >= i)
      BY <3>1, <3>4
    <3> QED
      BY <3>2, <3>3, <3>4
  <2> HIDE DEF R
  <2>5. \A n \in 0..m : n \in R
    BY <1>1, <2>3, <2>4, InductionUpTo
  <2> QED
    BY <2>5 DEF R
<1>10. \A i \in DOMAIN array : OffsetOf(i) \in Nat /\ b <= OffsetOf(i)
  <2>1. \A i \in DOMAIN array : i - 1 \in 0..m
    BY <1>1
  <2> QED
    BY <1>4, <1>8, <2>1
<1>11. \A i, j \in Copied : i < j => OffsetOf(i) + size(i) <= OffsetOf(j)
  <2>1. SUFFICES ASSUME NEW i \in Copied, NEW j \in Copied, i < j
                 PROVE  o[i - 1] + size(i) <= o[j - 1]
    BY <1>4
  <2>2. j - 1 \in 0..m /\ j - 1 >= i
    BY <1>1, <2>1
  <2> QED
    BY <1>9, <2>2
<1> QED
  BY <1>3, <1>10, <1>11 DEF b, size, m

\* One push: where each entry points, and what was pushed.
LEMMA PushHolds ==
    ASSUME XpointersInv, push_array_of_xpointers
    PROVE  XpointersInv'
<1> DEFINE m == Len(array)
           pod == [i \in DOMAIN array |-> IF i \in Copied THEN NewBlock + OffsetOf(i) ELSE array[i].remote]
<1>1. PICK room \in BOOLEAN, written \in BOOLEAN :
        /\ pushed = "no" \/ (pushed = "failed" /\ room /\ written)
        /\ pushed' = CASE Copied = {} -> "unchanged"
                       [] Copied # {} /\ Copied = DOMAIN array -> "abort"
                       [] OTHER -> IF room /\ written THEN "yes" ELSE "failed"
        /\ words' = IF pushed' = "yes" THEN pod ELSE words
        /\ array' = [i \in DOMAIN array |->
                        IF i \notin Copied THEN array[i]
                        ELSE [array[i] EXCEPT !.remote = IF room THEN pod[i] ELSE OffsetOf(i)]]
        /\ memory' = IF pushed' # "yes" THEN memory
                     ELSE [a \in DOMAIN memory \cup {pod[i] : i \in Copied} |->
                              IF \E i \in Copied : pod[i] = a
                              THEN array[CHOOSE i \in Copied : pod[i] = a].local ELSE memory[a]]
        /\ UNCHANGED <<want, resized, edits>>
  BY DEF push_array_of_xpointers
<1>2. ArrayHeld /\ Unmoved
  BY <1>1 DEF XpointersInv
<1>3. /\ array \in Seq(XPointers) /\ want \in Seq(StringsHeld) /\ Len(want) = m /\ m \in Nat
      /\ DOMAIN array = 1..m /\ DOMAIN want = 1..m
      /\ DOMAIN memory \subseteq 1..MaxArray /\ memory \in [DOMAIN memory -> StringsHeld]
      /\ \A i \in 1..m : Stands(i) /\ array[i] \in XPointers
  BY <1>2 DEF ArrayHeld
<1>4. /\ \A i \in 1..m : OffsetOf(i) \in Nat /\ m * WordSize <= OffsetOf(i)
      /\ \A i \in Copied : SizeOfText[array[i].local] \in Nat \ {0}
      /\ \A i, j \in Copied : i < j => OffsetOf(i) + SizeOfText[array[i].local] <= OffsetOf(j)
  BY <1>2, <1>3, OffsetsApart
<1>5. Copied \subseteq 1..m /\ NewBlock \in Nat /\ NewBlock > MaxArray /\ MaxArray \in Nat
  BY <1>3, XpointersAssumption DEF Copied, NewBlock
<1>6. /\ \A i \in 1..m : pod[i] \in Nat
      /\ \A i \in Copied : pod[i] = NewBlock + OffsetOf(i)
      /\ \A i \in 1..m : i \notin Copied => pod[i] = array[i].remote
  <2>1. \A i \in 1..m : array[i].remote \in Nat
    BY <1>3 DEF XPointers
  <2> QED
    BY <1>3, <1>4, <1>5, <2>1
<1> HIDE DEF pod, m
<1> DEFINE e(i) == [array[i] EXCEPT !.remote = IF room THEN pod[i] ELSE OffsetOf(i)]
<1>7. \A i \in Copied : e(i) \in XPointers /\ e(i).local = array[i].local
  BY <1>3, <1>4, <1>5, <1>6 DEF XPointers
<1>8. array' = [i \in 1..m |-> IF i \notin Copied THEN array[i] ELSE e(i)]
  BY <1>1, <1>3
<1> HIDE DEF e
<1>9. /\ \A i \in 1..m : /\ array'[i] \in XPointers /\ array'[i].local = array[i].local
                         /\ (i \notin Copied => array'[i] = array[i])
      /\ array' \in Seq(XPointers) /\ Len(array') = m /\ DOMAIN array' = 1..m
  <2>1. \A i \in 1..m : /\ array'[i] \in XPointers /\ array'[i].local = array[i].local
                        /\ (i \notin Copied => array'[i] = array[i])
    BY <1>3, <1>7, <1>8
  <2>2. array' = [i \in 1..m |-> array'[i]] /\ m \in Nat
    BY <1>3, <1>8
  <2>3. \A i \in 1..m : array'[i] \in XPointers
    BY <2>1
  <2>4. array' \in Seq(XPointers) /\ Len(array') = m /\ DOMAIN array' = 1..m
    BY <2>2, <2>3
  <2> QED
    BY <2>1, <2>4
<1>10. Copied' = Copied
  <2>1. /\ DOMAIN array' = 1..m /\ DOMAIN array = 1..m
        /\ \A i \in 1..m : array'[i].local = array[i].local
    BY <1>3, <1>9
  <2> QED
    BY <2>1 DEF Copied
<1>11. CASE Copied = {}
  <2>1. pushed' = "unchanged" /\ memory' = memory /\ words' = words /\ want' = want /\ resized' = resized
    BY <1>1, <1>11
  <2>2. ASSUME ~resized
        PROVE  Given = want
    <3>1. ASSUME NEW i \in 1..m
          PROVE  TextAt(words[i]) = want[i]
      <4>1. i \in DOMAIN array /\ i \notin Copied
        BY <1>3, <1>11
      <4>2. array[i].local = NULL
        BY <4>1 DEF Copied
      <4>3. want[i] = TextAt(array[i].remote)
        BY <1>3, <4>2 DEF Stands
      <4> QED
        BY <1>2, <2>2, <4>1, <4>2, <4>3 DEF Unmoved
    <3>2. DOMAIN words = 1..m /\ want = [i \in 1..m |-> want[i]]
      BY <1>2, <1>3, <2>2 DEF Unmoved
    <3> QED
      BY <3>1, <3>2 DEF Given
  <2>3. ~resized' => Given' = want'
    <3>1. Given' = Given
      BY <2>1 DEF Given, TextAt
    <3> QED
      BY <2>1, <2>2, <3>1
  <2> QED
    BY <2>1, <2>3 DEF XpointersInv, ArrayPushed, PushedExact, PushedUnlessSame
<1>12. CASE Copied # {} /\ Copied = DOMAIN array
  <2>1. pushed' = "abort"
    BY <1>1, <1>12
  <2>2. \A i \in 1..m : want[i] # NULL
    BY <1>3, <1>12 DEF Copied, Stands
  <2>3. NULL \notin ToSet(want')
    BY <1>1, <1>3, <2>2 DEF ToSet
  <2> QED
    BY <2>1, <2>3 DEF XpointersInv, ArrayPushed, PushedExact, PushedUnlessSame
<1>13. CASE Copied # {} /\ Copied # DOMAIN array /\ (~room \/ ~written)
  <2>1. pushed' = "failed" /\ memory' = memory /\ words' = words /\ resized' = resized
    BY <1>1, <1>13
  <2>2. ASSUME NEW i \in 1..m
        PROVE  Stands(i)'
    <3>1. /\ Stands(i) /\ want'[i] = want[i] /\ array'[i].local = array[i].local
          /\ i \notin Copied => array'[i] = array[i]
      BY <1>1, <1>3, <1>9
    <3>2. CASE array[i].local # NULL
      BY <3>1, <3>2 DEF Stands
    <3>3. CASE array[i].local = NULL
      <4>1. array'[i] = array[i]
        BY <3>1, <3>3 DEF Copied
      <4>2. /\ array[i].remote \in {0} \cup DOMAIN memory
            /\ want[i] = TextAt(array[i].remote)
        BY <3>1, <3>3 DEF Stands
      <4> QED
        BY <2>1, <3>1, <3>3, <4>1, <4>2 DEF Stands, TextAt
    <3> QED
      BY <3>2, <3>3
  <2>3. ArrayHeld'
    BY <1>1, <1>3, <1>9, <2>1, <2>2 DEF ArrayHeld
  <2>4. Unmoved'
    <3>1. \A i \in 1..m : /\ array'[i].local = array[i].local
                          /\ array[i].local = NULL => array'[i] = array[i]
      BY <1>3, <1>9 DEF Copied
    <3> QED
      BY <1>2, <1>3, <1>9, <2>1, <3>1 DEF Unmoved
  <2> QED
    BY <2>1, <2>3, <2>4 DEF XpointersInv, ArrayPushed, PushedExact, PushedUnlessSame
<1>14. CASE Copied # {} /\ Copied # DOMAIN array /\ room /\ written
  <2>1. pushed' = "yes" /\ words' = pod
    BY <1>1, <1>14
  <2>2. DOMAIN pod = 1..m
    BY <1>3 DEF pod
  <2>3. memory' = [a \in DOMAIN memory \cup {pod[i] : i \in Copied} |->
                      IF \E i \in Copied : pod[i] = a
                      THEN array[CHOOSE i \in Copied : pod[i] = a].local ELSE memory[a]]
    BY <1>1, <2>1
  <2>4. \A i, j \in Copied : i # j => pod[i] # pod[j]
    <3>1. ASSUME NEW i \in Copied, NEW j \in Copied, i < j
          PROVE  pod[i] # pod[j]
      <4>1. /\ OffsetOf(i) \in Nat /\ OffsetOf(j) \in Nat /\ SizeOfText[array[i].local] \in Nat \ {0}
            /\ OffsetOf(i) + SizeOfText[array[i].local] <= OffsetOf(j)
        BY <1>4, <1>5, <3>1
      <4>2. pod[i] = NewBlock + OffsetOf(i) /\ pod[j] = NewBlock + OffsetOf(j) /\ NewBlock \in Nat
        BY <1>5, <1>6
      <4> QED
        BY <4>1, <4>2
    <3>2. \A i, j \in Copied : i # j => i < j \/ j < i
      BY <1>5
    <3> QED
      BY <3>1, <3>2
  <2> DEFINE Text(a) == IF a = 0 THEN NULL ELSE memory'[a]
  <2>5. ASSUME NEW i \in Copied
        PROVE  Text(pod[i]) = want[i]
    <3>1. pod[i] # 0
      BY <1>4, <1>5, <1>6
    <3>2. (CHOOSE j \in Copied : pod[j] = pod[i]) = i
      BY <2>4
    <3>3. memory'[pod[i]] = array[i].local
      BY <2>3, <3>2
    <3>4. array[i].local = want[i]
      BY <1>3, <1>5 DEF Stands, Copied
    <3> QED
      BY <3>1, <3>3, <3>4
  <2>6. ASSUME NEW i \in 1..m, i \notin Copied
        PROVE  Text(pod[i]) = want[i]
    <3>1. pod[i] = array[i].remote /\ pod[i] \in {0} \cup DOMAIN memory /\ want[i] = TextAt(pod[i])
      BY <1>3, <1>6, <2>6 DEF Stands, Copied
    <3>2. pod[i] <= MaxArray
      BY <1>3, <1>5, <3>1
    <3>3. \A j \in Copied : pod[j] # pod[i]
      <4>1. \A j \in Copied : pod[j] > MaxArray /\ pod[j] \in Nat
        BY <1>4, <1>5, <1>6
      <4> QED
        BY <1>5, <1>6, <3>2, <4>1
    <3>4. pod[i] # 0 => memory'[pod[i]] = memory[pod[i]]
      BY <2>3, <3>1, <3>3
    <3> QED
      BY <3>1, <3>4 DEF TextAt
  <2>7. Given' = want'
    <3>1. \A i \in 1..m : Text(pod[i]) = want[i]
      BY <2>5, <2>6
    <3>2. want = [i \in 1..m |-> want[i]]
      BY <1>3
    <3>3. Given' = [i \in 1..m |-> Text(pod[i])]
      BY <2>1, <2>2 DEF Given, TextAt
    <3>4. want' = want
      BY <1>1
    <3> HIDE DEF Text
    <3> QED
      BY <3>1, <3>2, <3>3, <3>4
  <2>8. \A i \in Copied : NewBlock + m * WordSize <= pod[i]
    BY <1>3, <1>4, <1>5, <1>6 DEF WordSize
  <2>9. ASSUME NEW i \in Copied, NEW j \in Copied, i < j
        PROVE  CopySpan(i)' \cap CopySpan(j)' = {}
    <3> DEFINE a == pod[i]
               b == pod[j]
               x == SizeOfText[array[i].local]
               y == SizeOfText[array[j].local]
    <3>1. CopySpan(i)' = a..(a + x - 1) /\ CopySpan(j)' = b..(b + y - 1)
      <4>1. i \in 1..m /\ j \in 1..m
        BY <1>5
      <4>2. array'[i].local = array[i].local /\ array'[j].local = array[j].local
        BY <1>9, <4>1
      <4> QED
        BY <2>1, <4>2 DEF CopySpan
    <3>2. a \in Nat /\ b \in Nat /\ x \in Nat /\ y \in Nat /\ a + x <= b
      <4>1. /\ OffsetOf(i) \in Nat /\ OffsetOf(j) \in Nat
            /\ x \in Nat /\ y \in Nat /\ OffsetOf(i) + x <= OffsetOf(j)
        BY <1>4, <1>5, <2>9
      <4>2. a = NewBlock + OffsetOf(i) /\ b = NewBlock + OffsetOf(j) /\ NewBlock \in Nat
        BY <1>5, <1>6
      <4> HIDE DEF a, b, x, y
      <4> QED
        BY <4>1, <4>2
    <3> HIDE DEF a, b, x, y
    <3> QED
      BY <3>1, <3>2
  <2>10. \A i \in Copied : \A j \in Copied \ {i} : CopySpan(i)' \cap CopySpan(j)' = {}
    <3>1. \A i, j \in Copied : i # j => i < j \/ j < i
      BY <1>5
    <3> QED
      BY <2>9, <3>1
  <2>11. PushedExact'
    BY <1>9, <1>10, <2>1, <2>7, <2>8, <2>10 DEF PushedExact, NewBlock
  <2> QED
    BY <2>1, <2>11 DEF XpointersInv, ArrayPushed, PushedUnlessSame
<1> QED
  BY <1>11, <1>12, <1>13, <1>14

LEMMA XpointersSafe == XpointersSpec => []XpointersInv
<1>1. XpointersInv /\ [XpointersNext]_xvars => XpointersInv'
  <2>1. ASSUME XpointersInv, UNCHANGED xvars
        PROVE  XpointersInv'
    BY <2>1 DEF XpointersInv, ArrayHeld, Unmoved, Stands, TextAt, Given, ArrayPushed, PushedExact, PushedUnlessSame,
                Copied, CopySpan, xvars
  <2> QED
    BY <2>1, FetchHolds, FindHolds, WriteHolds, ResizeHolds, PushHolds DEF XpointersNext
<1> QED
  BY <1>1, ArrayStarts, PTL DEF XpointersSpec

\* Whatever strings an array of the tracee has and however it is edited, what the
\* kernel reads through the words push_array_of_xpointers writes is the edited list.
THEOREM ArrayPushedHolds == XpointersSpec => []ArrayPushed
<1>1. XpointersInv => ArrayPushed
  BY DEF XpointersInv
<1> QED
  BY <1>1, XpointersSafe, PTL

-----------------------------------------------------------------------------
(***************************************************************************)
(* What mem.c says of a transfer is so: the proof of MemoryExact for every *)
(* size of words and pages and any number of buffers.                      *)
(*                                                                         *)
(* A transfer word by word stops at the first word it cannot write, so     *)
(* that what it leaves is a beginning of the block (WriteSays); buffers    *)
(* that are written one after the other leave a beginning of what they     *)
(* hold together (WritevSays, by induction over the buffers). Chunks of a  *)
(* string cover it and each lies in one page (ChunksCover, ChunkSays): up  *)
(* to the one at which the loop is left every byte was read and is not the *)
(* end (BeforeLeaving).                                                    *)
(***************************************************************************)
\* A number of whole words, and the rest.
LEMMA WholeParts ==
    ASSUME NEW n \in Nat, NEW b \in Nat \ {0}
    PROVE  n \div b \in Nat /\ (n \div b) * b <= n /\ n < (n \div b) * b + b
           /\ n % b = n - (n \div b) * b
<1> DEFINE q == n \div b
<1>1. q \in Int /\ n = b * q + (n % b) /\ n % b \in 0..(b - 1)
    OBVIOUS
<1>2. q * b = b * q
    BY <1>1
<1>3. q >= 0
    <2>1. SUFFICES ASSUME q <= -1 PROVE FALSE
        BY <1>1
    <2>2. -q - 1 \in Nat /\ b * (-q - 1) >= 0
        BY <1>1, <2>1
    <2>3. b * (-q - 1) = -(b * q) - b
        BY <1>1
    <2> QED BY <1>1, <2>2, <2>3
<1> QED BY <1>1, <1>2, <1>3

LEMMA FewerParts ==
    ASSUME NEW i \in Nat, NEW k \in Nat, NEW b \in Nat \ {0}, i <= k
    PROVE  i * b \in Nat /\ k * b \in Nat /\ i * b <= k * b
<1>1. k - i \in Nat /\ (k - i) * b >= 0 /\ (k - i) * b = k * b - i * b
    OBVIOUS
<1> QED BY <1>1

\* The words that ptrace can write, one after the other.
LEMMA DoneWords ==
    ASSUME NEW w, NEW dest \in Nat, NEW n \in Nat
    PROVE  LET k == WordsDone(w, dest, n)
           IN  /\ k \in Nat /\ k * WordBytes \in 0..n
               /\ \A i \in 0..(k - 1) : POKEDATA(w, dest + i * WordBytes)
<1> DEFINE m == FullWords(n)
           k == WordsDone(w, dest, n)
           Ok(i) == POKEDATA(w, dest + i * WordBytes)
           Bad == {i \in 0..(m - 1) : ~Ok(i)}
<1>1. WordBytes \in Nat \ {0}
    BY MemoryAssumption
<1>2. m \in Nat /\ m * WordBytes <= n
    BY <1>1, WholeParts DEF FullWords
<1> HIDE DEF m, Ok
<1>3. k = IF \A i \in 0..(m - 1) : Ok(i) THEN m
          ELSE CHOOSE j \in 0..(m - 1) : ~Ok(j) /\ \A i \in 0..(j - 1) : Ok(i)
    BY DEF WordsDone, m, Ok
<1> HIDE DEF k
<1>4. CASE Bad = {}
    <2>1. k = m /\ \A i \in 0..(m - 1) : Ok(i)
        BY <1>3, <1>4
    <2> QED BY <2>1, <1>1, <1>2, FewerParts DEF k, Ok
<1>5. CASE Bad # {}
    <2>1. PICK j \in Bad : \A i \in Bad : j <= i
        <3>1. Bad \in SUBSET Nat
            BY <1>2
        <3> QED BY <3>1, <1>5, LeastNumber
    <2>2. j \in 0..(m - 1) /\ ~Ok(j) /\ \A i \in 0..(j - 1) : Ok(i)
        BY <2>1, <1>2
    <2>3. k \in 0..(m - 1) /\ \A i \in 0..(k - 1) : Ok(i)
        BY <1>3, <2>2
    <2>4. k * WordBytes \in Nat /\ k * WordBytes <= m * WordBytes
        BY <2>3, <1>1, <1>2, FewerParts
    <2>5. k \in Nat /\ k * WordBytes \in 0..n /\ \A i \in 0..(k - 1) : Ok(i)
        BY <2>3, <2>4, <1>1, <1>2
    <2> QED BY <2>5 DEF k, Ok
<1> QED BY <1>4, <1>5

\* A byte of the words done is one of the tracee's.
LEMMA DoneBytes ==
    ASSUME NEW w, NEW dest \in Nat, NEW n \in Nat
    PROVE  Span(dest, WordsDone(w, dest, n) * WordBytes) \subseteq Addresses
<1> DEFINE k == WordsDone(w, dest, n)
<1>1. WordBytes \in Nat \ {0}
    BY MemoryAssumption
<1>2. k \in Nat /\ k * WordBytes \in Nat /\ \A i \in 0..(k - 1) : POKEDATA(w, dest + i * WordBytes)
    BY DoneWords
<1> HIDE DEF k
<1>3. ASSUME NEW x \in Span(dest, k * WordBytes)
      PROVE  x \in Addresses
    <2> DEFINE i == (x - dest) \div WordBytes
    <2>1. x \in Int /\ dest <= x /\ x < dest + k * WordBytes
        BY <1>2 DEF Span
    <2>2. i \in Nat /\ i * WordBytes <= x - dest /\ x - dest < i * WordBytes + WordBytes
        BY <2>1, <1>1, WholeParts
    <2> HIDE DEF i
    <2>3. i < k
        <3>1. SUFFICES ASSUME k <= i PROVE FALSE
            BY <1>2, <2>2
        <3>2. k * WordBytes <= i * WordBytes
            BY <3>1, <1>1, <1>2, <2>2, FewerParts
        <3>3. i * WordBytes \in Nat
            BY <1>1, <2>2
        <3> QED BY <3>2, <3>3, <2>1, <2>2, <1>2
    <2>4. POKEDATA(w, dest + i * WordBytes)
        BY <1>2, <2>2, <2>3
    <2>5. i * WordBytes \in Nat
        BY <2>2, <1>1
    <2>6. x \in Span(dest + i * WordBytes, WordBytes)
        BY <2>1, <2>2, <2>5, <1>1 DEF Span
    <2> QED BY <2>4, <2>6 DEF POKEDATA, Readable
<1> QED BY <1>3 DEF k

LEMMA StoredAt ==
    ASSUME NEW mem, NEW a, NEW bytes, NEW x \in DOMAIN mem
    PROVE  Store(mem, a, bytes)[x] = IF x \in a..(a + Len(bytes) - 1) THEN bytes[x - a + 1] ELSE mem[x]
  BY DEF Store, Span

\* Writing goes on where it ended.
LEMMA StoreOnward ==
    ASSUME NEW mem, NEW a \in Nat, NEW src \in Seq(Int), NEW i \in 0..Len(src), NEW j \in i..Len(src)
    PROVE  Store(Store(mem, a, SubSeq(src, 1, i)), a + i, SubSeq(src, i + 1, j))
              = Store(mem, a, SubSeq(src, 1, j))
<1> DEFINE s == SubSeq(src, 1, i)
           t == SubSeq(src, i + 1, j)
           u == SubSeq(src, 1, j)
<1>1. Len(s) = i /\ \A n \in 1..i : s[n] = src[n]
    OBVIOUS
<1>2. Len(t) = j - i /\ \A n \in 1..(j - i) : t[n] = src[i + n]
    OBVIOUS
<1>3. Len(u) = j /\ \A n \in 1..j : u[n] = src[n]
    OBVIOUS
<1> HIDE DEF s, t, u
<1>4. ASSUME NEW x \in DOMAIN mem
      PROVE  Store(Store(mem, a, s), a + i, t)[x] = Store(mem, a, u)[x]
    <2> DEFINE m == Store(mem, a, s)
    <2>1. m[x] = IF x \in a..(a + i - 1) THEN s[x - a + 1] ELSE mem[x]
        BY <1>1, StoredAt
    <2>2. DOMAIN m = DOMAIN mem
        BY DEF Store
    <2> HIDE DEF m
    <2>3. Store(m, a + i, t)[x] = IF x \in (a + i)..(a + i + (j - i) - 1) THEN t[x - (a + i) + 1] ELSE m[x]
        BY <1>2, <2>2, StoredAt
    <2>4. Store(mem, a, u)[x] = IF x \in a..(a + j - 1) THEN u[x - a + 1] ELSE mem[x]
        BY <1>3, StoredAt
    <2>5. CASE x \in a..(a + i - 1)
        <3>1. x - a + 1 \in 1..i /\ x \notin (a + i)..(a + i + (j - i) - 1) /\ x \in a..(a + j - 1)
            BY <2>5
        <3>2. x - a + 1 \in 1..j
            BY <3>1
        <3> QED BY <3>1, <3>2, <2>1, <2>3, <2>4, <2>5, <1>1, <1>3 DEF m
    <2>6. CASE x \in (a + i)..(a + j - 1)
        <3>1. x - (a + i) + 1 \in 1..(j - i) /\ x - a + 1 \in 1..j /\ x \in a..(a + j - 1)
              /\ x \in (a + i)..(a + i + (j - i) - 1) /\ i + (x - (a + i) + 1) = x - a + 1
            BY <2>6
        <3> QED BY <3>1, <2>3, <2>4, <1>2, <1>3 DEF m
    <2>7. CASE x \notin a..(a + j - 1)
        <3>1. x \notin a..(a + i - 1) /\ x \notin (a + i)..(a + i + (j - i) - 1)
            BY <2>7
        <3> QED BY <3>1, <2>1, <2>3, <2>4, <2>7 DEF m
    <2> QED BY <2>5, <2>6, <2>7
<1>5. Store(Store(mem, a, s), a + i, t) = Store(mem, a, u)
    BY <1>4 DEF Store
<1> QED BY <1>5 DEF s, t, u

\* What a transfer leaves: the block or its beginning, and nothing else.
Wrote(mem, a, src, r, k) ==
    /\ r.mem = Store(mem, a, SubSeq(src, 1, k))
    /\ Span(a, k) \subseteq Addresses
    /\ r.status \in {0, EFAULT_}
    /\ r.status = 0 => k = Len(src)

LEMMA WriteSays ==
    ASSUME NEW w, NEW dest \in Nat, NEW src \in Seq(Int)
    PROVE  /\ \E k \in 0..Len(src) : Wrote(w.mem, dest, src, write_data(w, dest, src), k)
           /\ process_vm_writev(w, dest, Len(src)) => write_data(w, dest, src).status = 0
<1>1. CASE process_vm_writev(w, dest, Len(src))
    <2>1. write_data(w, dest, src) = [status |-> 0, mem |-> Store(w.mem, dest, src)]
        BY <1>1 DEF write_data
    <2>2. SubSeq(src, 1, Len(src)) = src
        OBVIOUS
    <2>3. Span(dest, Len(src)) \subseteq Addresses
        BY <1>1 DEF process_vm_writev, Writable
    <2>4. Wrote(w.mem, dest, src, [status |-> 0, mem |-> Store(w.mem, dest, src)], Len(src))
        BY <2>2, <2>3 DEF Wrote
    <2> QED BY <2>1, <2>4
<1>2. CASE ~process_vm_writev(w, dest, Len(src))
    <2> DEFINE k == WordsDone(w, dest, Len(src)) * WordBytes
    <2>1. k \in 0..Len(src) /\ Span(dest, k) \subseteq Addresses
        BY DoneWords, DoneBytes
    <2>2. write_data(w, dest, src) = [status |-> IF k = Len(src) THEN 0 ELSE EFAULT_,
                                      mem |-> Store(w.mem, dest, SubSeq(src, 1, k))]
        BY <1>2 DEF write_data
    <2> HIDE DEF k
    <2>3. Wrote(w.mem, dest, src, write_data(w, dest, src), k)
        BY <2>1, <2>2 DEF Wrote, EFAULT_
    <2> QED BY <1>2, <2>1, <2>3
<1> QED BY <1>1, <1>2

LEMMA StoreTyped ==
    ASSUME NEW mem \in [Addresses -> Int], NEW a \in Nat, NEW bytes \in Seq(Int)
    PROVE  Store(mem, a, bytes) \in [Addresses -> Int]
<1>1. ASSUME NEW x \in Addresses, x \in a..(a + Len(bytes) - 1)
      PROVE  bytes[x - a + 1] \in Int
    <2>1. x - a + 1 \in 1..Len(bytes)
        BY <1>1
    <2> QED BY <2>1
<1>2. DOMAIN mem = Addresses
    OBVIOUS
<1>3. \A x \in Addresses : Store(mem, a, bytes)[x] \in Int
    BY <1>1, <1>2, StoredAt
<1>4. Store(mem, a, bytes) = [x \in Addresses |-> Store(mem, a, bytes)[x]]
    BY <1>2 DEF Store
<1> QED BY <1>3, <1>4

Results == [status : {0, EFAULT_}, mem : [Addresses -> Int]]

\* One buffer: what was written goes on, or stays as it is.
LEMMA BufferSays ==
    ASSUME NEW m \in [Addresses -> Int], NEW p, NEW v, NEW e, NEW dest \in Nat, NEW src \in Seq(Int),
           NEW ends \in Ends(Len(src)), NEW k \in 1..Len(ends), NEW before \in Results
    PROVE  LET w == [mem |-> m, perm |-> p, vm |-> v, errno |-> e]
               r == write_buffer(w, dest, src, ends, k, before)
               i == StartOf(ends, k)
           IN  /\ r \in Results
               /\ i \in 0..Len(src) /\ ends[k] \in i..Len(src)
               /\ IF before.status < 0 THEN r = before
                  ELSE \E n \in 0..(ends[k] - i) :
                          Wrote(before.mem, dest + i, SubSeq(src, i + 1, ends[k]), r, n)
<1> DEFINE w == [mem |-> m, perm |-> p, vm |-> v, errno |-> e]
           x == [mem |-> before.mem, perm |-> p, vm |-> v, errno |-> e]
           r == write_buffer(w, dest, src, ends, k, before)
           i == StartOf(ends, k)
           part == SubSeq(src, i + 1, ends[k])
<1>1. /\ Len(ends) \in Nat /\ DOMAIN ends = 1..Len(ends) /\ \A j \in 1..Len(ends) : ends[j] \in 0..Len(src)
      /\ \A j, l \in 1..Len(ends) : j <= l => ends[j] <= ends[l]
    BY DEF Ends
<1>2. i \in 0..Len(src) /\ ends[k] \in i..Len(src)
    BY <1>1 DEF StartOf
<1>3. [w EXCEPT !.mem = before.mem] = x
    OBVIOUS
<1>4. r = IF before.status < 0 THEN before ELSE write_data(x, dest + i, part)
    BY <1>3 DEF write_buffer
<1> HIDE DEF w, r, i
<1>5. part \in Seq(Int) /\ Len(part) = ends[k] - i /\ dest + i \in Nat
    BY <1>2
<1> HIDE DEF part
<1>6. CASE before.status < 0
    BY <1>2, <1>4, <1>6 DEF r, w, i, part
<1>7. CASE ~(before.status < 0)
    <2>1. PICK n \in 0..Len(part) : Wrote(x.mem, dest + i, part, write_data(x, dest + i, part), n)
        BY <1>5, WriteSays
    <2>2. Wrote(before.mem, dest + i, part, r, n)
        BY <2>1, <1>4, <1>7
    <2>3. SubSeq(part, 1, n) \in Seq(Int)
        BY <1>5, <2>1
    <2>4. r.mem \in [Addresses -> Int] /\ r.status \in {0, EFAULT_}
        <3>1. before.mem \in [Addresses -> Int]
            BY DEF Results
        <3>2. r.mem = Store(before.mem, dest + i, SubSeq(part, 1, n)) /\ r.status \in {0, EFAULT_}
            BY <2>2 DEF Wrote
        <3> DEFINE x1 == before.mem
                   x2 == dest + i
                   x3 == SubSeq(part, 1, n)
        <3>3. x1 \in [Addresses -> Int] /\ x2 \in Nat /\ x3 \in Seq(Int)
            BY <2>3, <3>1, <1>5
        <3> HIDE DEF x1, x2, x3
        <3>4. Store(x1, x2, x3) \in [Addresses -> Int]
            BY <3>3, StoreTyped
        <3> QED BY <3>2, <3>4 DEF x1, x2, x3
    <2>5. r = [status |-> r.status, mem |-> r.mem]
        BY <1>4, <1>7 DEF write_data
    <2>6. r \in Results
        BY <2>4, <2>5 DEF Results
    <2> QED BY <1>2, <1>5, <1>7, <2>1, <2>2, <2>6 DEF r, w, i, part
<1> QED BY <1>6, <1>7

LEMMA WritevSays ==
    ASSUME NEW m \in [Addresses -> Int], NEW p, NEW v, NEW e, NEW dest \in Nat, NEW src \in Seq(Int),
           NEW ends \in Ends(Len(src))
    PROVE  LET w == [mem |-> m, perm |-> p, vm |-> v, errno |-> e]
               r == writev_data(w, dest, src, ends)
           IN  /\ \E n \in 0..Len(src) : Wrote(m, dest, src, r, n)
               /\ process_vm_writev(w, dest, Len(src)) => r.status = 0
<1> DEFINE w == [mem |-> m, perm |-> p, vm |-> v, errno |-> e]
           r == writev_data(w, dest, src, ends)
           l == Len(ends)
           b == [status |-> 0, mem |-> m]
           At(f, k) == IF k = 0 THEN b ELSE write_buffer(w, dest, src, ends, k, f[k - 1])
           Is(f) == f = [k \in 0..l |-> At(f, k)]
           after == CHOOSE f : Is(f)
           step == [z \in (1..l) \X Results |-> write_buffer(w, dest, src, ends, z[1], z[2])]
<1>1. l \in Nat \ {0} /\ b \in Results /\ ends[l] = Len(src)
    BY DEF Ends, Results
<1>2. step \in [(1..l) \X Results -> Results]
    <2>1. \A k \in 1..l, d \in Results : write_buffer(w, dest, src, ends, k, d) \in Results
        BY BufferSays
    <2> HIDE DEF l, w
    <2> QED BY <2>1
<1>3. r = IF process_vm_writev(w, dest, Len(src)) THEN [status |-> 0, mem |-> Store(m, dest, src)]
          ELSE after[l]
    BY DEF writev_data
<1>4. Is(after)
    <2>1. PICK f \in [0..l -> Results] : IsLoop(f, l, b, step)
        <3> HIDE DEF step, b, l
        <3> QED BY <1>1, <1>2, LoopExists
    <2> HIDE DEF w
    <2>2. \A k \in 0..l : f[k] = IF k = 0 THEN b ELSE step[<<k, f[k - 1]>>]
        BY <2>1 DEF IsLoop
    <2>3. \A k \in 0..l : f[k] = At(f, k)
        <3>1. SUFFICES ASSUME NEW k \in 0..l, k # 0
                       PROVE  f[k] = At(f, k)
            BY <2>2
        <3>2. k \in 1..l /\ k - 1 \in 0..l /\ f[k - 1] \in Results
            BY <1>1, <3>1
        <3> HIDE DEF l
        <3> QED BY <2>2, <3>1, <3>2
    <2>4. Is(f)
        BY <2>1, <2>3
    <2> HIDE DEF At
    <2> QED BY <2>4
<1> HIDE DEF after
<1>5. after[0] = b /\ \A k \in 0..(l - 1) : after[k + 1] = write_buffer(w, dest, src, ends, k + 1, after[k])
    <2> HIDE DEF w, b
    <2>1. \A k \in 0..l : after[k] = At(after, k)
        BY <1>4
    <2>2. ASSUME NEW k \in 0..(l - 1)
          PROVE  after[k + 1] = write_buffer(w, dest, src, ends, k + 1, after[k])
        <3>1. k + 1 \in 0..l /\ k + 1 # 0 /\ (k + 1) - 1 = k
            BY <1>1
        <3> QED BY <2>1, <3>1
    <2>3. after[0] = b
        BY <2>1, <1>1
    <2> QED BY <2>2, <2>3
<1> DEFINE ReadTo(k) == IF k = 0 THEN 0 ELSE ends[k]
           S == {k \in 0..l : /\ after[k] \in Results /\ ReadTo(k) \in 0..Len(src)
                              /\ \E n \in 0..ReadTo(k) :
                                    /\ after[k].mem = Store(m, dest, SubSeq(src, 1, n))
                                    /\ Span(dest, n) \subseteq Addresses
                                    /\ after[k].status = 0 => n = ReadTo(k)}
<1>6. 0 \in S
    <2>1. b.mem = m /\ SubSeq(src, 1, 0) = <<>> /\ Store(m, dest, <<>>) = m
        <3>1. \A x \in DOMAIN m : Store(m, dest, <<>>)[x] = m[x]
            BY StoredAt
        <3>2. Store(m, dest, <<>>) = [x \in DOMAIN m |-> Store(m, dest, <<>>)[x]]
            BY DEF Store
        <3> QED BY <3>1, <3>2
    <2>2. Span(dest, 0) = {}
        BY DEF Span
    <2>3. Len(src) \in Nat
        OBVIOUS
    <2> HIDE DEF w
    <2>4. after[0].mem = Store(m, dest, SubSeq(src, 1, 0))
        BY <1>5, <2>1
    <2> QED BY <1>1, <1>5, <2>2, <2>3, <2>4
<1>7. ASSUME NEW k \in 0..(l - 1), k \in S
      PROVE  k + 1 \in S
    <2> DEFINE a == after[k]
               c == after[k + 1]
               i == StartOf(ends, k + 1)
    <2>1. k + 1 \in 1..l /\ a \in Results
        BY <1>1, <1>7
    <2>2. c = write_buffer(w, dest, src, ends, k + 1, a)
        BY <1>5
    <2>3. /\ c \in Results /\ i \in 0..Len(src) /\ ends[k + 1] \in i..Len(src)
          /\ IF a.status < 0 THEN c = a
             ELSE \E n \in 0..(ends[k + 1] - i) :
                     Wrote(a.mem, dest + i, SubSeq(src, i + 1, ends[k + 1]), c, n)
        <3> HIDE DEF a, c
        <3> DEFINE r0 == write_buffer(w, dest, src, ends, k + 1, a)
        <3>1. /\ r0 \in Results /\ i \in 0..Len(src) /\ ends[k + 1] \in i..Len(src)
              /\ IF a.status < 0 THEN r0 = a
                 ELSE \E n \in 0..(ends[k + 1] - i) :
                         Wrote(a.mem, dest + i, SubSeq(src, i + 1, ends[k + 1]), r0, n)
            BY <2>1, BufferSays, Zenon
        <3>2. c = r0
            BY <2>2
        <3> HIDE DEF r0
        <3> QED BY <3>1, <3>2
    <2>4. i = ReadTo(k) /\ ReadTo(k + 1) = ends[k + 1]
        BY <1>1 DEF StartOf
    <2>5. PICK n \in 0..i : /\ a.mem = Store(m, dest, SubSeq(src, 1, n))
                            /\ Span(dest, n) \subseteq Addresses
                            /\ a.status = 0 => n = i
        BY <1>7, <2>4
    <2> HIDE DEF a, c, i, w
    <2>6. CASE a.status < 0
        <3>1. n \in 0..ends[k + 1] /\ c.mem = Store(m, dest, SubSeq(src, 1, n)) /\ c.status # 0
            BY <2>3, <2>5, <2>6
        <3>2. \E o \in 0..ReadTo(k + 1) :
                  /\ c.mem = Store(m, dest, SubSeq(src, 1, o))
                  /\ Span(dest, o) \subseteq Addresses
                  /\ c.status = 0 => o = ReadTo(k + 1)
            BY <3>1, <2>4, <2>5
        <3>3. c \in Results /\ ReadTo(k + 1) \in 0..Len(src) /\ k + 1 \in 0..l
            BY <2>1, <2>3, <2>4
        <3> QED BY <3>2, <3>3 DEF c
    <2>7. CASE ~(a.status < 0)
        <3>1. a.status = 0 /\ n = i
            BY <2>1, <2>5, <2>7 DEF Results, EFAULT_
        <3>2. PICK o \in 0..(ends[k + 1] - i) :
                    Wrote(a.mem, dest + i, SubSeq(src, i + 1, ends[k + 1]), c, o)
            BY <2>3, <2>7
        <3>3. Len(SubSeq(src, i + 1, ends[k + 1])) = ends[k + 1] - i
            BY <2>3
        <3>4. SubSeq(SubSeq(src, i + 1, ends[k + 1]), 1, o) = SubSeq(src, i + 1, i + o)
            BY <2>3, <3>2
        <3>5. i + o \in 0..ends[k + 1] /\ i + o \in i..Len(src)
            BY <2>3, <3>2
        <3>6. c.mem = Store(Store(m, dest, SubSeq(src, 1, i)), dest + i, SubSeq(src, i + 1, i + o))
            BY <3>1, <3>2, <3>4, <2>5 DEF Wrote
        <3>7. c.mem = Store(m, dest, SubSeq(src, 1, i + o))
            BY <3>5, <3>6, <2>3, StoreOnward
        <3>8. Span(dest, i + o) \subseteq Addresses
            <4>1. Span(dest, i) \subseteq Addresses /\ Span(dest + i, o) \subseteq Addresses
                BY <2>5, <3>1, <3>2 DEF Wrote
            <4> QED BY <4>1, <2>3, <3>2 DEF Span
        <3>9. c.status = 0 => i + o = ends[k + 1]
            <4>1. c.status = 0 => o = Len(SubSeq(src, i + 1, ends[k + 1]))
                BY <3>2 DEF Wrote
            <4>2. c.status = 0 => o = ends[k + 1] - i
                BY <4>1, <3>3
            <4>3. i \in Int /\ ends[k + 1] \in Int
                BY <2>3
            <4> DEFINE y == ends[k + 1]
            <4>4. (c.status = 0 => o = y - i) /\ i \in Int /\ y \in Int
                BY <4>2, <4>3
            <4> HIDE DEF i, y
            <4>5. o = y - i => i + o = y
                BY <4>4
            <4> QED BY <4>4, <4>5 DEF y
        <3>10. \E u \in 0..ReadTo(k + 1) :
                  /\ c.mem = Store(m, dest, SubSeq(src, 1, u))
                  /\ Span(dest, u) \subseteq Addresses
                  /\ c.status = 0 => u = ReadTo(k + 1)
            BY <3>5, <3>7, <3>8, <3>9, <2>4
        <3>11. c \in Results /\ ReadTo(k + 1) \in 0..Len(src) /\ k + 1 \in 0..l
            BY <2>1, <2>3, <2>4
        <3> QED BY <3>10, <3>11 DEF c
    <2> QED BY <2>6, <2>7
<1>8. l \in S
    <2> HIDE DEF S, l
    <2>1. \A k \in 0..l : k \in S
        BY <1>1, <1>6, <1>7, InductionUpTo
    <2> QED BY <2>1, <1>1
<1>9. CASE process_vm_writev(w, dest, Len(src))
    <2>1. r = [status |-> 0, mem |-> Store(m, dest, src)]
        BY <1>3, <1>9
    <2>2. SubSeq(src, 1, Len(src)) = src /\ Span(dest, Len(src)) \subseteq Addresses
        BY <1>9 DEF process_vm_writev, Writable
    <2>3. Wrote(m, dest, src, [status |-> 0, mem |-> Store(m, dest, src)], Len(src))
        BY <2>2 DEF Wrote
    <2> QED BY <2>1, <2>3
<1>10. CASE ~process_vm_writev(w, dest, Len(src))
    <2>1. r = after[l] /\ ReadTo(l) = Len(src)
        BY <1>1, <1>3, <1>10
    <2> HIDE DEF r, w
    <2>2. r \in Results
        BY <2>1, <1>8
    <2>3. PICK n \in 0..Len(src) : /\ r.mem = Store(m, dest, SubSeq(src, 1, n))
                                   /\ Span(dest, n) \subseteq Addresses
                                   /\ r.status = 0 => n = Len(src)
        BY <2>1, <1>8
    <2>4. Wrote(m, dest, src, r, n)
        BY <2>2, <2>3 DEF Wrote, Results
    <2> QED BY <2>4, <1>10 DEF r, w
<1> QED BY <1>9, <1>10

\* A number is one multiple and one rest.
LEMMA PartsAre ==
    ASSUME NEW b \in Nat \ {0}, NEW q \in Nat, NEW r \in 0..(b - 1)
    PROVE  (q * b + r) \div b = q /\ (q * b + r) % b = r
<1> DEFINE x == q * b + r
           d == x \div b
<1>1. q * b \in Nat /\ x \in Nat /\ x = q * b + r
    OBVIOUS
<1> HIDE DEF x
<1>2. d \in Nat /\ d * b <= x /\ x < d * b + b /\ x % b = x - d * b
    BY <1>1, WholeParts
<1> HIDE DEF d
<1>3. d * b \in Nat
    BY <1>2
<1>4. ~(d < q)
    <2>1. SUFFICES ASSUME d + 1 <= q PROVE FALSE
        BY <1>2
    <2>2. (d + 1) * b <= q * b /\ (d + 1) * b = d * b + b
        BY <2>1, <1>2, FewerParts
    <2> QED BY <2>2, <1>1, <1>2, <1>3
<1>5. ~(q < d)
    <2>1. SUFFICES ASSUME q + 1 <= d PROVE FALSE
        BY <1>2
    <2>2. (q + 1) * b <= d * b /\ (q + 1) * b = q * b + b
        BY <2>1, <1>2, FewerParts
    <2> QED BY <2>2, <1>1, <1>2, <1>3
<1>6. d = q
    BY <1>2, <1>4, <1>5
<1> QED BY <1>1, <1>2, <1>6 DEF x, d

LEMMA AddressesArePages ==
    ASSUME NEW x \in Nat
    PROVE  x \in Addresses <=> x \div PageBytes < Pages
<1> DEFINE q == x \div PageBytes
<1>1. PageBytes \in Nat \ {0} /\ Pages \in Nat \ {0}
    BY MemoryAssumption
<1>2. q \in Nat /\ q * PageBytes <= x /\ x < q * PageBytes + PageBytes
    BY <1>1, WholeParts
<1> HIDE DEF q
<1>3. q * PageBytes \in Nat /\ Pages * PageBytes \in Nat
    BY <1>1, <1>2
<1>4. ASSUME q < Pages
      PROVE  x \in Addresses
    <2>1. (q + 1) * PageBytes <= Pages * PageBytes /\ (q + 1) * PageBytes = q * PageBytes + PageBytes
        BY <1>1, <1>2, <1>4, FewerParts
    <2>2. x <= Pages * PageBytes - 1
        BY <2>1, <1>1, <1>2, <1>3
    <2> QED BY <2>2, <1>3 DEF Addresses
<1>5. ASSUME ~(q < Pages)
      PROVE  x \notin Addresses
    <2>1. Pages * PageBytes <= q * PageBytes
        BY <1>1, <1>2, <1>5, FewerParts
    <2> QED BY <2>1, <1>2, <1>3 DEF Addresses
<1> QED BY <1>4, <1>5 DEF q

\* A byte can be read.
Legible(w, x) == x \in Addresses /\ w.perm[x \div PageBytes] # "none"

LEMMA SamePage ==
    ASSUME NEW w, NEW x \in Nat, NEW y \in Nat, x \div PageBytes = y \div PageBytes
    PROVE  Legible(w, x) <=> Legible(w, y)
  BY AddressesArePages DEF Legible

\* A chunk is not empty and lies in one page and in the buffer.
LEMMA ChunkSays ==
    ASSUME NEW src \in Nat, NEW max \in Nat \ {0}, NEW o \in Chunks(src, max)
    PROVE  /\ o \in 0..(max - 1) /\ ChunkSize(src, max, o) \in 1..(max - o)
           /\ \A x \in Span(src + o, ChunkSize(src, max, o)) :
                 x \in Nat /\ x \div PageBytes = (src + o) \div PageBytes
<1> DEFINE n == ChunkSize(src, max, o)
           a == src + o
           r == a % PageBytes
           q == a \div PageBytes
<1>1. PageBytes \in Nat \ {0}
    BY MemoryAssumption
<1>2. o \in 0..(max - 1) /\ a \in Nat
    BY DEF Chunks
<1>3. q \in Nat /\ q * PageBytes \in Nat /\ r = a - q * PageBytes /\ r \in 0..(PageBytes - 1)
    <2>1. a % PageBytes \in 0..(PageBytes - 1)
        BY <1>1, <1>2
    <2> HIDE DEF a
    <2>2. q \in Nat /\ r = a - q * PageBytes
        BY <1>1, <1>2, WholeParts
    <2>3. q * PageBytes \in Nat
        BY <2>2, <1>1
    <2> QED BY <2>1, <2>2, <2>3
<1>4. n = IF PageBytes - r < max - o THEN PageBytes - r ELSE max - o
    BY DEF ChunkSize
<1> HIDE DEF n, r, q, a
<1>5. n \in 1..(max - o) /\ n <= PageBytes - r
    BY <1>1, <1>2, <1>3, <1>4
<1>6. ASSUME NEW x \in Span(a, n)
      PROVE  x \in Nat /\ x \div PageBytes = q
    <2>1. x \in Nat /\ a <= x /\ x <= a + n - 1
        BY <1>2, <1>5 DEF Span
    <2>2. x - q * PageBytes \in 0..(PageBytes - 1) /\ q * PageBytes + (x - q * PageBytes) = x
        BY <2>1, <1>1, <1>2, <1>3, <1>5
    <2>3. (q * PageBytes + (x - q * PageBytes)) \div PageBytes = q
        BY <2>2, <1>1, <1>3, PartsAre
    <2> QED BY <2>1, <2>2, <2>3
<1> QED BY <1>2, <1>5, <1>6 DEF n, q, a

\* Every byte of the buffer is in a chunk that does not begin behind it.
LEMMA ChunksCover ==
    ASSUME NEW src \in Nat, NEW max \in Nat \ {0}, NEW j \in 0..(max - 1)
    PROVE  \E o \in Chunks(src, max) : o <= j /\ src + j \in Span(src + o, ChunkSize(src, max, o))
<1> DEFINE a == src + j
           r == a % PageBytes
           q == a \div PageBytes
<1>1. PageBytes \in Nat \ {0} /\ a \in Nat
    BY MemoryAssumption
<1>2. q \in Nat /\ q * PageBytes \in Nat /\ r = a - q * PageBytes /\ r \in 0..(PageBytes - 1)
    <2>1. a % PageBytes \in 0..(PageBytes - 1)
        BY <1>1
    <2> HIDE DEF a
    <2>2. q \in Nat /\ r = a - q * PageBytes
        BY <1>1, WholeParts
    <2>3. q * PageBytes \in Nat
        BY <2>2, <1>1
    <2> QED BY <2>1, <2>2, <2>3
<1> HIDE DEF r, q
<1>3. CASE r <= j
    <2> DEFINE o == j - r
    <2>1. o \in 0..(max - 1) /\ src + o = q * PageBytes + 0
        BY <1>2, <1>3
    <2>2. (q * PageBytes + 0) % PageBytes = 0
        BY <1>1, <1>2, PartsAre
    <2>3. (src + o) % PageBytes = 0
        BY <2>1, <2>2
    <2> HIDE DEF o
    <2>4. o \in Chunks(src, max)
        BY <2>1, <2>3 DEF Chunks
    <2>5. ChunkSize(src, max, o) = IF PageBytes - 0 < max - o THEN PageBytes - 0 ELSE max - o
        BY <2>3 DEF ChunkSize
    <2>6. j - o = r
        BY <1>2 DEF o
    <2>7. o <= j /\ src + j <= src + o + ChunkSize(src, max, o) - 1 /\ src + o <= src + j
          /\ ChunkSize(src, max, o) \in Int
        BY <2>1, <2>5, <2>6, <1>1, <1>2
    <2> QED BY <2>1, <2>4, <2>7 DEF Span
<1>4. CASE j < r
    <2>1. src = q * PageBytes + (r - j) /\ r - j \in 0..(PageBytes - 1)
        <3> DEFINE y == q * PageBytes
        <3>1. y \in Nat /\ r = a - y /\ r \in 0..(PageBytes - 1)
            BY <1>2
        <3> HIDE DEF y
        <3>2. src = y + (r - j) /\ r - j \in 0..(PageBytes - 1)
            BY <3>1, <1>1, <1>4
        <3> QED BY <3>2 DEF y
    <2>2. (q * PageBytes + (r - j)) % PageBytes = r - j
        BY <2>1, <1>1, <1>2, PartsAre
    <2>3. (src + 0) % PageBytes = r - j
        BY <2>1, <2>2
    <2>4. 0 \in Chunks(src, max)
        BY DEF Chunks
    <2>5. ChunkSize(src, max, 0) = IF PageBytes - (r - j) < max - 0 THEN PageBytes - (r - j) ELSE max - 0
        BY <2>3 DEF ChunkSize
    <2>6. src + j <= src + 0 + ChunkSize(src, max, 0) - 1 /\ ChunkSize(src, max, 0) \in Int
        BY <2>5, <1>1, <1>2
    <2> QED BY <2>4, <2>6 DEF Span
<1> QED BY <1>2, <1>3, <1>4

\* The first zero of a range.
LEMMA ZeroSays ==
    ASSUME NEW w, NEW a \in Nat, NEW n \in Nat
    PROVE  /\ ZeroIn(w, a, n) = 0 => \A i \in 1..n : w.mem[a + i - 1] # 0
           /\ ZeroIn(w, a, n) # 0 => /\ ZeroIn(w, a, n) \in 1..n /\ w.mem[a + ZeroIn(w, a, n) - 1] = 0
                                    /\ \A i \in 1..(ZeroIn(w, a, n) - 1) : w.mem[a + i - 1] # 0
<1> DEFINE zeros == {i \in 1..n : w.mem[a + i - 1] = 0}
           z == ZeroIn(w, a, n)
<1>1. z = IF zeros = {} THEN 0 ELSE CHOOSE i \in zeros : \A j \in zeros : i <= j
    BY DEF ZeroIn
<1>2. CASE zeros = {}
    BY <1>1, <1>2
<1>3. CASE zeros # {}
    <2>1. zeros \in SUBSET Nat
        OBVIOUS
    <2>2. PICK i \in zeros : \A j \in zeros : i <= j
        BY <2>1, <1>3, LeastNumber
    <2>3. z \in zeros /\ \A j \in zeros : z <= j
        <3> HIDE DEF zeros, z
        <3> QED BY <2>2, <1>1, <1>3
    <2> HIDE DEF z
    <2>4. z \in 1..n /\ w.mem[a + z - 1] = 0 /\ \A j \in 1..(z - 1) : j \notin zeros
        BY <2>3
    <2> QED BY <2>4 DEF z
<1> QED BY <1>2, <1>3
\* What comes before the chunk at which the loop is left was read and has no end.
LEMMA BeforeLeaving ==
    ASSUME NEW w, w.vm, NEW src \in Nat, NEW max \in Nat \ {0}, NEW m \in 0..max,
           \A o \in Leaves(w, src, max) : m <= o
    PROVE  \A j \in 0..(m - 1) : Legible(w, src + j) /\ w.mem[src + j] # 0
<1> SUFFICES ASSUME NEW j \in 0..(m - 1)
             PROVE  Legible(w, src + j) /\ w.mem[src + j] # 0
    OBVIOUS
<1>1. j \in 0..(max - 1)
    OBVIOUS
<1>2. PICK o \in Chunks(src, max) : o <= j /\ src + j \in Span(src + o, ChunkSize(src, max, o))
    BY <1>1, ChunksCover
<1> DEFINE n == ChunkSize(src, max, o)
<1>3. o \in 0..(max - 1) /\ n \in 1..(max - o)
    BY <1>2, ChunkSays
<1>4. o \notin Leaves(w, src, max)
    BY <1>2, <1>3
<1>5. process_vm_readv(w, src + o, n) /\ ZeroIn(w, src + o, n) = 0
    BY <1>2, <1>4 DEF Leaves
<1> HIDE DEF n
<1>6. \A i \in 1..n : w.mem[src + o + i - 1] # 0
    <2>1. src + o \in Nat /\ n \in Nat
        BY <1>3
    <2> QED BY <2>1, <1>5, ZeroSays
<1>7. src + j \in Span(src + o, n)
    BY <1>2 DEF n
<1>8. j - o + 1 \in 1..n /\ src + o + (j - o + 1) - 1 = src + j
    BY <1>1, <1>2, <1>3, <1>7 DEF Span
<1>9. w.mem[src + j] # 0
    BY <1>6, <1>8
<1> QED BY <1>5, <1>7, <1>9 DEF process_vm_readv, Readable, Legible

\* Where a string ends, what of it is in the buffer.
EndsAt(w, src, max) == {n \in 1..max : src + n - 1 \in Addresses /\ w.mem[src + n - 1] = 0}

LEMMA StringSays ==
    ASSUME NEW w, w.vm, NEW src \in Nat, NEW max \in Nat \ {0}
    PROVE  LET s == read_string(w, src, max)
               ends == EndsAt(w, src, max)
               size == CHOOSE n \in ends : \A k \in ends : n <= k
               fits == ends # {} /\ \A a \in Span(src, size) : Readable(w, {a})
           IN  /\ s \in Int
               /\ s > 0 => \/ fits /\ s = size
                           \/ ends = {} /\ s = max + 1
               /\ s <= 0 => w.errno \/ ~Readable(w, Span(src, max + WordBytes))
               /\ fits => s = size
<1> DEFINE leaves == Leaves(w, src, max)
           s == read_string(w, src, max)
           ends == EndsAt(w, src, max)
           size == CHOOSE n \in ends : \A k \in ends : n <= k
           fits == ends # {} /\ \A a \in Span(src, size) : Readable(w, {a})
<1>1. WordBytes \in Nat \ {0}
    BY MemoryAssumption
<1>2. \A a : Readable(w, {a}) <=> Legible(w, a)
    BY DEF Readable, Legible
<1>3. ends \in SUBSET Nat /\ ends \subseteq 1..max
    BY DEF EndsAt
<1>4. ends # {} => size \in ends /\ \A k \in ends : size <= k
    <2>1. SUFFICES ASSUME ends # {} PROVE size \in ends /\ \A k \in ends : size <= k
        OBVIOUS
    <2>2. PICK n \in ends : \A k \in ends : n <= k
        BY <2>1, <1>3, LeastNumber
    <2> QED BY <2>2
<1>5. CASE leaves = {}
    <2>1. \A j \in 0..(max - 1) : Legible(w, src + j) /\ w.mem[src + j] # 0
        <3>1. max \in 0..max /\ \A o \in Leaves(w, src, max) : max <= o
            BY <1>5
        <3> QED BY <3>1, BeforeLeaving
    <2>2. ends = {}
        <3>1. SUFFICES ASSUME NEW n \in ends PROVE FALSE
            OBVIOUS
        <3>2. n \in 1..max /\ w.mem[src + n - 1] = 0
            BY <3>1 DEF EndsAt
        <3>3. n - 1 \in 0..(max - 1) /\ src + (n - 1) = src + n - 1
            BY <3>2
        <3> QED BY <3>2, <3>3, <2>1
    <2>3. s = read_again(w, src, max)
        BY <1>5 DEF read_string
    <2>4. CASE w.errno
        <3>1. s = EFAULT_
            BY <2>3, <2>4 DEF read_again
        <3> QED BY <3>1, <2>2, <2>4 DEF EFAULT_
    <2>5. CASE ~w.errno /\ ~PEEKDATA(w, src + FullWords(max) * WordBytes)
        <3>1. s = EFAULT_
            BY <2>3, <2>5 DEF read_again
        <3> DEFINE f == FullWords(max) * WordBytes
        <3>2. f \in Nat /\ f <= max
            <4>1. FullWords(max) \in Nat /\ FullWords(max) * WordBytes <= max
                BY <1>1, WholeParts DEF FullWords
            <4> QED BY <4>1, <1>1
        <3> HIDE DEF f
        <3>3. Span(src + f, WordBytes) \subseteq Span(src, max + WordBytes)
            BY <3>2, <1>1 DEF Span
        <3>4. ~Readable(w, Span(src + f, WordBytes))
            BY <2>5 DEF PEEKDATA, f
        <3>5. ~Readable(w, Span(src, max + WordBytes))
            BY <3>3, <3>4 DEF Readable
        <3> QED BY <3>1, <3>5, <2>2 DEF EFAULT_
    <2>6. CASE ~w.errno /\ PEEKDATA(w, src + FullWords(max) * WordBytes)
        <3>1. s = max + 1
            BY <2>3, <2>6 DEF read_again
        <3> QED BY <3>1, <2>2
    <2> QED BY <2>4, <2>5, <2>6
<1>6. CASE leaves # {}
    <2> DEFINE o == CHOOSE k \in leaves : \A j \in leaves : k <= j
               n == ChunkSize(src, max, o)
    <2>1. leaves \subseteq Chunks(src, max) /\ leaves \in SUBSET Nat
        BY DEF Leaves, Chunks
    <2>2. o \in leaves /\ \A j \in leaves : o <= j
        <3>1. PICK k \in leaves : \A j \in leaves : k <= j
            BY <2>1, <1>6, LeastNumber
        <3> HIDE DEF leaves
        <3> QED BY <3>1
    <2>3. s = IF process_vm_readv(w, src + o, n) THEN o + ZeroIn(w, src + o, n) ELSE EFAULT_
        BY <1>6 DEF read_string
    <2> HIDE DEF o, s
    <2>4. /\ o \in 0..(max - 1) /\ n \in 1..(max - o)
          /\ \A x \in Span(src + o, n) : x \in Nat /\ x \div PageBytes = (src + o) \div PageBytes
        BY <2>1, <2>2, ChunkSays
    <2>5. ~process_vm_readv(w, src + o, n) \/ ZeroIn(w, src + o, n) # 0
        BY <2>2 DEF Leaves
    <2> HIDE DEF n
    <2>6. \A j \in 0..(o - 1) : Legible(w, src + j) /\ w.mem[src + j] # 0
        <3>1. o \in 0..max /\ \A k \in Leaves(w, src, max) : o <= k
            BY <2>2, <2>4
        <3> QED BY <3>1, BeforeLeaving
    <2>7. CASE ~process_vm_readv(w, src + o, n)
        <3>1. s = EFAULT_
            BY <2>3, <2>7
        <3>2. PICK x \in Span(src + o, n) : ~Legible(w, x)
            BY <2>7 DEF process_vm_readv, Readable, Legible
        <3>3. ~Legible(w, src + o)
            <4>1. x \in Nat /\ src + o \in Nat /\ x \div PageBytes = (src + o) \div PageBytes
                BY <2>4
            <4> QED BY <3>2, <4>1, SamePage
        <3>4. ~fits
            <4>1. SUFFICES ASSUME fits PROVE FALSE
                OBVIOUS
            <4>2. size \in 1..max /\ w.mem[src + size - 1] = 0 /\ \A a \in Span(src, size) : Legible(w, a)
                <5>1. size \in ends /\ \A a \in Span(src, size) : Readable(w, {a})
                    BY <4>1, <1>4
                <5>2. size \in EndsAt(w, src, max)
                    BY <5>1
                <5>3. size \in 1..max /\ w.mem[src + size - 1] = 0
                    BY <5>2 DEF EndsAt
                <5> QED BY <5>1, <5>3, <1>2
            <4>3. ~(size - 1 < o)
                <5>1. SUFFICES ASSUME size - 1 < o PROVE FALSE
                    OBVIOUS
                <5>2. size - 1 \in 0..(o - 1) /\ src + (size - 1) = src + size - 1
                    BY <5>1, <4>2, <2>4
                <5> QED BY <5>2, <4>2, <2>6
            <4>4. src + o \in Span(src, size)
                BY <4>2, <4>3, <2>4 DEF Span
            <4> QED BY <4>2, <4>4, <3>3
        <3>5. src + o \in Span(src, max + WordBytes)
            BY <2>4, <1>1 DEF Span
        <3>6. ~Readable(w, Span(src, max + WordBytes))
            BY <3>3, <3>5 DEF Readable, Legible
        <3> QED BY <3>1, <3>4, <3>6 DEF EFAULT_, s
    <2>8. CASE process_vm_readv(w, src + o, n)
        <3> DEFINE z == ZeroIn(w, src + o, n)
        <3>1. z # 0 /\ s = o + z
            BY <2>3, <2>5, <2>8
        <3>2. /\ z \in 1..n /\ w.mem[src + o + z - 1] = 0
              /\ \A i \in 1..(z - 1) : w.mem[src + o + i - 1] # 0
            <4>1. src + o \in Nat /\ n \in Nat
                BY <2>4
            <4> QED BY <4>1, <3>1, ZeroSays
        <3> HIDE DEF z
        <3>3. \A x \in Span(src + o, n) : Legible(w, x)
            BY <2>8 DEF process_vm_readv, Readable, Legible
        <3>4. s \in 1..max /\ src + o + z - 1 = src + s - 1
            BY <3>1, <3>2, <2>4
        <3>5. \A a \in Span(src, s) : Legible(w, a)
            <4>1. SUFFICES ASSUME NEW a \in Span(src, s) PROVE Legible(w, a)
                OBVIOUS
            <4>2. a \in Int /\ src <= a /\ a <= src + s - 1
                BY <3>4 DEF Span
            <4>3. CASE a < src + o
                <5>1. a - src \in 0..(o - 1) /\ src + (a - src) = a
                    BY <4>2, <4>3, <2>4
                <5> QED BY <5>1, <2>6
            <4>4. CASE src + o <= a
                <5>1. a \in Span(src + o, n)
                    BY <4>2, <4>4, <2>4, <3>1, <3>2 DEF Span
                <5> QED BY <5>1, <3>3
            <4> QED BY <4>2, <4>3, <4>4, <2>4
        <3>6. s \in ends
            <4>1. src + s - 1 \in Span(src, s)
                BY <3>4 DEF Span
            <4> QED BY <4>1, <3>2, <3>4, <3>5 DEF EndsAt, Legible
        <3>7. ASSUME NEW k \in ends
              PROVE  s <= k
            <4>1. k \in 1..max /\ w.mem[src + k - 1] = 0
                BY DEF EndsAt
            <4>2. SUFFICES ASSUME k < s PROVE FALSE
                BY <4>1, <3>4
            <4>3. CASE k - 1 < o
                <5>1. k - 1 \in 0..(o - 1) /\ src + (k - 1) = src + k - 1
                    BY <4>1, <4>3, <2>4
                <5> QED BY <5>1, <4>1, <2>6
            <4>4. CASE o <= k - 1
                <5>1. k - o \in 1..(z - 1) /\ src + o + (k - o) - 1 = src + k - 1
                    BY <4>1, <4>2, <4>4, <3>1, <3>2, <2>4
                <5> QED BY <5>1, <4>1, <3>2
            <4> QED BY <4>1, <4>3, <4>4, <2>4
        <3>8. size = s
            BY <3>4, <3>6, <3>7, <1>3, <1>4
        <3>9. fits
            BY <3>5, <3>6, <3>8, <1>2
        <3> QED BY <3>4, <3>8, <3>9 DEF s
    <2> QED BY <2>7, <2>8
<1> QED BY <1>5, <1>6

LEMMA WriteTrial ==
    ASSUME NEW w, NEW a \in Nat, NEW src \in Seq(Int), NEW r,
           \E k \in 0..Len(src) : Wrote(w.mem, a, src, r, k),
           process_vm_writev(w, a, Len(src)) => r.status = 0,
           Try("write", [w |-> w, at |-> a, src |-> src], r)
    PROVE  MemoryExact'
<1>1. trial' = [op |-> "write", in |-> [w |-> w, at |-> a, src |-> src], out |-> r]
    BY DEF Try
<1>2. WriteExact'
    <2>1. PICK k \in 0..Len(src) : Wrote(w.mem, a, src, r, k)
        OBVIOUS
    <2>2. /\ r.mem = Store(w.mem, a, SubSeq(src, 1, k)) /\ Span(a, k) \subseteq Addresses
          /\ r.status = 0 => k = Len(src)
        BY <2>1 DEF Wrote
    <2> QED BY <1>1, <2>2 DEF WriteExact
<1>3. ReadExact' /\ StringExact' /\ WordExact'
    BY <1>1 DEF ReadExact, StringExact, WordExact
<1> QED BY <1>2, <1>3 DEF MemoryExact

\* The world a call is tried in.
LEMMA WorldIs ==
    ASSUME NEW perm, NEW zeros, NEW vm, NEW errno
    PROVE  \E m \in [Addresses -> Int] :
              World(perm, zeros, vm, errno) = [mem |-> m, perm |-> perm, vm |-> vm, errno |-> errno]
<1>1. [a \in Addresses |-> IF a \in zeros THEN 0 ELSE 1] \in [Addresses -> Int]
    OBVIOUS
<1> QED BY <1>1 DEF World

LEMMA WriteDataExact == WriteData => MemoryExact'
<1>1. SUFFICES ASSUME NEW perm, NEW vm, NEW a \in Addresses, NEW n \in 0..MaxBytes, NEW w,
                      Try("write", [w |-> w, at |-> a, src |-> Block(n)], write_data(w, a, Block(n)))
               PROVE  MemoryExact'
    BY DEF WriteData
<1>2. a \in Nat /\ Block(n) \in Seq(Int)
    BY MemoryAssumption DEF Addresses, Block
<1> HIDE DEF Block
<1> QED BY <1>1, <1>2, WriteSays, WriteTrial

LEMMA ClearMemExact == ClearMem => MemoryExact'
<1>1. SUFFICES ASSUME NEW perm, NEW a \in Addresses, NEW n \in 1..MaxBytes, NEW w,
                      Try("write", [w |-> w, at |-> a, src |-> [i \in 1..n |-> 0]], clear_mem(w, a, n))
               PROVE  MemoryExact'
    BY DEF ClearMem
<1> DEFINE src == [i \in 1..n |-> 0]
<1>2. a \in Nat /\ src \in Seq(Int) /\ clear_mem(w, a, n) = write_data(w, a, src)
    BY MemoryAssumption DEF Addresses, clear_mem
<1>3. Try("write", [w |-> w, at |-> a, src |-> src], write_data(w, a, src))
    BY <1>1, <1>2
<1> HIDE DEF src
<1> QED BY <1>2, <1>3, WriteSays, WriteTrial

LEMMA WritevDataExact == WritevData => MemoryExact'
<1>1. SUFFICES ASSUME NEW perm, NEW vm, NEW a \in Addresses, NEW n \in 1..MaxBytes,
                      NEW ends \in Ends(n),
                      Try("write", [w |-> World(perm, {}, vm, FALSE), at |-> a, src |-> Block(n)],
                          writev_data(World(perm, {}, vm, FALSE), a, Block(n), ends))
               PROVE  MemoryExact'
    BY DEF WritevData
<1> DEFINE src == Block(n)
<1>2. a \in Nat /\ src \in Seq(Int) /\ Len(src) = n
    BY MemoryAssumption DEF Addresses, Block
<1>3. PICK m \in [Addresses -> Int] :
          World(perm, {}, vm, FALSE) = [mem |-> m, perm |-> perm, vm |-> vm, errno |-> FALSE]
    <2> DEFINE g == [x \in Addresses |-> IF x \in {} THEN 0 ELSE 1]
    <2>1. g \in [Addresses -> Int]
        OBVIOUS
    <2>2. World(perm, {}, vm, FALSE) = [mem |-> g, perm |-> perm, vm |-> vm, errno |-> FALSE]
        BY DEF World
    <2> HIDE DEF g
    <2> QED BY <2>1, <2>2
<1> DEFINE w == [mem |-> m, perm |-> perm, vm |-> vm, errno |-> FALSE]
           r == writev_data(w, a, src, ends)
<1>4. Try("write", [w |-> w, at |-> a, src |-> src], r)
    BY <1>1, <1>3
<1>5. ends \in Ends(Len(src))
    BY <1>2
<1> HIDE DEF src
<1>6. /\ \E k \in 0..Len(src) : Wrote(m, a, src, r, k)
      /\ process_vm_writev(w, a, Len(src)) => r.status = 0
    BY <1>2, <1>5, WritevSays
<1>7. w.mem = m
    OBVIOUS
<1> HIDE DEF w, r
<1> QED BY <1>2, <1>4, <1>6, <1>7, WriteTrial

LEMMA ReadDataExact == ReadData => MemoryExact'
<1>1. SUFFICES ASSUME NEW a \in Addresses, NEW n \in 0..MaxBytes, NEW w,
                      Try("read", [w |-> w, at |-> a, n |-> n], read_data(w, a, n))
               PROVE  MemoryExact'
    BY DEF ReadData
<1> DEFINE r == read_data(w, a, n)
<1>2. trial' = [op |-> "read", in |-> [w |-> w, at |-> a, n |-> n], out |-> r]
    BY <1>1 DEF Try
<1>3. r.status = 0 => Readable(w, Span(a, n)) /\ r.dest = Bytes(w, a, n)
    <2>1. CASE process_vm_readv(w, a, n)
        BY <2>1 DEF read_data, process_vm_readv
    <2>2. CASE ~process_vm_readv(w, a, n)
        <3>1. r = [status |-> IF n = 0 THEN 0 ELSE EFAULT_, dest |-> <<>>]
            BY <2>2 DEF read_data
        <3>2. Span(a, 0) = {} /\ Bytes(w, a, 0) = <<>>
            BY MemoryAssumption DEF Span, Bytes, Addresses
        <3> QED BY <3>1, <3>2 DEF EFAULT_, Readable
    <2> QED BY <2>1, <2>2
<1>4. process_vm_readv(w, a, n) => r.status = 0
    BY DEF read_data
<1> HIDE DEF r
<1>5. ReadExact'
    BY <1>2, <1>3, <1>4 DEF ReadExact
<1>6. WriteExact' /\ StringExact' /\ WordExact'
    BY <1>2 DEF WriteExact, StringExact, WordExact
<1> QED BY <1>5, <1>6 DEF MemoryExact

LEMMA ReadStringExact == ReadString => MemoryExact'
<1>1. SUFFICES ASSUME NEW perm, NEW errno \in BOOLEAN, NEW a \in Addresses, NEW z \in Addresses,
                      NEW max \in 1..MaxBytes,
                      Try("string", [w |-> World(perm, {z}, TRUE, errno), at |-> a, max |-> max],
                          [size |-> read_string(World(perm, {z}, TRUE, errno), a, max),
                           path |-> read_path(World(perm, {z}, TRUE, errno), a, max)])
               PROVE  MemoryExact'
    <2> SUFFICES ASSUME ReadString PROVE MemoryExact'
        OBVIOUS
    <2>1. PICK perm \in [0..(Pages - 1) -> {"none", "r"}], errno \in BOOLEAN, a, z \in Addresses,
               max \in 1..MaxBytes :
              LET w == World(perm, {z}, TRUE, errno)
              IN  Try("string", [w |-> w, at |-> a, max |-> max],
                      [size |-> read_string(w, a, max), path |-> read_path(w, a, max)])
        BY DEF ReadString
    <2> QED BY <2>1
<1> DEFINE w == World(perm, {z}, TRUE, errno)
           s == read_string(w, a, max)
           ends == EndsAt(w, a, max)
           size == CHOOSE n \in ends : \A k \in ends : n <= k
           fits == ends # {} /\ \A x \in Span(a, size) : Readable(w, {x})
<1>2. a \in Nat /\ max \in Nat \ {0} /\ w.vm
    BY MemoryAssumption DEF Addresses, World
<1> HIDE DEF w
<1>3. /\ s \in Int
      /\ s > 0 => \/ fits /\ s = size
                  \/ ends = {} /\ s = max + 1
      /\ s <= 0 => w.errno \/ ~Readable(w, Span(a, max + WordBytes))
      /\ fits => s = size
    BY <1>2, StringSays
<1>4. read_path(w, a, max) = IF s >= max THEN -36 ELSE s
    BY DEF read_path
<1>5. trial' = [op |-> "string", in |-> [w |-> w, at |-> a, max |-> max],
                out |-> [size |-> s, path |-> read_path(w, a, max)]]
    BY <1>1 DEF Try, w
<1> HIDE DEF s
<1>6. read_path(w, a, max) < max
    BY <1>2, <1>3, <1>4
<1>7. StringExact'
    BY <1>3, <1>5, <1>6 DEF StringExact, EndsAt
<1>8. WriteExact' /\ ReadExact' /\ WordExact'
    BY <1>5 DEF WriteExact, ReadExact, WordExact
<1> QED BY <1>7, <1>8 DEF MemoryExact

LEMMA WordsExact == PeekWord \/ PokeWord => MemoryExact'
<1>1. ASSUME NEW w, NEW half, NEW a,
             Try("peek", [w |-> w, at |-> a, n |-> sizeof_word(half)], peek_word(w, a, half))
      PROVE  MemoryExact'
    <2> DEFINE n == sizeof_word(half)
               r == peek_word(w, a, half)
    <2>1. trial' = [op |-> "peek", in |-> [w |-> w, at |-> a, n |-> n], out |-> r]
        BY <1>1 DEF Try
    <2>2. IF r.errno = 0 THEN r.value = Bytes(w, a, n) ELSE ~Readable(w, Span(a, WordBytes))
        BY DEF peek_word, PEEKDATA
    <2> HIDE DEF n, r
    <2>3. WordExact'
        BY <2>1, <2>2 DEF WordExact
    <2>4. WriteExact' /\ ReadExact' /\ StringExact'
        BY <2>1 DEF WriteExact, ReadExact, StringExact
    <2> QED BY <2>3, <2>4 DEF MemoryExact
<1>2. ASSUME NEW w, NEW half, NEW a,
             Try("poke", [w |-> w, at |-> a, n |-> sizeof_word(half), src |-> Block(WordBytes)],
                 poke_word(w, a, Block(WordBytes), half))
      PROVE  MemoryExact'
    <2> DEFINE n == sizeof_word(half)
               src == Block(WordBytes)
               r == poke_word(w, a, src, half)
    <2>1. trial' = [op |-> "poke", in |-> [w |-> w, at |-> a, n |-> n, src |-> src], out |-> r]
        BY <1>2 DEF Try
    <2> HIDE DEF src
    <2>2. IF r.errno = 0 THEN r.mem = Store(w.mem, a, SubSeq(src, 1, n))
          ELSE r.mem = w.mem /\ ~Readable(w, Span(a, WordBytes))
        BY DEF poke_word, POKEDATA
    <2> HIDE DEF n, r
    <2>3. WordExact'
        BY <2>1, <2>2 DEF WordExact
    <2>4. WriteExact' /\ ReadExact' /\ StringExact'
        BY <2>1 DEF WriteExact, ReadExact, StringExact
    <2> QED BY <2>3, <2>4 DEF MemoryExact
<1> QED BY <1>1, <1>2 DEF PeekWord, PokeWord

\* mem.c: a transfer is what was asked for or says that it failed, for every
\* size of words and pages, every protection of the pages and any number of
\* buffers.
THEOREM MemoryExactHolds == MemorySpec => []MemoryExact
<1>1. TrialInit => MemoryExact
    BY DEF TrialInit, NoTrial, MemoryExact, WriteExact, ReadExact, StringExact, WordExact
<1>2. MemoryExact /\ [MemoryNext]_trial => MemoryExact'
    <2> SUFFICES ASSUME MemoryExact, [MemoryNext]_trial PROVE MemoryExact'
        OBVIOUS
    <2>1. CASE UNCHANGED trial
        <3>1. WriteExact'
            BY <2>1 DEF MemoryExact, WriteExact
        <3>2. ReadExact'
            BY <2>1 DEF MemoryExact, ReadExact
        <3>3. StringExact'
            BY <2>1 DEF MemoryExact, StringExact
        <3>4. WordExact'
            BY <2>1 DEF MemoryExact, WordExact
        <3> QED BY <3>1, <3>2, <3>3, <3>4 DEF MemoryExact
    <2>2. CASE MemoryNext
        BY <2>2, WriteDataExact, WritevDataExact, ClearMemExact, ReadDataExact, ReadStringExact,
           WordsExact DEF MemoryNext
    <2> QED BY <2>1, <2>2
<1> QED BY <1>1, <1>2, PTL DEF MemorySpec

-----------------------------------------------------------------------------
(***************************************************************************)
(* A request of a ptracer moves what it names: the proof of RequestsExact  *)
(* for register sets of every size. Each request is one of get_request,    *)
(* set_request and poke_request, or a vector, and each of these has a      *)
(* lemma; the table of user.c is compared with the names (Places).         *)
(***************************************************************************)
\* A call of a ptracer: its request and the world it finds.
Request(request, address, half, kernel, bad, length) ==
    [request |-> request, address |-> address, half |-> half, kernel |-> kernel,
     data |-> <<length, IF half THEN 0 ELSE 2>>, stack |-> 999,
     memory |-> [n \in 1..4 |-> IF n = bad THEN RequestFault ELSE 0]]
Asker(length) ==
    [status |-> 0, length |-> length, block |-> [n \in 1..60 |-> 700 + n], ptracee |-> Stopped]

\* What RequestExact says of a result, with the size of what there is to get.
ExactUpTo(r, w, out, size) ==
    /\ r.kernel # 0 => out.status # 0
    /\ r.memory[1] # 0 => out.status # 0 \/ r.request \in {"POKEUSER", "POKEDATA", "SET_SYSCALL"}
    /\ out.status # 0 =>
          /\ out.ptracee = Stopped
          /\ out.block # w.block => r.request = "GETREGSET" /\ r.memory[4] # 0
          /\ out.status = -1 => r.request \in {"GETREGSET", "SETREGSET"}
    /\ IF Got(r) THEN out.ptracee = Stopped
       ELSE out.block = w.block /\ out.length = w.length
    /\ \A n \in (size + 1)..60 : out.block[n] = w.block[n]

SizeOf(r, w) ==
    CASE r.request \in {"PEEKUSER", "PEEKDATA", "GETEVENTMSG", "ARCH_PRCTL"} -> IF r.half THEN 1 ELSE 2
      [] r.request = "GETREGS" -> IF r.half THEN USER32_NB_REGS ELSE 2 * NbRegs
      [] r.request = "GETFPREGS" /\ r.half -> USER32_NB_FPREGS
      [] r.request = "GETREGSET" -> Shorter(w.length, SetSize)
      [] OTHER -> 2

\* The request and the world of a call are these.
Asked(r, w) ==
    /\ r.kernel \in {0, EIO} /\ r.half \in BOOLEAN
    /\ \A n \in 1..4 : r.memory[n] \in {0, RequestFault}
    /\ w = [status |-> 0, length |-> w.length, block |-> w.block, ptracee |-> Stopped]
    /\ w.block = [n \in 1..60 |-> 700 + n]
    /\ w.length \in Nat

\* A request that was refused changes nothing.
LEMMA FailedExact ==
    ASSUME NEW r, NEW w, Asked(r, w), NEW status \in {-EIO, -RequestFault, -ENOTSUP, -1}, NEW size,
           status = -1 => r.request \in {"GETREGSET", "SETREGSET"}
    PROVE  ExactUpTo(r, w, Failed(w, status), size)
<1>1. Failed(w, status) = [status |-> status, length |-> w.length, block |-> w.block, ptracee |-> Stopped]
    BY DEF Failed, Asked
<1>2. status # 0
    BY DEF EIO, RequestFault, ENOTSUP
<1> QED BY <1>1, <1>2 DEF ExactUpTo

\* What is got is not more than there is.
Fits(halves, size) == \A n \in Nat : n > size => ~(n <= Len(halves))

LEMMA GetExact ==
    ASSUME NEW r, NEW w, Asked(r, w), Got(r), NEW halves, NEW size \in Nat, Fits(halves, size)
    PROVE  ExactUpTo(r, w, get_request(w, r, halves), size)
<1>1. CASE r.kernel # 0
    <2>1. -r.kernel = -EIO /\ -r.kernel # -1
        BY <1>1 DEF Asked, EIO
    <2> QED BY <1>1, <2>1, FailedExact DEF get_request
<1>2. CASE r.kernel = 0 /\ r.memory[1] # 0
    <2>1. -r.memory[1] = -RequestFault /\ -r.memory[1] # -1
        BY <1>2 DEF Asked, RequestFault
    <2> QED BY <1>2, <2>1, FailedExact DEF get_request
<1>3. CASE r.kernel = 0 /\ r.memory[1] = 0
    <2>1. get_request(w, r, halves) =
             [status |-> 0, length |-> w.length, block |-> Overlay(w.block, halves), ptracee |-> Stopped]
        BY <1>3 DEF get_request, Asked
    <2>2. \A n \in (size + 1)..60 : Overlay(w.block, halves)[n] = w.block[n]
        <3>1. SUFFICES ASSUME NEW n \in (size + 1)..60 PROVE Overlay(w.block, halves)[n] = w.block[n]
            OBVIOUS
        <3>2. n \in Nat /\ n > size /\ n \in DOMAIN w.block
            BY DEF Asked
        <3>3. ~(n <= Len(halves))
            BY <3>2 DEF Fits
        <3> QED BY <3>2, <3>3 DEF Overlay
    <2> QED BY <1>3, <2>1, <2>2 DEF ExactUpTo
<1> QED BY <1>1, <1>2, <1>3

LEMMA SetExact ==
    ASSUME NEW r, NEW w, Asked(r, w), ~Got(r), NEW ptracee, NEW size
    PROVE  ExactUpTo(r, w, set_request(w, r, ptracee), size)
<1>1. CASE r.memory[1] # 0
    <2>1. -r.memory[1] = -RequestFault /\ -r.memory[1] # -1
        BY <1>1 DEF Asked, RequestFault
    <2> QED BY <1>1, <2>1, FailedExact DEF set_request
<1>2. CASE r.memory[1] = 0 /\ r.kernel # 0
    <2>1. -r.kernel = -EIO /\ -r.kernel # -1
        BY <1>2 DEF Asked, EIO
    <2> QED BY <1>2, <2>1, FailedExact DEF set_request
<1>3. CASE r.memory[1] = 0 /\ r.kernel = 0
    <2>1. set_request(w, r, ptracee) =
             [status |-> 0, length |-> w.length, block |-> w.block, ptracee |-> ptracee]
        BY <1>3 DEF set_request, Asked
    <2> QED BY <1>3, <2>1 DEF ExactUpTo
<1> QED BY <1>1, <1>2, <1>3

LEMMA PokeExact ==
    ASSUME NEW r, NEW w, Asked(r, w), r.request \in {"POKEUSER", "POKEDATA", "SET_SYSCALL"},
           NEW ptracee, NEW size
    PROVE  ExactUpTo(r, w, poke_request(w, r, ptracee), size)
<1>1. ~Got(r)
    BY DEF Got
<1>2. CASE r.kernel # 0
    <2>1. -r.kernel = -EIO /\ -r.kernel # -1
        BY <1>2 DEF Asked, EIO
    <2> QED BY <1>2, <2>1, FailedExact DEF poke_request
<1>3. CASE r.kernel = 0
    <2>1. poke_request(w, r, ptracee) =
             [status |-> 0, length |-> w.length, block |-> w.block, ptracee |-> ptracee]
        BY <1>3 DEF poke_request, Asked
    <2> QED BY <1>1, <1>3, <2>1 DEF ExactUpTo
<1> QED BY <1>2, <1>3

\* The first of the errors is one of them.
LEMMA FirstErrorSays ==
    ASSUME NEW r, NEW w, Asked(r, w), NEW n \in {2, 3}
    PROVE  /\ FirstError(r, n) \in {0, RequestFault}
           /\ FirstError(r, n) = 0 => r.memory[1] = 0
<1>1. CASE \A k \in 1..n : r.memory[k] = 0
    BY <1>1 DEF FirstError
<1>2. CASE \E k \in 1..n : r.memory[k] # 0
    <2> DEFINE First(k) == r.memory[k] # 0 /\ \A j \in 1..(k - 1) : r.memory[j] = 0
    <2>1. \E k \in 1..n : First(k)
        <3>1. CASE r.memory[1] # 0
            <4>1. 1 \in 1..n /\ First(1)
                BY <3>1
            <4> QED BY <4>1
        <3>2. CASE r.memory[1] = 0 /\ r.memory[2] # 0
            <4>1. 2 \in 1..n /\ First(2)
                BY <3>2
            <4> QED BY <4>1
        <3>3. CASE r.memory[1] = 0 /\ r.memory[2] = 0
            <4>1. 3 \in 1..n /\ First(3)
                BY <3>3, <1>2
            <4> QED BY <4>1
        <3> QED BY <3>1, <3>2, <3>3
    <2> DEFINE c == CHOOSE k \in 1..n : First(k)
    <2>2. FirstError(r, n) = r.memory[c]
        BY <1>2 DEF FirstError
    <2>3. c \in 1..n /\ First(c)
        BY <2>1
    <2> HIDE DEF c
    <2> QED BY <2>2, <2>3 DEF Asked, RequestFault
<1> QED BY <1>1, <1>2

LEMMA GetRegsetExact ==
    ASSUME NEW r, NEW w, Asked(r, w), r.request = "GETREGSET"
    PROVE  ExactUpTo(r, w, get_regset(w, r), Shorter(w.length, SetSize))
<1> DEFINE length == Shorter(w.length, SetSize)
           set == SubSeq(Stopped.set, 1, length)
           out == get_regset(w, r)
<1>1. Got(r) /\ FirstError(r, 2) \in {0, RequestFault} /\ (FirstError(r, 2) = 0 => r.memory[1] = 0)
    BY FirstErrorSays DEF Got
<1>2. length \in Nat /\ length <= SetSize
    BY RequestsAssumption DEF Shorter, Asked
<1>3. Fits(set, length)
    <2>1. Stopped.set \in Seq(Int) /\ Len(Stopped.set) = SetSize
        BY RequestsAssumption DEF Stopped
    <2> HIDE DEF length
    <2>2. Len(set) = length
        BY <2>1, <1>2
    <2> QED BY <2>2, <1>2 DEF Fits
<1>4. \A n \in (length + 1)..60 : Overlay(w.block, set)[n] = w.block[n]
    <2> HIDE DEF length, set
    <2>1. SUFFICES ASSUME NEW n \in (length + 1)..60 PROVE Overlay(w.block, set)[n] = w.block[n]
        OBVIOUS
    <2>2. n \in Nat /\ n > length /\ n \in DOMAIN w.block
        BY <1>2 DEF Asked
    <2>3. ~(n <= Len(set))
        BY <1>3, <2>2 DEF Fits
    <2> QED BY <2>2, <2>3 DEF Overlay
<1>5. CASE FirstError(r, 2) # 0
    <2>1. out = Failed(w, -RequestFault) /\ -RequestFault # -1
        BY <1>1, <1>5 DEF get_regset, RequestFault
    <2> QED BY <2>1, FailedExact
<1>6. CASE FirstError(r, 2) = 0 /\ r.kernel # 0
    <2>1. out = Failed(w, -1)
        BY <1>6 DEF get_regset
    <2> QED BY <2>1, FailedExact
<1>7. CASE FirstError(r, 2) = 0 /\ r.kernel = 0 /\ r.memory[3] # 0
    <2>1. out = Failed(w, -RequestFault) /\ -RequestFault # -1
        BY <1>7 DEF get_regset, RequestFault, Asked
    <2> QED BY <2>1, FailedExact
<1>8. CASE FirstError(r, 2) = 0 /\ r.kernel = 0 /\ r.memory[3] = 0
    <2> DEFINE written == [w EXCEPT !.block = Overlay(@, SubSeq(w.ptracee.set, 1, Shorter(w.length, SetSize)))]
    <2>1. written = [status |-> 0, length |-> w.length, block |-> Overlay(w.block, set), ptracee |-> Stopped]
        BY DEF Asked
    <2>2. out = IF r.memory[4] # 0 THEN Failed(written, -r.memory[4]) ELSE [written EXCEPT !.length = length]
        BY <1>8 DEF get_regset
    <2> HIDE DEF written, set, length, out
    <2>3. CASE r.memory[4] # 0
        <3>1. out = [status |-> -RequestFault, length |-> w.length, block |-> Overlay(w.block, set),
                     ptracee |-> Stopped]
            BY <2>1, <2>2, <2>3 DEF Failed, Asked
        <3>2. -RequestFault # 0 /\ -RequestFault # -1
            BY DEF RequestFault
        <3>3. ExactUpTo(r, w, out, length)
            BY <3>1, <3>2, <1>1, <1>4, <1>8, <2>3 DEF ExactUpTo
        <3> QED BY <3>3 DEF out, length
    <2>4. CASE r.memory[4] = 0
        <3>1. out = [status |-> 0, length |-> length, block |-> Overlay(w.block, set), ptracee |-> Stopped]
            BY <2>1, <2>2, <2>4
        <3>2. ExactUpTo(r, w, out, length)
            BY <3>1, <1>1, <1>4, <1>8 DEF ExactUpTo
        <3> QED BY <3>2 DEF out, length
    <2> QED BY <2>3, <2>4
<1> QED BY <1>1, <1>5, <1>6, <1>7, <1>8

LEMMA SetRegsetExact ==
    ASSUME NEW r, NEW w, Asked(r, w), r.request = "SETREGSET", NEW size
    PROVE  ExactUpTo(r, w, set_regset(w, r), size)
<1>1. ~Got(r) /\ FirstError(r, 3) \in {0, RequestFault} /\ (FirstError(r, 3) = 0 => r.memory[1] = 0)
    BY FirstErrorSays DEF Got
<1>2. CASE FirstError(r, 3) # 0
    <2>1. set_regset(w, r) = Failed(w, -RequestFault) /\ -RequestFault # -1
        BY <1>1, <1>2 DEF set_regset, RequestFault
    <2> QED BY <2>1, FailedExact
<1>3. CASE FirstError(r, 3) = 0 /\ r.kernel # 0
    <2>1. set_regset(w, r) = Failed(w, -1)
        BY <1>3 DEF set_regset
    <2> QED BY <2>1, FailedExact
<1>4. CASE FirstError(r, 3) = 0 /\ r.kernel = 0
    <2> DEFINE p == [w.ptracee EXCEPT !.set = Overlay(@, SubSeq(w.block, 1, w.length))]
    <2>1. set_regset(w, r) = [w EXCEPT !.ptracee = p]
        BY <1>4 DEF set_regset
    <2> HIDE DEF p
    <2>2. set_regset(w, r) = [status |-> 0, length |-> w.length, block |-> w.block, ptracee |-> p]
        BY <2>1 DEF Asked
    <2> QED BY <1>1, <1>4, <2>2 DEF ExactUpTo
<1> QED BY <1>2, <1>3, <1>4
LEMMA LengthFits ==
    ASSUME NEW s, NEW n \in Nat, Len(s) = n
    PROVE  Fits(s, n)
<1> DEFINE l == Len(s)
<1>1. l = n
    OBVIOUS
<1> HIDE DEF l
<1>2. \A k \in Nat : k > n => ~(k <= l)
    BY <1>1
<1> QED BY <1>2 DEF Fits, l

LEMMA HalvesFit ==
    ASSUME NEW half \in BOOLEAN, NEW a, NEW b
    PROVE  Fits(Halves(half, <<a, b>>), IF half THEN 1 ELSE 2)
<1>1. CASE half
    <2>1. Halves(half, <<a, b>>) = <<a>> /\ Len(<<a>>) = 1
        BY <1>1 DEF Halves
    <2> QED BY <1>1, <2>1, LengthFits
<1>2. CASE ~half
    <2>1. Halves(half, <<a, b>>) = <<a, b>> /\ Len(<<a, b>>) = 2
        BY <1>2 DEF Halves
    <2> QED BY <1>2, <2>1, LengthFits
<1> QED BY <1>1, <1>2

LEMMA PeekUserExact ==
    ASSUME NEW r, NEW w, Asked(r, w), r.request = "PEEKUSER"
    PROVE  ExactUpTo(r, w, peek_user(w, r), IF r.half THEN 1 ELSE 2)
<1> DEFINE at == Offset64(r.half, r.address)
<1>1. w.ptracee = Stopped /\ r.half \in BOOLEAN
    BY DEF Asked
<1>2. Got(r)
    BY DEF Got
<1>3. Stopped.user = [o \in Offsets |-> <<o, 1>>]
    BY DEF Stopped
<1> HIDE DEF at
<1>4. CASE at \notin Offsets
    <2>1. peek_user(w, r) = Failed(w, -EIO)
        BY <1>1, <1>3, <1>4 DEF peek_user, at
    <2> QED BY <2>1, FailedExact DEF EIO
<1>5. CASE at \in Offsets
    <2>1. peek_user(w, r) = get_request(w, r, Halves(r.half, <<at, 1>>))
        BY <1>1, <1>3, <1>5 DEF peek_user, at
    <2>2. Fits(Halves(r.half, <<at, 1>>), IF r.half THEN 1 ELSE 2)
        BY <1>1, HalvesFit
    <2> QED BY <1>2, <2>1, <2>2, GetExact
<1> QED BY <1>4, <1>5

LEMMA PokeUserExact ==
    ASSUME NEW r, NEW w, Asked(r, w), r.request = "POKEUSER", NEW size
    PROVE  ExactUpTo(r, w, poke_user(w, r), size)
<1> DEFINE at == Offset64(r.half, r.address)
<1>1. CASE at \notin DOMAIN w.ptracee.user
    <2>1. poke_user(w, r) = Failed(w, -EIO)
        BY <1>1 DEF poke_user
    <2> QED BY <2>1, FailedExact DEF EIO
<1>2. CASE at \in DOMAIN w.ptracee.user
    <2>1. poke_user(w, r) = poke_request(w, r, [w.ptracee EXCEPT !.user[at] = r.data])
        BY <1>2 DEF poke_user
    <2> QED BY <2>1, PokeExact
<1> QED BY <1>1, <1>2

LEMMA GetRegsExact ==
    ASSUME NEW r, NEW w, Asked(r, w), r.request \in {"GETREGS", "GETFPREGS", "GETSIGINFO"}
    PROVE  ExactUpTo(r, w, translate_ptrace_exit(w, r), SizeOf(r, w))
<1>1. Got(r) /\ r.half \in BOOLEAN /\ w.ptracee = Stopped
    BY DEF Got, Asked
<1>2. CASE r.request = "GETREGS"
    <2>1. Fits(Regs32(w.ptracee.user), USER32_NB_REGS)
        <3>1. Len(Regs32(w.ptracee.user)) = USER32_NB_REGS
            BY DEF Regs32, USER32_NB_REGS
        <3> QED BY <3>1, LengthFits DEF USER32_NB_REGS
    <2>2. Fits(AllRegs(w.ptracee.user), 2 * NbRegs)
        <3>1. Len(AllRegs(w.ptracee.user)) = 2 * NbRegs
            BY DEF AllRegs, NbRegs
        <3>2. 2 * NbRegs \in Nat
            BY DEF NbRegs
        <3> QED BY <3>1, <3>2, LengthFits
    <2>3. ExactUpTo(r, w, get_regs(w, r), IF r.half THEN USER32_NB_REGS ELSE 2 * NbRegs)
        BY <1>1, <2>1, <2>2, GetExact DEF get_regs, NbRegs, USER32_NB_REGS
    <2> QED BY <1>2, <2>3 DEF translate_ptrace_exit, SizeOf
<1>3. CASE r.request = "GETFPREGS"
    <2>1. Fits([n \in 1..USER32_NB_FPREGS |-> 0], USER32_NB_FPREGS)
        <3>1. Len([n \in 1..USER32_NB_FPREGS |-> 0]) = USER32_NB_FPREGS
            BY DEF USER32_NB_FPREGS
        <3> QED BY <3>1, LengthFits DEF USER32_NB_FPREGS
    <2>2. Fits(Stopped.fpregs, 2)
        <3>1. Stopped.fpregs = <<905, 906>> /\ Len(<<905, 906>>) = 2
            BY DEF Stopped
        <3> QED BY <3>1 DEF Fits
    <2>3. ExactUpTo(r, w, get_fpregs(w, r), IF r.half THEN USER32_NB_FPREGS ELSE 2)
        BY <1>1, <2>1, <2>2, GetExact DEF get_fpregs, USER32_NB_FPREGS
    <2> QED BY <1>3, <2>3 DEF translate_ptrace_exit, SizeOf
<1>4. CASE r.request = "GETSIGINFO"
    <2>1. Fits(Stopped.siginfo, 2)
        <3>1. Stopped.siginfo = <<903, 904>> /\ Len(<<903, 904>>) = 2
            BY DEF Stopped
        <3> QED BY <3>1 DEF Fits
    <2>2. ExactUpTo(r, w, get_request(w, r, w.ptracee.siginfo), 2)
        BY <1>1, <2>1, GetExact
    <2> QED BY <1>4, <2>2 DEF translate_ptrace_exit, SizeOf
<1> QED BY <1>2, <1>3, <1>4

LEMMA GetWordExact ==
    ASSUME NEW r, NEW w, Asked(r, w), r.request \in {"GETEVENTMSG", "PEEKDATA", "ARCH_PRCTL"}
    PROVE  ExactUpTo(r, w, translate_ptrace_exit(w, r), SizeOf(r, w))
<1> DEFINE size == IF r.half THEN 1 ELSE 2
<1>1. Got(r) /\ r.half \in BOOLEAN /\ w.ptracee = Stopped /\ size \in Nat
    BY DEF Got, Asked
<1>2. Stopped.word = <<901, 1>> /\ Stopped.message = <<902, 1>> /\ Stopped.base = <<907, 1>>
    BY DEF Stopped
<1>3. \A a, b : Fits(Halves(r.half, <<a, b>>), size)
    BY <1>1, HalvesFit
<1>4. SizeOf(r, w) = size
    BY DEF SizeOf
<1> HIDE DEF size
<1>5. ExactUpTo(r, w, get_request(w, r, Halves(r.half, Stopped.word)), size)
    BY <1>1, <1>2, <1>3, GetExact
<1>6. ExactUpTo(r, w, get_request(w, r, Halves(r.half, Stopped.message)), size)
    BY <1>1, <1>2, <1>3, GetExact
<1>7. ExactUpTo(r, w, get_request(w, r, Halves(r.half, Stopped.base)), size)
    BY <1>1, <1>2, <1>3, GetExact
<1>8. ExactUpTo(r, w, Failed(w, -ENOTSUP), size)
    BY FailedExact DEF ENOTSUP
<1>9. ExactUpTo(r, w, arch_prctl(w, r), size)
    BY <1>1, <1>7, <1>8 DEF arch_prctl
<1>10. CASE r.request = "GETEVENTMSG"
    BY <1>1, <1>4, <1>6, <1>10 DEF translate_ptrace_exit
<1>11. CASE r.request = "PEEKDATA"
    BY <1>1, <1>4, <1>5, <1>11 DEF translate_ptrace_exit
<1>12. CASE r.request = "ARCH_PRCTL"
    BY <1>4, <1>9, <1>12 DEF translate_ptrace_exit
<1> QED BY <1>10, <1>11, <1>12

LEMMA RequestIsExact ==
    ASSUME NEW r, NEW w, Asked(r, w), r.request \in Requests
    PROVE  ExactUpTo(r, w, translate_ptrace_exit(w, r), SizeOf(r, w))
<1>1. CASE r.request \in {"GETREGS", "GETFPREGS", "GETSIGINFO"}
    BY <1>1, GetRegsExact
<1>2. CASE r.request \in {"GETEVENTMSG", "PEEKDATA", "ARCH_PRCTL"}
    BY <1>2, GetWordExact
<1>3. CASE r.request = "PEEKUSER"
    BY <1>3, PeekUserExact DEF translate_ptrace_exit, SizeOf
<1>4. CASE r.request = "POKEUSER"
    BY <1>4, PokeUserExact DEF translate_ptrace_exit, SizeOf
<1>5. CASE r.request = "POKEDATA"
    BY <1>5, PokeExact DEF translate_ptrace_exit, SizeOf, poke_data
<1>6. CASE r.request = "SET_SYSCALL"
    BY <1>6, PokeExact DEF translate_ptrace_exit, SizeOf
<1>7. CASE r.request = "SETSIGINFO"
    BY <1>7, SetExact DEF translate_ptrace_exit, SizeOf, Got
<1>8. CASE r.request = "SETREGS"
    <2>1. ~Got(r)
        BY <1>8 DEF Got
    <2>2. ExactUpTo(r, w, set_regs(w, r), SizeOf(r, w))
        BY <2>1, SetExact DEF set_regs
    <2> QED BY <1>8, <2>2 DEF translate_ptrace_exit
<1>9. CASE r.request = "SETFPREGS"
    <2>1. ~Got(r)
        BY <1>9 DEF Got
    <2>2. CASE r.half
        <3>1. set_fpregs(w, r) = Failed(w, IF r.memory[1] # 0 THEN -r.memory[1] ELSE -ENOTSUP)
            BY <2>2 DEF set_fpregs
        <3>2. (IF r.memory[1] # 0 THEN -r.memory[1] ELSE -ENOTSUP) \in {-RequestFault, -ENOTSUP}
            BY DEF Asked
        <3>3. -1 \notin {-RequestFault, -ENOTSUP}
            BY DEF RequestFault, ENOTSUP
        <3> QED BY <3>1, <3>2, <3>3, <1>9, FailedExact DEF translate_ptrace_exit
    <2>3. CASE ~r.half
        <3>1. set_fpregs(w, r) = set_request(w, r, [w.ptracee EXCEPT !.fpregs = SubSeq(w.block, 1, Len(@))])
            BY <2>3 DEF set_fpregs
        <3> QED BY <3>1, <2>1, <1>9, SetExact DEF translate_ptrace_exit
    <2> QED BY <2>2, <2>3
<1>10. CASE r.request = "GETREGSET"
    BY <1>10, GetRegsetExact DEF translate_ptrace_exit, SizeOf
<1>11. CASE r.request = "SETREGSET"
    BY <1>11, SetRegsetExact DEF translate_ptrace_exit, SizeOf
<1>12. CASE r.request = "GETFPXREGS"
    <2>1. -ENOTSUP # -1
        BY DEF ENOTSUP
    <2> QED BY <1>12, <2>1, FailedExact DEF translate_ptrace_exit
<1> QED BY <1>1, <1>2, <1>3, <1>4, <1>5, <1>6, <1>7, <1>8, <1>9, <1>10, <1>11, <1>12 DEF Requests
LEMMA PokedData ==
    ASSUME NEW r, NEW w, Asked(r, w), r.request = "POKEDATA", r.kernel = 0, NEW l,
           r.data = <<l, IF r.half THEN 0 ELSE 2>>
    PROVE  translate_ptrace_exit(w, r).ptracee.word = <<l, IF r.half THEN 1 ELSE 2>>
<1> DEFINE high == IF r.half THEN w.ptracee.word[2] ELSE r.data[2]
<1>1. w.ptracee = Stopped /\ Stopped.word = <<901, 1>> /\ r.half \in BOOLEAN
    BY DEF Asked, Stopped
<1>2. high = IF r.half THEN 1 ELSE 2
    BY <1>1
<1>3. r.data[1] = l
    OBVIOUS
<1> HIDE DEF high
<1>4. translate_ptrace_exit(w, r) = [w EXCEPT !.ptracee = [w.ptracee EXCEPT !.word = <<l, high>>]]
    BY <1>3 DEF translate_ptrace_exit, poke_data, poke_request, high
<1>5. [Stopped EXCEPT !.word = <<l, high>>].word = <<l, high>>
    BY DEF Stopped
<1> DEFINE x == [w.ptracee EXCEPT !.word = <<l, high>>]
<1>6. x.word = <<l, high>>
    BY <1>1, <1>5
<1>7. translate_ptrace_exit(w, r) = [w EXCEPT !.ptracee = x]
    BY <1>4
<1> HIDE DEF x
<1>8. [w EXCEPT !.ptracee = x].ptracee = x
    BY DEF Asked
<1> QED BY <1>2, <1>6, <1>7, <1>8

\* The index of a register is the place of its name.
IsPlace(n, i) == /\ i \in 0..26 /\ convert_user_regs_index(n - 1) = i /\ Names64[i + 1] = Names32[n]
                 /\ \A k \in 1..27 : Names64[k] = Names32[n] => k = i + 1

LEMMA Places ==
    /\ IsPlace(1, 5) /\ IsPlace(2, 11) /\ IsPlace(3, 12) /\ IsPlace(4, 13) /\ IsPlace(5, 14) /\ IsPlace(6, 4)
    /\ IsPlace(7, 10) /\ IsPlace(8, 23) /\ IsPlace(9, 24) /\ IsPlace(10, 25) /\ IsPlace(11, 26)
    /\ IsPlace(12, 15) /\ IsPlace(13, 16) /\ IsPlace(14, 17) /\ IsPlace(15, 18) /\ IsPlace(16, 19) /\ IsPlace(17, 20)
<1> USE DEF IsPlace, convert_user_regs_index, Names32, Names64
<1>1. IsPlace(1, 5)
    OBVIOUS
<1>2. IsPlace(2, 11)
    OBVIOUS
<1>3. IsPlace(3, 12)
    OBVIOUS
<1>4. IsPlace(4, 13)
    OBVIOUS
<1>5. IsPlace(5, 14)
    OBVIOUS
<1>6. IsPlace(6, 4)
    OBVIOUS
<1>7. IsPlace(7, 10)
    OBVIOUS
<1>8. IsPlace(8, 23)
    OBVIOUS
<1>9. IsPlace(9, 24)
    OBVIOUS
<1>10. IsPlace(10, 25)
    OBVIOUS
<1>11. IsPlace(11, 26)
    OBVIOUS
<1>12. IsPlace(12, 15)
    OBVIOUS
<1>13. IsPlace(13, 16)
    OBVIOUS
<1>14. IsPlace(14, 17)
    OBVIOUS
<1>15. IsPlace(15, 18)
    OBVIOUS
<1>16. IsPlace(16, 19)
    OBVIOUS
<1>17. IsPlace(17, 20)
    OBVIOUS
<1> HIDE DEF IsPlace
<1> QED BY <1>1, <1>2, <1>3, <1>4, <1>5, <1>6, <1>7, <1>8, <1>9, <1>10, <1>11, <1>12, <1>13, <1>14,
           <1>15, <1>16, <1>17

LEMMA PlaceOf ==
    ASSUME NEW n \in 1..17
    PROVE  /\ convert_user_regs_index(n - 1) \in 0..26
           /\ Of32(n) = 8 * convert_user_regs_index(n - 1) /\ Of32(n) \in Offsets
<1>1. PICK i \in 0..26 : IsPlace(n, i)
    <2> HIDE DEF IsPlace
    <2>1. n \in {1, 2, 3, 4, 5, 6, 7, 8, 9, 10, 11, 12, 13, 14, 15, 16, 17}
        OBVIOUS
    <2> QED BY <2>1, Places
<1>2. /\ convert_user_regs_index(n - 1) = i /\ Names64[i + 1] = Names32[n]
      /\ \A k \in 1..27 : Names64[k] = Names32[n] => k = i + 1
    BY <1>1 DEF IsPlace
<1>3. (CHOOSE k \in 1..NbRegs : Names64[k] = Names32[n]) = i + 1
    <2>1. i + 1 \in 1..27
        OBVIOUS
    <2>2. \E k \in 1..27 : Names64[k] = Names32[n]
        BY <1>2, <2>1
    <2> DEFINE c == CHOOSE k \in 1..27 : Names64[k] = Names32[n]
    <2>3. c \in 1..27 /\ Names64[c] = Names32[n]
        BY <2>2
    <2> HIDE DEF c
    <2>4. c = i + 1
        BY <1>2, <2>3
    <2> QED BY <2>4 DEF c, NbRegs
<1>4. Of32(n) = 8 * i
    <2>1. Of32(n) = 8 * ((i + 1) - 1)
        BY <1>3 DEF Of32
    <2> QED BY <2>1
<1>5. 8 * i \in Offsets
    BY DEF Offsets, NbRegs
<1> QED BY <1>2, <1>4, <1>5

\* Different registers have different places.
LEMMA PlacesApart ==
    ASSUME NEW m \in 1..17, NEW n \in 1..17,
           convert_user_regs_index(m - 1) = convert_user_regs_index(n - 1)
    PROVE  m = n
BY DEF convert_user_regs_index

BeginsAs(t, s, k) == t \in Seq(Int) /\ Len(t) = k /\ \A n \in 1..k : t[n] = s[n]

LEMMA PrefixSays ==
    ASSUME NEW s \in Seq(Int), NEW k \in 0..Len(s)
    PROVE  BeginsAs(SubSeq(s, 1, k), s, k)
<1>1. /\ SubSeq(s, 1, k) \in Seq(Int) /\ Len(SubSeq(s, 1, k)) = k
      /\ \A n \in 1..k : SubSeq(s, 1, k)[n] = s[n]
    OBVIOUS
<1> QED BY <1>1 DEF BeginsAs

LEMMA GotNames ==
    ASSUME NEW r, NEW w, Asked(r, w), r.request = "GETREGS", r.half, r.kernel = 0, r.memory[1] = 0,
           NEW k \in 1..17
    PROVE  translate_ptrace_exit(w, r).block[k] = Of32(k)
<1> DEFINE regs == Regs32(Stopped.user)
           i == convert_user_regs_index(k - 1)
<1>1. i \in 0..26 /\ Of32(k) = 8 * i /\ 8 * i \in Offsets
    BY PlaceOf
<1> HIDE DEF i
<1>2. Len(regs) = 17 /\ regs[k] = Stopped.user[8 * i][1]
    BY DEF Regs32, USER32_NB_REGS, i
<1>3. Stopped.user[8 * i] = <<8 * i, 1>>
    BY <1>1 DEF Stopped
<1> HIDE DEF regs
<1>4. regs[k] = Of32(k)
    BY <1>1, <1>2, <1>3
<1>5. k \in DOMAIN w.block
    BY DEF Asked
<1>6. k <= Len(regs)
    BY <1>2
<1>7. Overlay(w.block, regs)[k] = regs[k]
    BY <1>5, <1>6 DEF Overlay
<1>8. translate_ptrace_exit(w, r) = [w EXCEPT !.block = Overlay(w.block, regs)]
    BY DEF translate_ptrace_exit, get_regs, get_request, Asked, regs
<1> DEFINE b == Overlay(w.block, regs)
<1>9. [w EXCEPT !.block = b].block = b
    <2> HIDE DEF b
    <2> QED BY DEF Asked
<1> QED BY <1>4, <1>7, <1>8, <1>9

LEMMA GivenNames ==
    ASSUME NEW r, NEW w, Asked(r, w), r.request = "SETREGS", r.half, r.kernel = 0, r.memory[1] = 0,
           NEW out, out = translate_ptrace_exit(w, r)
    PROVE  /\ \A k \in 1..17 : out.ptracee.user[Of32(k)] = <<700 + k, 0>>
           /\ \A o \in Offsets : o >= U_DEBUGREG => out.ptracee.user[o] = <<o, 1>>
<1> DEFINE buffer == [n \in 1..(2 * NbRegs) |-> IF n <= USER32_NB_REGS THEN w.block[n] ELSE r.stack]
           regs32 == SubSeq(w.block, 1, USER32_NB_REGS)
           regs == Regs64(regs32, buffer)
           user == [o \in Offsets |-> IF o < U_DEBUGREG THEN regs[o \div 8] ELSE Stopped.user[o]]
           ptracee == [w.ptracee EXCEPT !.user = [o \in DOMAIN @ |-> IF o < U_DEBUGREG THEN regs[o \div 8] ELSE @[o]]]
<1>1. translate_ptrace_exit(w, r) = [w EXCEPT !.ptracee = ptracee]
    BY DEF translate_ptrace_exit, set_regs, set_request
<1>2. w.ptracee = Stopped /\ DOMAIN Stopped.user = Offsets /\ \A o \in Offsets : Stopped.user[o] = <<o, 1>>
    BY DEF Asked, Stopped
<1>3. DOMAIN regs32 = 1..17 /\ \A n \in 1..17 : regs32[n] = 700 + n
    <2>1. w.block = [n \in 1..60 |-> 700 + n]
        BY DEF Asked
    <2>2. SubSeq([n \in 1..60 |-> 700 + n], 1, 17) = [n \in 1..17 |-> 700 + n]
        <3> DEFINE s == [n \in 1..60 |-> 700 + n]
        <3>1. s \in Seq(Int) /\ Len(s) = 60 /\ \A n \in 1..17 : s[n] = 700 + n
            OBVIOUS
        <3> HIDE DEF s
        <3>2. /\ SubSeq(s, 1, 17) \in Seq(Int) /\ Len(SubSeq(s, 1, 17)) = 17
              /\ \A n \in 1..17 : SubSeq(s, 1, 17)[n] = s[n]
            <4>1. s \in Seq(Int) /\ 17 \in 0..Len(s)
                BY <3>1
            <4>2. BeginsAs(SubSeq(s, 1, 17), s, 17)
                BY <4>1, PrefixSays
            <4> QED BY <4>2 DEF BeginsAs
        <3>3. SubSeq(s, 1, 17) = [n \in 1..17 |-> 700 + n]
            BY <3>1, <3>2
        <3> QED BY <3>3 DEF s
    <2>3. regs32 = [n \in 1..17 |-> 700 + n]
        BY <2>1, <2>2 DEF USER32_NB_REGS
    <2> HIDE DEF regs32
    <2> QED BY <2>3
<1> HIDE DEF buffer, regs32
<1>4. \A k \in 1..17 : regs[convert_user_regs_index(k - 1)] = <<700 + k, 0>>
    <2>1. SUFFICES ASSUME NEW k \in 1..17
                   PROVE  regs[convert_user_regs_index(k - 1)] = <<700 + k, 0>>
        OBVIOUS
    <2> DEFINE i == convert_user_regs_index(k - 1)
               c == CHOOSE n \in DOMAIN regs32 : convert_user_regs_index(n - 1) = i
    <2>2. i \in 0..(NbRegs - 1)
        BY PlaceOf DEF NbRegs
    <2>3. c \in 1..17 /\ convert_user_regs_index(c - 1) = i
        <3>1. \E n \in DOMAIN regs32 : convert_user_regs_index(n - 1) = i
            BY <1>3
        <3> QED BY <1>3, <3>1
    <2>4. c = k
        <3> HIDE DEF c
        <3> QED BY <2>3, PlacesApart
    <2>5. regs[i] = <<regs32[c], 0>>
        <3>1. \E n \in DOMAIN regs32 : convert_user_regs_index(n - 1) = i
            BY <1>3
        <3> QED BY <2>2, <3>1 DEF Regs64
    <2> HIDE DEF c, i, regs
    <2>6. regs32[c] = 700 + k
        BY <1>3, <2>4
    <2>7. regs[i] = <<700 + k, 0>>
        BY <2>5, <2>6
    <2> QED BY <2>7 DEF i
<1> HIDE DEF regs
<1>5. ptracee = [Stopped EXCEPT !.user = user]
    BY <1>2
<1> HIDE DEF ptracee
<1>6. translate_ptrace_exit(w, r).ptracee = ptracee
    BY <1>1 DEF Asked
<1> HIDE DEF user
<1>7. translate_ptrace_exit(w, r).ptracee.user = user
    BY <1>5, <1>6 DEF Stopped
<1>8. \A k \in 1..17 : user[Of32(k)] = <<700 + k, 0>>
    <2>1. SUFFICES ASSUME NEW k \in 1..17 PROVE user[Of32(k)] = <<700 + k, 0>>
        OBVIOUS
    <2> DEFINE i == convert_user_regs_index(k - 1)
    <2>2. i \in 0..26 /\ Of32(k) = 8 * i /\ 8 * i \in Offsets
        BY PlaceOf
    <2>3. regs[i] = <<700 + k, 0>>
        BY <1>4
    <2> HIDE DEF i
    <2>4. 8 * i < U_DEBUGREG /\ (8 * i) \div 8 = i
        BY <2>2 DEF U_DEBUGREG
    <2>5. user[8 * i] = regs[i]
        BY <2>2, <2>4 DEF user
    <2> QED BY <2>2, <2>3, <2>5
<1>9. \A o \in Offsets : o >= U_DEBUGREG => user[o] = <<o, 1>>
    <2>1. SUFFICES ASSUME NEW o \in Offsets, o >= U_DEBUGREG PROVE user[o] = <<o, 1>>
        OBVIOUS
    <2>2. ~(o < U_DEBUGREG)
        BY <2>1 DEF Offsets, U_DEBUGREG, NbRegs
    <2> QED BY <2>2, <1>2 DEF user
<1> QED BY <1>7, <1>8, <1>9

LEMMA NamedOffset ==
    ASSUME NEW a \in Nat, a < 68
    PROVE  convert_user_offset(a) = IF a % 4 # 0 THEN -1 ELSE 8 * convert_user_regs_index(a \div 4)
<1>1. a < 4 * USER32_NB_REGS /\ ~(a >= USER32_DEBUGREG_OFFSET)
    BY DEF USER32_NB_REGS, USER32_DEBUGREG_OFFSET
<1>2. CASE a % 4 # 0
    BY <1>1, <1>2 DEF convert_user_offset
<1>3. CASE a % 4 = 0
    <2> DEFINE x == 8 * convert_user_regs_index(a \div 4)
    <2>1. convert_user_offset(a) = x
        BY <1>1, <1>3 DEF convert_user_offset
    <2> QED BY <1>3, <2>1
<1> QED BY <1>2, <1>3

LEMMA OneNamed ==
    ASSUME NEW r, NEW w, Asked(r, w), r.half, r.address \in Nat,
           r.request \in {"PEEKUSER", "POKEUSER"},
           NEW out, out = translate_ptrace_exit(w, r), out.status = 0,
           NEW n \in 1..17, n = (r.address \div 4) + 1
    PROVE  /\ r.address % 4 = 0
           /\ r.request = "PEEKUSER" => out.block[1] = Of32(n)
           /\ r.request = "POKEUSER" =>
                 \A o \in Offsets : out.ptracee.user[o] = IF o = Of32(n) THEN r.data ELSE <<o, 1>>
<1> DEFINE at == Offset64(r.half, r.address)
<1>1. w.ptracee = Stopped /\ Stopped.user = [o \in Offsets |-> <<o, 1>>]
    BY DEF Asked, Stopped
<1>2. DOMAIN w.ptracee.user = Offsets
    BY <1>1
<1>3. at \in Offsets
    <2>1. SUFFICES ASSUME at \notin Offsets PROVE FALSE
        OBVIOUS
    <2>2. out = Failed(w, -EIO)
        BY <1>2, <2>1 DEF translate_ptrace_exit, peek_user, poke_user
    <2>3. Failed(w, -EIO).status = -EIO /\ -EIO # 0
        BY DEF Failed, Asked, EIO
    <2> QED BY <2>2, <2>3
<1>4. r.address < 68 /\ at = convert_user_offset(r.address)
    BY DEF Offset64
<1>5. at = IF r.address % 4 # 0 THEN -1 ELSE 8 * convert_user_regs_index(r.address \div 4)
    BY <1>4, NamedOffset
<1>6. -1 \notin Offsets
    BY DEF Offsets, NbRegs, U_DEBUGREG
<1>7. r.address % 4 = 0 /\ at = 8 * convert_user_regs_index(r.address \div 4)
    BY <1>3, <1>5, <1>6
<1>8. at = Of32(n)
    <2>1. r.address \div 4 = n - 1
        OBVIOUS
    <2> QED BY <1>7, <2>1, PlaceOf
<1>9. r.kernel = 0
    <2>1. ExactUpTo(r, w, out, SizeOf(r, w))
        BY RequestIsExact DEF Requests
    <2> QED BY <2>1 DEF ExactUpTo
<1> HIDE DEF at
<1>10. ASSUME r.request = "PEEKUSER"
       PROVE  out.block[1] = Of32(n)
    <2>1. w.ptracee.user[at] = <<at, 1>> /\ Halves(r.half, <<at, 1>>) = <<at>>
        BY <1>1, <1>3 DEF Halves
    <2>2. peek_user(w, r) = get_request(w, r, <<at>>)
        BY <1>2, <1>3, <2>1 DEF peek_user, at
    <2>3. r.memory[1] = 0
        <3>1. ExactUpTo(r, w, out, SizeOf(r, w))
            BY RequestIsExact DEF Requests
        <3> QED BY <3>1, <1>10 DEF ExactUpTo
    <2>4. get_request(w, r, <<at>>) = [w EXCEPT !.block = Overlay(w.block, <<at>>)]
        BY <1>9, <2>3 DEF get_request
    <2>5. Overlay(w.block, <<at>>)[1] = at
        <3>1. 1 \in DOMAIN w.block
            BY DEF Asked
        <3>2. Len(<<at>>) = 1 /\ <<at>>[1] = at
            OBVIOUS
        <3> QED BY <3>1, <3>2 DEF Overlay
    <2>6. out = peek_user(w, r)
        BY <1>10 DEF translate_ptrace_exit
    <2> DEFINE b == Overlay(w.block, <<at>>)
    <2>7. out = [w EXCEPT !.block = b] /\ b[1] = at
        BY <2>2, <2>4, <2>5, <2>6
    <2> HIDE DEF b
    <2>8. [w EXCEPT !.block = b].block = b
        BY DEF Asked
    <2> QED BY <2>7, <2>8, <1>8
<1>11. ASSUME r.request = "POKEUSER", NEW o \in Offsets
       PROVE  out.ptracee.user[o] = IF o = Of32(n) THEN r.data ELSE <<o, 1>>
    <2> DEFINE p == [w.ptracee EXCEPT !.user[at] = r.data]
    <2>1. out = poke_request(w, r, p)
        BY <1>2, <1>3, <1>11 DEF translate_ptrace_exit, poke_user, at
    <2>2. p.user = [Stopped.user EXCEPT ![at] = r.data]
        BY <1>1 DEF Stopped
    <2> HIDE DEF p
    <2>3. poke_request(w, r, p) = [w EXCEPT !.ptracee = p]
        BY <1>9 DEF poke_request
    <2>4. [w EXCEPT !.ptracee = p].ptracee = p
        BY DEF Asked
    <2>5. out.ptracee.user = [Stopped.user EXCEPT ![at] = r.data]
        BY <2>1, <2>2, <2>3, <2>4
    <2> QED BY <2>5, <1>1, <1>8
<1> QED BY <1>7, <1>10, <1>11

\* What a request leaves of the ptracee: what it gives the kernel, or all.
LEMMA SetLeaves ==
    ASSUME NEW r, NEW w, Asked(r, w), NEW ptracee
    PROVE  /\ set_request(w, r, ptracee).ptracee \in {ptracee, Stopped}
           /\ poke_request(w, r, ptracee).ptracee \in {ptracee, Stopped}
<1>1. \A status : Failed(w, status).ptracee = Stopped
    BY DEF Failed, Asked
<1>2. [w EXCEPT !.ptracee = ptracee].ptracee = ptracee
    BY DEF Asked
<1> QED BY <1>1, <1>2 DEF set_request, poke_request

LEMMA OnePart ==
    ASSUME NEW part \in DOMAIN Stopped, NEW v
    PROVE  /\ part # "user" => [Stopped EXCEPT !.user = v][part] = Stopped[part]
           /\ part # "word" => [Stopped EXCEPT !.word = v][part] = Stopped[part]
           /\ part # "siginfo" => [Stopped EXCEPT !.siginfo = v][part] = Stopped[part]
           /\ part # "fpregs" => [Stopped EXCEPT !.fpregs = v][part] = Stopped[part]
           /\ part # "set" => [Stopped EXCEPT !.set = v][part] = Stopped[part]
           /\ part # "number" => [Stopped EXCEPT !.number = v][part] = Stopped[part]
OBVIOUS

LEMMA OthersKept ==
    ASSUME NEW r, NEW w, Asked(r, w), r.request \in Requests,
           NEW out, out = translate_ptrace_exit(w, r), NEW part \in DOMAIN Stopped,
           part # PartOf(r.request)
    PROVE  out.ptracee[part] = Stopped[part]
<1>1. ExactUpTo(r, w, out, SizeOf(r, w))
    BY RequestIsExact
<1>2. CASE Got(r) \/ out.status # 0
    BY <1>1, <1>2 DEF ExactUpTo
<1>3. CASE ~Got(r) /\ out.status = 0
    <2>1. w.ptracee = Stopped
        BY DEF Asked
    <2>2. \A status : Failed(w, status).ptracee = Stopped
        BY DEF Failed, Asked
    <2>3. CASE r.request = "POKEUSER"
        <3> DEFINE user == [Stopped.user EXCEPT ![Offset64(r.half, r.address)] = r.data]
        <3>1. out = poke_user(w, r) /\ part # "user"
            BY <2>3 DEF translate_ptrace_exit, PartOf
        <3>2. \/ out.ptracee = Stopped
              \/ out = poke_request(w, r, [Stopped EXCEPT !.user = user])
            BY <3>1, <2>1, <2>2 DEF poke_user
        <3> HIDE DEF user
        <3> QED BY <3>1, <3>2, SetLeaves, OnePart
    <2>4. CASE r.request = "POKEDATA"
        <3>1. PICK v : out = poke_request(w, r, [Stopped EXCEPT !.word = v])
            BY <2>1, <2>4 DEF translate_ptrace_exit, poke_data
        <3>2. part # "word"
            BY <2>4 DEF PartOf
        <3> QED BY <3>1, <3>2, SetLeaves, OnePart
    <2>5. CASE r.request = "SET_SYSCALL"
        <3>1. PICK v : out = poke_request(w, r, [Stopped EXCEPT !.number = v])
            BY <2>1, <2>5 DEF translate_ptrace_exit
        <3>2. part # "number"
            BY <2>5 DEF PartOf
        <3> QED BY <3>1, <3>2, SetLeaves, OnePart
    <2>6. CASE r.request = "SETSIGINFO"
        <3>1. PICK v : out = set_request(w, r, [Stopped EXCEPT !.siginfo = v])
            BY <2>1, <2>6 DEF translate_ptrace_exit
        <3>2. part # "siginfo"
            BY <2>6 DEF PartOf
        <3> QED BY <3>1, <3>2, SetLeaves, OnePart
    <2>7. CASE r.request = "SETREGS"
        <3>1. PICK v : out = set_request(w, r, [Stopped EXCEPT !.user = v])
            BY <2>1, <2>7 DEF translate_ptrace_exit, set_regs
        <3>2. part # "user"
            BY <2>7 DEF PartOf
        <3> QED BY <3>1, <3>2, SetLeaves, OnePart
    <2>8. CASE r.request = "SETFPREGS"
        <3>1. PICK v : \/ out.ptracee = Stopped
                       \/ out = set_request(w, r, [Stopped EXCEPT !.fpregs = v])
            BY <2>1, <2>2, <2>8 DEF translate_ptrace_exit, set_fpregs
        <3>2. part # "fpregs"
            BY <2>8 DEF PartOf
        <3> QED BY <3>1, <3>2, SetLeaves, OnePart
    <2>9. CASE r.request = "SETREGSET"
        <3> DEFINE v == Overlay(Stopped.set, SubSeq(w.block, 1, w.length))
        <3>1. out = set_regset(w, r) /\ part # "set"
            BY <2>9 DEF translate_ptrace_exit, PartOf
        <3>2. \/ out.ptracee = Stopped
              \/ out = [w EXCEPT !.ptracee.set = Overlay(@, SubSeq(w.block, 1, w.length))]
            BY <3>1, <2>2 DEF set_regset
        <3>3. [w EXCEPT !.ptracee.set = Overlay(@, SubSeq(w.block, 1, w.length))].ptracee
                  = [Stopped EXCEPT !.set = v]
            BY <2>1 DEF Asked
        <3> HIDE DEF v
        <3>4. [Stopped EXCEPT !.set = v][part] = Stopped[part]
            BY <3>1, OnePart
        <3>5. out.ptracee = Stopped \/ out.ptracee = [Stopped EXCEPT !.set = v]
            BY <3>2, <3>3
        <3> QED BY <3>4, <3>5
    <2>10. CASE r.request = "GETFPXREGS"
        BY <2>2, <2>10 DEF translate_ptrace_exit
    <2> QED BY <1>3, <2>3, <2>4, <2>5, <2>6, <2>7, <2>8, <2>9, <2>10 DEF Got, Requests
<1> QED BY <1>2, <1>3

LEMMA OneOffset ==
    ASSUME NEW r, NEW w, Asked(r, w), r.request = "POKEUSER",
           NEW out, out = translate_ptrace_exit(w, r),
           NEW o \in Offsets, o # Offset64(r.half, r.address)
    PROVE  out.ptracee.user[o] = <<o, 1>>
<1> DEFINE user == [Stopped.user EXCEPT ![Offset64(r.half, r.address)] = r.data]
<1>1. w.ptracee = Stopped /\ \A status : Failed(w, status).ptracee = Stopped
    BY DEF Failed, Asked
<1>2. Stopped.user = [n \in Offsets |-> <<n, 1>>]
    BY DEF Stopped
<1>3. user[o] = <<o, 1>>
    BY <1>2
<1>4. \/ out.ptracee = Stopped
      \/ out = poke_request(w, r, [Stopped EXCEPT !.user = user])
    BY <1>1 DEF translate_ptrace_exit, poke_user
<1> HIDE DEF user
<1> DEFINE changed == [Stopped EXCEPT !.user = user]
<1>5. changed.user = user
    BY DEF Stopped
<1>6. out.ptracee \in {changed, Stopped}
    <2> HIDE DEF changed
    <2>1. poke_request(w, r, changed).ptracee \in {changed, Stopped}
        BY SetLeaves
    <2>2. out.ptracee = Stopped \/ out = poke_request(w, r, changed)
        BY <1>4 DEF changed
    <2> QED BY <2>1, <2>2
<1>7. Stopped.user[o] = <<o, 1>>
    BY <1>2
<1> HIDE DEF changed
<1> QED BY <1>3, <1>5, <1>6, <1>7

Tried(request, address, half, kernel, bad, length) ==
    LET r == Request(request, address, half, kernel, bad, length)
        w == Asker(length)
    IN  Try("request", [r |-> r, w |-> w], translate_ptrace_exit(w, r))

LEMMA RequestTrial ==
    ASSUME NEW request \in Requests, NEW half \in BOOLEAN, NEW kernel \in {0, EIO}, NEW bad \in 0..4,
           NEW address \in Nat, NEW length \in Nat,
           Tried(request, address, half, kernel, bad, length)
    PROVE  RequestsExact'
<1> DEFINE r == Request(request, address, half, kernel, bad, length)
           w == Asker(length)
           out == translate_ptrace_exit(w, r)
<1>1. Asked(r, w) /\ r.request \in Requests
    BY DEF Asked, RequestFault, Request, Asker
<1>2. r.address \in Nat /\ r.half \in BOOLEAN /\ r.data = <<length, IF r.half THEN 0 ELSE 2>>
    BY DEF Request
<1>3. trial' = [op |-> "request", in |-> [r |-> r, w |-> w], out |-> out]
    BY DEF Tried, Try
<1> HIDE DEF r, w
<1>4. ExactUpTo(r, w, out, SizeOf(r, w))
    BY <1>1, RequestIsExact
<1>5. out.status = 0 => /\ r.kernel = 0
                        /\ r.memory[1] = 0 \/ r.request \in {"POKEUSER", "POKEDATA", "SET_SYSCALL"}
    BY <1>4 DEF ExactUpTo
<1>6. r.request = "POKEDATA" /\ out.status = 0 =>
          out.ptracee.word = <<length, IF r.half THEN 1 ELSE 2>>
    BY <1>1, <1>2, <1>5, PokedData
<1>7. r.half /\ out.status = 0 /\ r.request = "GETREGS" => \A k \in 1..17 : out.block[k] = Of32(k)
    BY <1>1, <1>5, GotNames
<1>8. r.half /\ out.status = 0 /\ r.request = "SETREGS" =>
          /\ \A k \in 1..17 : out.ptracee.user[Of32(k)] = <<700 + k, 0>>
          /\ \A o \in Offsets : o >= U_DEBUGREG => out.ptracee.user[o] = <<o, 1>>
    <2> HIDE DEF out
    <2>1. SUFFICES ASSUME r.half, out.status = 0, r.request = "SETREGS"
                   PROVE  /\ \A k \in 1..17 : out.ptracee.user[Of32(k)] = <<700 + k, 0>>
                          /\ \A o \in Offsets : o >= U_DEBUGREG => out.ptracee.user[o] = <<o, 1>>
        OBVIOUS
    <2>2. r.kernel = 0 /\ r.memory[1] = 0
        BY <1>5, <2>1
    <2>3. out = translate_ptrace_exit(w, r)
        BY DEF out
    <2> QED BY <1>1, <2>1, <2>2, <2>3, GivenNames
<1> DEFINE n == (r.address \div 4) + 1
<1>9. r.half /\ out.status = 0 /\ r.request \in {"PEEKUSER", "POKEUSER"} /\ n <= 17 =>
          /\ r.address % 4 = 0
          /\ r.request = "PEEKUSER" => out.block[1] = Of32(n)
          /\ r.request = "POKEUSER" =>
                \A o \in Offsets : out.ptracee.user[o] = IF o = Of32(n) THEN r.data ELSE <<o, 1>>
    <2>1. n \in Nat \ {0}
        BY <1>2
    <2>2. n <= 17 => n \in 1..17
        BY <2>1
    <2>3. n = (r.address \div 4) + 1
        OBVIOUS
    <2>5. out = translate_ptrace_exit(w, r)
        OBVIOUS
    <2> HIDE DEF n, out
    <2>4. SUFFICES ASSUME r.half, out.status = 0, r.request \in {"PEEKUSER", "POKEUSER"}, n <= 17
                   PROVE  /\ r.address % 4 = 0
                          /\ r.request = "PEEKUSER" => out.block[1] = Of32(n)
                          /\ r.request = "POKEUSER" =>
                                \A o \in Offsets : out.ptracee.user[o] = IF o = Of32(n) THEN r.data ELSE <<o, 1>>
        OBVIOUS
    <2> QED BY <2>2, <2>3, <2>4, <2>5, <1>1, <1>2, OneNamed
<1> HIDE DEF out, n
<1>10. RequestExact'
    <2>1. /\ trial'.op = "request" /\ trial'.in.r = r /\ trial'.in.w = w /\ trial'.out = out
        BY <1>3
    <2>2. ExactUpTo(trial'.in.r, trial'.in.w, trial'.out, SizeOf(trial'.in.r, trial'.in.w))
        BY <1>4, <2>1
    <2> QED BY <2>1, <2>2, Zenon DEF RequestExact, ExactUpTo, SizeOf
<1>11. HalfWordKept'
    BY <1>2, <1>3, <1>6 DEF HalfWordKept
<1>12. RegistersNamed'
    <2>1. DOMAIN Names32 = 1..17
        BY DEF Names32
    <2>2. trial'.in.r = r /\ trial'.out = out
        BY <1>3
    <2>3. r.half /\ out.status = 0 =>
            /\ r.request = "GETREGS" => \A k \in DOMAIN Names32 : out.block[k] = Of32(k)
            /\ r.request = "SETREGS" =>
                  /\ \A k \in DOMAIN Names32 : out.ptracee.user[Of32(k)] = <<700 + k, 0>>
                  /\ \A o \in Offsets : o >= U_DEBUGREG => out.ptracee.user[o] = <<o, 1>>
            /\ r.request \in {"PEEKUSER", "POKEUSER"} /\ n <= USER32_NB_REGS =>
                  /\ r.address % 4 = 0
                  /\ r.request = "PEEKUSER" => out.block[1] = Of32(n)
                  /\ r.request = "POKEUSER" =>
                        \A o \in Offsets : out.ptracee.user[o] = IF o = Of32(n) THEN r.data ELSE <<o, 1>>
        <3> SUFFICES ASSUME r.half, out.status = 0
                     PROVE  /\ r.request = "GETREGS" => \A k \in DOMAIN Names32 : out.block[k] = Of32(k)
                            /\ r.request = "SETREGS" =>
                                  /\ \A k \in DOMAIN Names32 : out.ptracee.user[Of32(k)] = <<700 + k, 0>>
                                  /\ \A o \in Offsets : o >= U_DEBUGREG => out.ptracee.user[o] = <<o, 1>>
                            /\ r.request \in {"PEEKUSER", "POKEUSER"} /\ n <= USER32_NB_REGS =>
                                  /\ r.address % 4 = 0
                                  /\ r.request = "PEEKUSER" => out.block[1] = Of32(n)
                                  /\ r.request = "POKEUSER" =>
                                        \A o \in Offsets :
                                            out.ptracee.user[o] = IF o = Of32(n) THEN r.data ELSE <<o, 1>>
            OBVIOUS
        <3>1. r.request = "GETREGS" => \A k \in DOMAIN Names32 : out.block[k] = Of32(k)
            BY <1>7, <2>1
        <3>2. ASSUME r.request = "SETREGS"
              PROVE  /\ \A k \in DOMAIN Names32 : out.ptracee.user[Of32(k)] = <<700 + k, 0>>
                     /\ \A o \in Offsets : o >= U_DEBUGREG => out.ptracee.user[o] = <<o, 1>>
            <4>1. \A k \in 1..17 : out.ptracee.user[Of32(k)] = <<700 + k, 0>>
                BY <1>8, <3>2
            <4>2. \A o \in Offsets : o >= U_DEBUGREG => out.ptracee.user[o] = <<o, 1>>
                BY <1>8, <3>2
            <4>3. \A k \in DOMAIN Names32 : out.ptracee.user[Of32(k)] = <<700 + k, 0>>
                <5> SUFFICES ASSUME NEW k \in DOMAIN Names32
                             PROVE  out.ptracee.user[Of32(k)] = <<700 + k, 0>>
                    OBVIOUS
                <5>1. k \in 1..17
                    BY <2>1
                <5> QED BY <4>1, <5>1
            <4> QED BY <4>2, <4>3
        <3>3. USER32_NB_REGS = 17
            BY DEF USER32_NB_REGS
        <3> QED BY <1>9, <3>1, <3>2, <3>3
    <2> QED BY <2>2, <2>3 DEF RegistersNamed, n
<1>13. OtherPartsKept'
    <2>1. trial'.in.r = r /\ trial'.out = out
        BY <1>3
    <2>2. out = translate_ptrace_exit(w, r)
        BY DEF out
    <2>3. \A part \in DOMAIN Stopped : part # PartOf(r.request) => out.ptracee[part] = Stopped[part]
        BY <2>2, <1>1, OthersKept
    <2>4. r.request = "POKEUSER" =>
              \A o \in Offsets : o # Offset64(r.half, r.address) => out.ptracee.user[o] = <<o, 1>>
        BY <2>2, <1>1, OneOffset
    <2> QED BY <2>1, <2>3, <2>4 DEF OtherPartsKept
<1> QED BY <1>10, <1>11, <1>12, <1>13 DEF RequestsExact

\* ptrace.c and user.c: whatever request a ptracer of either word size makes
\* and whichever of its steps fails, what it names is moved and the other parts
\* of the ptracee are left alone.
THEOREM RequestsExactHolds == RequestsSpec => []RequestsExact
<1>1. TrialInit => RequestsExact
    BY DEF TrialInit, NoTrial, RequestsExact, RequestExact, HalfWordKept, RegistersNamed, OtherPartsKept
<1>2. RequestsExact /\ [PtraceRequest]_trial => RequestsExact'
    <2> SUFFICES ASSUME RequestsExact, [PtraceRequest]_trial PROVE RequestsExact'
        OBVIOUS
    <2>1. CASE UNCHANGED trial
        <3>1. RequestExact'
            BY <2>1 DEF RequestsExact, RequestExact
        <3>2. HalfWordKept'
            BY <2>1 DEF RequestsExact, HalfWordKept
        <3>3. RegistersNamed'
            BY <2>1 DEF RequestsExact, RegistersNamed
        <3>4. OtherPartsKept'
            BY <2>1 DEF RequestsExact, OtherPartsKept
        <3> QED BY <3>1, <3>2, <3>3, <3>4 DEF RequestsExact
    <2>2. CASE PtraceRequest
        <3>1. PICK request \in Requests, half \in BOOLEAN, kernel \in {0, EIO}, bad \in 0..4 :
              \E address \in Addresses32(request), length \in Lengths(request) :
                 Tried(request, address, half, kernel, bad, length)
            BY <2>2 DEF PtraceRequest, Tried, Request, Asker
        <3>2. Addresses32(request) \subseteq Nat /\ Lengths(request) \subseteq Nat
            BY RequestsAssumption DEF Addresses32, Lengths
        <3> QED BY <3>1, <3>2, RequestTrial
    <2> QED BY <2>1, <2>2
<1> QED BY <1>1, <1>2, PTL DEF RequestsSpec

-----------------------------------------------------------------------------
(***************************************************************************)
(* What is taken from a program file is what it says: the proof of         *)
(* ProgramFileExact for any room, number of scripts and number of headers. *)
(*                                                                         *)
(* expand_shebang.  After n rounds either n scripts were followed, or what *)
(* ended it was found on the way (Following).  Interpreter is the same     *)
(* function whatever the number of files it is taken for (InterpreterSays).*)
(***************************************************************************)
LEMMA FilesAre ==
    ASSUME NEW fs \in [1..ProgramFiles -> FileKinds], NEW p \in 1..ProgramFiles
    PROVE  /\ fs[p].kind \in {"script", "program", "missing", "data", "unreadable", "unended"}
           /\ fs[p].to \in 0..ProgramFiles
<1>1. fs[p] \in FileKinds
    OBVIOUS
<1>2. 0 \in 0..ProgramFiles
    BY ExecveAssumption
<1> QED BY <1>1, <1>2 DEF FileKinds, FileKind

\* The files on the way, up to the k-th.
Way(fs, k) == CHOOSE f : f = [n \in 0..k |-> IF n = 0 THEN 1 ELSE IF f[n - 1] = 0 THEN 0 ELSE fs[f[n - 1]].to]

LEMMA WayGoes ==
    ASSUME NEW fs \in [1..ProgramFiles -> FileKinds], NEW k \in Nat
    PROVE  /\ Way(fs, k) \in [0..k -> 0..ProgramFiles]
           /\ Way(fs, k)[0] = 1
           /\ \A n \in 0..(k - 1) :
                 Way(fs, k)[n + 1] = IF Way(fs, k)[n] = 0 THEN 0 ELSE fs[Way(fs, k)[n]].to
<1> DEFINE D == 0..ProgramFiles
           w == Way(fs, k)
           Next_(x) == IF x = 0 THEN 0 ELSE fs[x].to
           step == [z \in (1..k) \X D |-> Next_(z[2])]
           Is(f) == f = [n \in 0..k |-> IF n = 0 THEN 1 ELSE Next_(f[n - 1])]
<1>1. 1 \in D /\ \A x \in D : Next_(x) \in D
    <2>1. ProgramFiles \in Nat \ {0}
        BY ExecveAssumption
    <2>2. \A x \in D : x = 0 \/ x \in 1..ProgramFiles
        BY <2>1
    <2> QED BY <2>1, <2>2, FilesAre
<1> HIDE DEF D, Next_
<1>2. step \in [(1..k) \X D -> D]
    BY <1>1
<1>3. PICK f \in [0..k -> D] : IsLoop(f, k, 1, step)
    <2> HIDE DEF step
    <2> QED BY <1>1, <1>2, LoopExists
<1>4. \A n \in 0..k : f[n] = IF n = 0 THEN 1 ELSE step[<<n, f[n - 1]>>]
    BY <1>3 DEF IsLoop
<1>5. \A n \in 0..k : f[n] = IF n = 0 THEN 1 ELSE Next_(f[n - 1])
    <2> SUFFICES ASSUME NEW n \in 0..k, n # 0
                 PROVE  f[n] = Next_(f[n - 1])
        BY <1>4
    <2>1. n \in 1..k /\ f[n - 1] \in D
        BY <1>3
    <2> QED BY <2>1, <1>4
<1>6. Is(f)
    BY <1>3, <1>5
<1>7. w = CHOOSE g : Is(g)
    BY DEF Way, Next_
<1>8. Is(w)
    BY <1>6, <1>7
<1> HIDE DEF w
<1> DEFINE S == {n \in 0..k : w[n] = f[n]}
<1>9. \A n \in 0..k : n \in S
    <2>1. 0 \in S
        BY <1>5, <1>8
    <2>2. ASSUME NEW n \in 0..(k - 1), n \in S
          PROVE  n + 1 \in S
        BY <1>5, <1>8, <2>2
    <2> HIDE DEF S
    <2> QED BY <2>1, <2>2, InductionUpTo
<1>10. w = f
    BY <1>3, <1>8, <1>9
<1>11. w[0] = 1 /\ \A n \in 0..(k - 1) : w[n + 1] = Next_(w[n])
    BY <1>8
<1> QED BY <1>3, <1>10, <1>11 DEF w, Next_, D

\* The k-th interpreter, and the one behind it.
LEMMA InterpreterSays ==
    ASSUME NEW fs \in [1..ProgramFiles -> FileKinds]
    PROVE  /\ Interpreter(fs, 0) = 1
           /\ \A k \in Nat :
                 /\ Interpreter(fs, k) \in 0..ProgramFiles
                 /\ Interpreter(fs, k + 1) =
                       IF Interpreter(fs, k) = 0 THEN 0 ELSE fs[Interpreter(fs, k)].to
<1>1. \A k : Interpreter(fs, k) = Way(fs, k)[k]
    BY DEF Interpreter, Way
<1>2. ASSUME NEW k \in Nat
      PROVE  \A n \in 0..k : Way(fs, k + 1)[n] = Way(fs, k)[n]
    <2> DEFINE v == Way(fs, k)
               w == Way(fs, k + 1)
               S == {n \in 0..k : w[n] = v[n]}
    <2>4. /\ v[0] = 1
          /\ \A n \in 0..(k - 1) : v[n + 1] = IF v[n] = 0 THEN 0 ELSE fs[v[n]].to
        BY WayGoes
    <2>5. /\ w[0] = 1
          /\ \A n \in 0..(k + 1 - 1) : w[n + 1] = IF w[n] = 0 THEN 0 ELSE fs[w[n]].to
        <3> DEFINE m == k + 1
        <3>1. m \in Nat
            OBVIOUS
        <3> HIDE DEF m
        <3>2. /\ Way(fs, m)[0] = 1
              /\ \A n \in 0..(m - 1) :
                    Way(fs, m)[n + 1] = IF Way(fs, m)[n] = 0 THEN 0 ELSE fs[Way(fs, m)[n]].to
            BY <3>1, WayGoes
        <3> QED BY <3>2 DEF m, w
    <2> HIDE DEF v, w
    <2>1. 0 \in S
        BY <2>4, <2>5
    <2>2. ASSUME NEW n \in 0..(k - 1), n \in S
          PROVE  n + 1 \in S
        <3>1. n \in 0..(k + 1 - 1) /\ n + 1 \in 0..k
            OBVIOUS
        <3> QED BY <2>2, <2>4, <2>5, <3>1
    <2> HIDE DEF S
    <2>3. \A n \in 0..k : n \in S
        BY <2>1, <2>2, InductionUpTo
    <2> QED BY <2>3 DEF S, v, w
<1>3. ASSUME NEW k \in Nat
      PROVE  /\ Interpreter(fs, k) \in 0..ProgramFiles
             /\ Interpreter(fs, k + 1) = IF Interpreter(fs, k) = 0 THEN 0 ELSE fs[Interpreter(fs, k)].to
    <2>1. k \in 0..k /\ k \in 0..(k + 1 - 1) /\ k + 1 \in Nat
        OBVIOUS
    <2>2. Way(fs, k + 1)[k] = Interpreter(fs, k)
        BY <1>1, <1>2, <2>1
    <2>3. Way(fs, k + 1)[k + 1] =
            IF Way(fs, k + 1)[k] = 0 THEN 0 ELSE fs[Way(fs, k + 1)[k]].to
 
        <3> DEFINE m == k + 1
        <3>1. m \in Nat /\ k \in 0..(m - 1)
            OBVIOUS
        <3> HIDE DEF m
        <3>2. \A n \in 0..(m - 1) :
                 Way(fs, m)[n + 1] = IF Way(fs, m)[n] = 0 THEN 0 ELSE fs[Way(fs, m)[n]].to
            BY <3>1, WayGoes
        <3>3. Way(fs, m)[k + 1] = IF Way(fs, m)[k] = 0 THEN 0 ELSE fs[Way(fs, m)[k]].to
            BY <3>1, <3>2
        <3> QED BY <3>3 DEF m
    <2>4. Way(fs, k)[k] \in 0..ProgramFiles
        BY <2>1, WayGoes
    <2> QED BY <1>1, <2>2, <2>3, <2>4
<1>4. Interpreter(fs, 0) = 1
    BY <1>1, WayGoes
<1> QED BY <1>3, <1>4

\* Where the loop is after n rounds.
Rounds(fs, times) ==
    CHOOSE f : f = [n \in 0..times |-> IF n = 0 THEN [path |-> 1, status |-> 0, done |-> FALSE]
                                       ELSE ExpandOnce(fs, f[n - 1])]
States == [path : 0..ProgramFiles, status : Int, done : BOOLEAN]

\* Once round the loop.
After(fs, s) ==
    LET Status(p) == IF p = 0 THEN NOEXEC ELSE IF fs[p].kind = "missing" THEN NOENT
                     ELSE IF fs[p].kind = "data" THEN ACCES ELSE 1
        end(status) == [path |-> s.path, status |-> status, done |-> TRUE]
    IN  IF s.path = 0 THEN end(NOEXEC)
        ELSE CASE fs[s.path].kind = "missing" -> end(NOENT)
               [] fs[s.path].kind \in {"data", "unreadable"} -> end(ACCES)
               [] fs[s.path].kind = "unended" -> end(NOEXEC)
               [] fs[s.path].kind = "program" -> end(s.status)
               [] fs[s.path].kind = "script" ->
                    [path |-> fs[s.path].to, status |-> Status(fs[s.path].to),
                     done |-> Status(fs[s.path].to) # 1]

LEMMA OnceSays ==
    ASSUME NEW fs \in [1..ProgramFiles -> FileKinds], NEW s \in States, ~s.done
    PROVE  ExpandOnce(fs, s) = After(fs, s)
<1>2. CASE s.path = 0
    BY <1>2 DEF ExpandOnce, After, translate_and_check_exec, NOEXEC
<1>3. CASE s.path # 0
    <2>1. s.path \in 1..ProgramFiles
        BY <1>3, ExecveAssumption DEF States
    <2> DEFINE p == s.path
               t == fs[p].to
               checked == translate_and_check_exec(fs, p)
               shebang == ShebangOf(fs, p)
    <2>2. /\ fs[p].kind \in {"script", "program", "missing", "data", "unreadable", "unended"}
          /\ t \in 0..ProgramFiles
        BY <2>1, FilesAre
    <2>3. CASE fs[p].kind = "missing"
        <3>1. checked = NOENT
            BY <1>3, <2>3 DEF translate_and_check_exec
        <3> QED BY <1>3, <2>3, <3>1 DEF ExpandOnce, After, NOENT
    <2>4. CASE fs[p].kind = "data"
        <3>1. checked = ACCES
            BY <1>3, <2>4 DEF translate_and_check_exec
        <3> QED BY <1>3, <2>4, <3>1 DEF ExpandOnce, After, ACCES
    <2>5. ASSUME fs[p].kind \notin {"missing", "data"}
          PROVE  checked = 0
        BY <1>3, <2>5 DEF translate_and_check_exec
    <2>6. CASE fs[p].kind = "unreadable"
        <3>1. shebang = ACCES
            BY <2>6 DEF ShebangOf
        <3> QED BY <1>3, <2>5, <2>6, <3>1 DEF ExpandOnce, After, ACCES
    <2>7. CASE fs[p].kind = "unended"
        <3>1. shebang = NOEXEC
            BY <2>7 DEF ShebangOf
        <3> QED BY <1>3, <2>5, <2>7, <3>1 DEF ExpandOnce, After, NOEXEC
    <2>8. CASE fs[p].kind = "program"
        <3>1. shebang = 0
            BY <2>8 DEF ShebangOf
        <3> QED BY <1>3, <2>5, <2>8, <3>1 DEF ExpandOnce, After
    <2>9. CASE fs[p].kind = "script"
        <3>1. shebang = 1
            BY <2>9 DEF ShebangOf
        <3> DEFINE interpreter == translate_and_check_exec(fs, t)
        <3>2. interpreter = IF t = 0 THEN NOEXEC ELSE IF fs[t].kind = "missing" THEN NOENT
                            ELSE IF fs[t].kind = "data" THEN ACCES ELSE 0
            BY DEF translate_and_check_exec
        <3>3. ExpandOnce(fs, s) =
                [path |-> t, status |-> IF interpreter < 0 THEN interpreter ELSE 1,
                 done |-> interpreter < 0]
            BY <1>3, <2>5, <2>9, <3>1 DEF ExpandOnce
        <3> HIDE DEF interpreter
        <3> DEFINE status == IF t = 0 THEN NOEXEC ELSE IF fs[t].kind = "missing" THEN NOENT
                             ELSE IF fs[t].kind = "data" THEN ACCES ELSE 1
        <3>5. After(fs, s) = [path |-> t, status |-> status, done |-> status # 1]
            BY <1>3, <2>9 DEF After
        <3>6. /\ status = IF interpreter < 0 THEN interpreter ELSE 1
              /\ (status # 1) = (interpreter < 0)
            BY <3>2 DEF NOEXEC, NOENT, ACCES
        <3> HIDE DEF status
        <3>4. After(fs, s) =
                [path |-> t, status |-> IF interpreter < 0 THEN interpreter ELSE 1,
                 done |-> interpreter < 0]
            BY <3>5, <3>6
        <3> QED BY <3>3, <3>4
    <2> QED BY <2>2, <2>3, <2>4, <2>6, <2>7, <2>8, <2>9
<1> QED BY <1>2, <1>3

LEMMA OnceTyped ==
    ASSUME NEW fs \in [1..ProgramFiles -> FileKinds], NEW s \in States
    PROVE  ExpandOnce(fs, s) \in States
<1>1. CASE s.done
    BY <1>1 DEF ExpandOnce
<1>2. CASE ~s.done
    <2>1. s.path = 0 \/ s.path \in 1..ProgramFiles
        BY ExecveAssumption DEF States
    <2>2. s.path # 0 => fs[s.path].to \in 0..ProgramFiles
                        /\ fs[s.path].kind \in {"script", "program", "missing", "data", "unreadable", "unended"}
        BY <2>1, FilesAre
    <2>3. After(fs, s) \in States
        BY <2>2 DEF After, States, NOENT, NOEXEC, ACCES
    <2> QED BY <1>2, <2>3, OnceSays
<1> QED BY <1>1, <1>2 DEF States

LEMMA RoundsGo ==
    ASSUME NEW fs \in [1..ProgramFiles -> FileKinds], NEW times \in Nat
    PROVE  /\ Rounds(fs, times) \in [0..times -> States]
           /\ Rounds(fs, times)[0] = [path |-> 1, status |-> 0, done |-> FALSE]
           /\ \A n \in 0..(times - 1) :
                 Rounds(fs, times)[n + 1] = ExpandOnce(fs, Rounds(fs, times)[n])
<1> DEFINE w == Rounds(fs, times)
           b == [path |-> 1, status |-> 0, done |-> FALSE]
           step == [z \in (1..times) \X States |-> ExpandOnce(fs, z[2])]
           Is(f) == f = [n \in 0..times |-> IF n = 0 THEN b ELSE ExpandOnce(fs, f[n - 1])]
<1>1. b \in States
    BY ExecveAssumption DEF States
<1>2. step \in [(1..times) \X States -> States]
    BY OnceTyped
<1> HIDE DEF b
<1>3. PICK f \in [0..times -> States] : IsLoop(f, times, b, step)
    <2> HIDE DEF step
    <2> QED BY <1>1, <1>2, LoopExists
<1>4. \A n \in 0..times : f[n] = IF n = 0 THEN b ELSE step[<<n, f[n - 1]>>]
    BY <1>3 DEF IsLoop
<1>5. \A n \in 0..times : f[n] = IF n = 0 THEN b ELSE ExpandOnce(fs, f[n - 1])
    <2> SUFFICES ASSUME NEW n \in 0..times, n # 0
                 PROVE  f[n] = ExpandOnce(fs, f[n - 1])
        BY <1>4
    <2>1. n \in 1..times /\ f[n - 1] \in States
        BY <1>3
    <2> QED BY <2>1, <1>4
<1>6. Is(f)
    BY <1>3, <1>5
<1>7. w = CHOOSE g : Is(g)
    BY DEF Rounds, b
<1>8. Is(w)
    BY <1>6, <1>7
<1> HIDE DEF w
<1> DEFINE S == {n \in 0..times : w[n] = f[n]}
<1>9. \A n \in 0..times : n \in S
    <2>1. 0 \in S
        BY <1>5, <1>8
    <2>2. ASSUME NEW n \in 0..(times - 1), n \in S
          PROVE  n + 1 \in S
        BY <1>5, <1>8, <2>2
    <2> HIDE DEF S
    <2> QED BY <2>1, <2>2, InductionUpTo
<1>10. w = f
    BY <1>3, <1>8, <1>9
<1>11. w[0] = b /\ \A n \in 0..(times - 1) : w[n + 1] = ExpandOnce(fs, w[n])
    BY <1>8
<1> QED BY <1>3, <1>10, <1>11 DEF w, b

\* The first k files are scripts.
Scripts(fs, k) ==
    \A j \in 0..(k - 1) : Interpreter(fs, j) # 0 /\ fs[Interpreter(fs, j)].kind = "script"

\* The k-th is the program that runs.
RunsAt(fs, k) ==
    /\ Interpreter(fs, k) # 0 /\ fs[Interpreter(fs, k)].kind = "program"
    /\ Scripts(fs, k)

\* The k-th can neither be run nor leads on.
EndsBadly(fs, k) ==
    /\ Interpreter(fs, k) # 0 => fs[Interpreter(fs, k)].kind \notin {"script", "program"}
    /\ Scripts(fs, k)

\* What is known after n rounds.
Following(fs, n, s) ==
    IF ~s.done
    THEN /\ Scripts(fs, n) /\ s.path = Interpreter(fs, n) /\ s.status = (IF n > 0 THEN 1 ELSE 0)
    ELSE \/ \E k \in 0..(n - 1) : /\ RunsAt(fs, k) /\ s.path = Interpreter(fs, k)
                                  /\ s.status = (IF k > 0 THEN 1 ELSE 0)
         \/ s.status \in {NOENT, NOEXEC, ACCES} /\ \E k \in 0..n : EndsBadly(fs, k)

LEMMA FollowsOnce ==
    ASSUME NEW fs \in [1..ProgramFiles -> FileKinds], NEW n \in Nat, NEW s \in States,
           Following(fs, n, s)
    PROVE  Following(fs, n + 1, ExpandOnce(fs, s))
<1>1. CASE s.done
    BY <1>1 DEF ExpandOnce, Following
<1>2. CASE ~s.done
    <2> DEFINE i == Interpreter(fs, n)
               next == Interpreter(fs, n + 1)
    <2>1. s.path = i /\ Scripts(fs, n) /\ s.status = (IF n > 0 THEN 1 ELSE 0)
        BY <1>2 DEF Following
    <2>2. i \in 0..ProgramFiles /\ next = (IF i = 0 THEN 0 ELSE fs[i].to) /\ next \in 0..ProgramFiles
        <3>1. n + 1 \in Nat
            OBVIOUS
        <3>2. next = (IF i = 0 THEN 0 ELSE fs[i].to) /\ i \in 0..ProgramFiles
            BY InterpreterSays
        <3>3. next \in 0..ProgramFiles
            BY <3>1, InterpreterSays
        <3> QED BY <3>2, <3>3
    <2>3. \A p \in 1..ProgramFiles : fs[p].kind \in {"script", "program", "missing", "data", "unreadable", "unended"}
        BY FilesAre
    <2>4. i = 0 \/ i \in 1..ProgramFiles
        BY <2>2, ExecveAssumption
    <2>5. next = 0 \/ next \in 1..ProgramFiles
        BY <2>2, ExecveAssumption
    <2>6. ExpandOnce(fs, s) = After(fs, s)
        BY <1>2, OnceSays
    <2> HIDE DEF i, next
    <2>7. CASE i = 0 \/ fs[i].kind \notin {"script", "program"}
        <3>1. After(fs, s).done /\ After(fs, s).status \in {NOENT, NOEXEC, ACCES}
            BY <2>1, <2>3, <2>4, <2>7 DEF After
        <3>2. EndsBadly(fs, n) /\ n \in 0..(n + 1)
            BY <2>1, <2>7 DEF EndsBadly, i
        <3> QED BY <2>6, <3>1, <3>2 DEF Following
    <2>8. CASE i # 0 /\ fs[i].kind = "program"
        <3>1. After(fs, s) = [path |-> i, status |-> s.status, done |-> TRUE]
            BY <2>1, <2>8 DEF After
        <3>2. RunsAt(fs, n) /\ n \in 0..(n + 1 - 1)
            BY <2>1, <2>8 DEF RunsAt, i
        <3> QED BY <2>1, <2>6, <3>1, <3>2 DEF Following, i
    <2>9. CASE i # 0 /\ fs[i].kind = "script"
        <3>1. Scripts(fs, n + 1)
            <4>1. \A j \in 0..(n + 1 - 1) : j \in 0..(n - 1) \/ j = n
                OBVIOUS
            <4> QED BY <2>1, <2>9, <4>1 DEF Scripts, i
        <3>2. fs[s.path].to = next
            BY <2>1, <2>2, <2>9
        <3>3. CASE next = 0 \/ fs[next].kind \in {"missing", "data"}
            <4>1. After(fs, s).done /\ After(fs, s).status \in {NOENT, NOEXEC, ACCES}
                <5> DEFINE status == IF next = 0 THEN NOEXEC ELSE IF fs[next].kind = "missing" THEN NOENT
                                     ELSE IF fs[next].kind = "data" THEN ACCES ELSE 1
                <5>1. After(fs, s) = [path |-> next, status |-> status, done |-> status # 1]
                    BY <2>1, <2>9, <3>2 DEF After
                <5>2. status \in {NOENT, NOEXEC, ACCES} /\ status # 1
                    BY <3>3 DEF NOENT, NOEXEC, ACCES
                <5> HIDE DEF status
                <5>3. (status # 1) = TRUE
                    BY <5>2
                <5>4. After(fs, s) = [path |-> next, status |-> status, done |-> TRUE]
                    BY <5>1, <5>3
                <5> QED BY <5>2, <5>4
            <4>2. EndsBadly(fs, n + 1) /\ n + 1 \in 0..(n + 1)
                BY <3>1, <3>3 DEF EndsBadly, next
            <4> QED BY <2>6, <4>1, <4>2 DEF Following
        <3>4. CASE ~(next = 0 \/ fs[next].kind \in {"missing", "data"})
            <4>1. After(fs, s) = [path |-> next, status |-> 1, done |-> FALSE]
                BY <2>1, <2>9, <3>2, <3>4 DEF After
            <4> QED BY <2>6, <3>1, <4>1 DEF Following, next
        <3> QED BY <3>3, <3>4
    <2> QED BY <2>7, <2>8, <2>9
<1> QED BY <1>1, <1>2 DEF States

LEMMA ExpandSays ==
    ASSUME ExpandShebang
    PROVE  ExpandExact'
<1>1. PICK fs \in [1..ProgramFiles -> FileKinds] : Try("expand", fs, expand_shebang(fs, 1))
    BY DEF ExpandShebang
<1> DEFINE m == MAXSYMLINKS
           w == Rounds(fs, m)
           s == w[m]
           out == expand_shebang(fs, 1)
           runs == {k \in 0..(m - 1) : RunsAt(fs, k)}
<1>2. m \in Nat \ {0}
    BY ExecveAssumption
<1>3. /\ w \in [0..m -> States] /\ w[0] = [path |-> 1, status |-> 0, done |-> FALSE]
      /\ \A n \in 0..(m - 1) : w[n + 1] = ExpandOnce(fs, w[n])
    BY <1>2, RoundsGo
<1>4. out = IF s.done THEN s ELSE [s EXCEPT !.status = LOOP]
    BY DEF expand_shebang, Expanded, Rounds
<1> HIDE DEF w, m
<1> DEFINE S == {n \in 0..m : Following(fs, n, w[n])}
<1>5. Following(fs, m, s)
    <2>1. 0 \in S
        <3>1. Scripts(fs, 0)
            BY DEF Scripts
        <3>2. Interpreter(fs, 0) = 1
            BY InterpreterSays
        <3>3. Following(fs, 0, w[0])
            BY <1>3, <3>1, <3>2 DEF Following
        <3> QED BY <1>2, <3>3
    <2>2. ASSUME NEW n \in 0..(m - 1), n \in S
          PROVE  n + 1 \in S
        <3>1. n \in Nat /\ n \in 0..m /\ n + 1 \in 0..m /\ w[n] \in States
            BY <1>2, <1>3
        <3> QED BY <1>3, <2>2, <3>1, FollowsOnce
    <2> HIDE DEF S
    <2>3. \A n \in 0..m : n \in S
        BY <1>2, <2>1, <2>2, InductionUpTo
    <2>4. m \in S
        BY <1>2, <2>3
    <2> QED BY <2>4 DEF S
<1>6. s \in States
    BY <1>2, <1>3
<1> HIDE DEF out, s
<1>7. ASSUME NEW k \in Nat, Scripts(fs, k), NEW j \in 0..(k - 1)
      PROVE  ~RunsAt(fs, j) /\ ~EndsBadly(fs, j)
    BY <1>7 DEF Scripts, RunsAt, EndsBadly
<1> DEFINE Exact == /\ out.status >= 0 <=> runs # {}
                    /\ \A k \in runs : /\ out.path = Interpreter(fs, k)
                                       /\ out.status = (IF k > 0 THEN 1 ELSE 0)
                    /\ out.status = LOOP => Scripts(fs, m)
<1>8. Exact
    <2>1. CASE ~s.done
        <3>1. out.status = LOOP
            BY <1>4, <1>6, <2>1 DEF States
        <3>2. Scripts(fs, m)
            BY <1>5, <2>1 DEF Following
        <3>3. runs = {}
            BY <1>2, <1>7, <3>2
        <3> QED BY <3>1, <3>2, <3>3 DEF LOOP
    <2>2. ASSUME s.done, NEW k \in 0..(m - 1), RunsAt(fs, k), s.path = Interpreter(fs, k),
                 s.status = (IF k > 0 THEN 1 ELSE 0)
          PROVE  Exact
        <3>1. ASSUME NEW j \in runs
              PROVE  j = k
            <4>1. j \in 0..(m - 1) /\ RunsAt(fs, j)
                OBVIOUS
            <4>2. ~(j < k)
                BY <1>2, <1>7, <2>2, <4>1 DEF RunsAt
            <4>3. ~(k < j)
                BY <1>2, <1>7, <2>2, <4>1 DEF RunsAt
            <4> QED BY <1>2, <4>1, <4>2, <4>3
        <3>2. k \in runs
            BY <2>2
        <3>3. out = s /\ out.status >= 0 /\ out.status # LOOP
            BY <1>4, <2>2 DEF LOOP
        <3> HIDE DEF runs
        <3> QED BY <2>2, <3>1, <3>2, <3>3
    <2>3. ASSUME s.done, s.status \in {NOENT, NOEXEC, ACCES}, NEW k \in 0..m, EndsBadly(fs, k)
          PROVE  Exact
        <3>1. ASSUME NEW j \in runs
              PROVE  FALSE
            <4>1. j \in 0..(m - 1) /\ RunsAt(fs, j)
                OBVIOUS
            <4>2. ~(j < k)
                BY <1>2, <1>7, <2>3, <4>1 DEF EndsBadly
            <4>3. ~(k < j)
                BY <1>2, <1>7, <2>3, <4>1 DEF RunsAt
            <4>4. k # j
                BY <2>3, <4>1 DEF RunsAt, EndsBadly
            <4> QED BY <1>2, <4>1, <4>2, <4>3, <4>4
        <3>2. ~(out.status >= 0) /\ out.status # LOOP
            BY <1>4, <2>3 DEF LOOP, NOENT, NOEXEC, ACCES
        <3> HIDE DEF runs
        <3> QED BY <3>1, <3>2
    <2>4. ~s.done \/ s.done
        BY <1>6 DEF States
    <2> HIDE DEF runs, Exact
    <2>5. CASE s.done
        <3>1. \/ \E k \in 0..(m - 1) : RunsAt(fs, k) /\ s.path = Interpreter(fs, k)
                                       /\ s.status = (IF k > 0 THEN 1 ELSE 0)
              \/ s.status \in {NOENT, NOEXEC, ACCES} /\ \E k \in 0..m : EndsBadly(fs, k)
            BY <1>5, <2>5 DEF Following
        <3>2. CASE \E k \in 0..(m - 1) : RunsAt(fs, k) /\ s.path = Interpreter(fs, k)
                                       /\ s.status = (IF k > 0 THEN 1 ELSE 0)
            <4>1. PICK k \in 0..(m - 1) : /\ RunsAt(fs, k) /\ s.path = Interpreter(fs, k)
                                          /\ s.status = (IF k > 0 THEN 1 ELSE 0)
                BY <3>2
            <4> QED BY <2>2, <2>5, <4>1
        <3>3. CASE s.status \in {NOENT, NOEXEC, ACCES} /\ \E k \in 0..m : EndsBadly(fs, k)
            <4>1. PICK k \in 0..m : EndsBadly(fs, k)
                BY <3>3
            <4> QED BY <2>3, <2>5, <3>3, <4>1
        <3> QED BY <3>1, <3>2, <3>3
    <2> QED BY <2>1, <2>4, <2>5
<1>9. trial' = [op |-> "expand", in |-> fs, out |-> out]
    BY <1>1 DEF Try, out
<1> QED BY <1>8, <1>9 DEF ExpandExact, RunsAt, Scripts, m

-----------------------------------------------------------------------------
(***************************************************************************)
(* iterate_program_headers.  As long as no status was told, what was found *)
(* in n headers is what they say (Fine); the mappings keep the order of the*)
(* headers (InOrderGrows).                                                 *)
(***************************************************************************)
LEMMA HeaderIs ==
    ASSUME NEW h \in Headers
    PROVE  \/ h.type = "LOAD" /\ h.segment \in 1..2
           \/ h.type = "INTERP" /\ h.path = 1 /\ h.status \in {0, NOENT, ACCES}
           \/ h.type = "GNU_STACK" /\ h.exec \in BOOLEAN
           \/ h.type = "NOTE"
BY DEF Headers

\* What is known of a file.
LEMMA ElfIs ==
    ASSUME NEW elf \in ElfFiles
    PROVE  /\ elf.headers \in Seq(Headers) /\ elf.phnum \in Nat /\ Len(elf.headers) <= elf.phnum
           /\ elf.big \in Nat /\ Len(elf.headers) < elf.big
           /\ {elf.opens, elf.short, elf.magic, elf.known} \subseteq BOOLEAN
<1>1. MaxHeaders \in Nat
    BY ExecveAssumption
<1>2. ASSUME NEW n \in 0..MaxHeaders, NEW hs \in [1..n -> Headers], NEW k \in {n, n + 1},
             elf = Elf(hs, k)
      PROVE  /\ elf.headers \in Seq(Headers) /\ elf.phnum \in Nat /\ Len(elf.headers) <= elf.phnum
             /\ elf.big \in Nat /\ Len(elf.headers) < elf.big
             /\ {elf.opens, elf.short, elf.magic, elf.known} \subseteq BOOLEAN
    <2>1. hs \in Seq(Headers) /\ Len(hs) = n
        BY <1>2
    <2> QED BY <1>1, <1>2, <2>1 DEF Elf
<1> DEFINE e == Elf(<<>>, 0)
<1>3. ASSUME elf \in OddElfs
      PROVE  /\ elf.headers \in Seq(Headers) /\ elf.phnum \in Nat /\ Len(elf.headers) <= elf.phnum
             /\ elf.big \in Nat /\ Len(elf.headers) < elf.big
             /\ {elf.opens, elf.short, elf.magic, elf.known} \subseteq BOOLEAN
    <2>1. /\ elf.headers = <<>> /\ elf.phnum \in {0, MaxHeaders + 2} /\ elf.big = MaxHeaders + 2
          /\ {elf.opens, elf.short, elf.magic, elf.known} \subseteq BOOLEAN
        <3>1. CASE elf = [e EXCEPT !.opens = FALSE]
            BY <3>1 DEF Elf
        <3>2. CASE elf = [e EXCEPT !.short = TRUE]
            BY <3>2 DEF Elf
        <3>3. CASE elf = [e EXCEPT !.magic = FALSE]
            BY <3>3 DEF Elf
        <3>4. CASE elf \in {[e EXCEPT !.class = 0], [e EXCEPT !.class = 32]}
            BY <3>4 DEF Elf
        <3>5. CASE elf \in {[e EXCEPT !.type = "REL"], [e EXCEPT !.type = "EXEC"]}
            BY <3>5 DEF Elf
        <3>6. CASE elf = [e EXCEPT !.known = FALSE]
            BY <3>6 DEF Elf
        <3>7. CASE elf = [e EXCEPT !.phnum = e.big]
            BY <3>7 DEF Elf
        <3> HIDE DEF e
        <3>8. elf \in {[e EXCEPT !.opens = FALSE], [e EXCEPT !.short = TRUE], [e EXCEPT !.magic = FALSE],
                       [e EXCEPT !.class = 0], [e EXCEPT !.type = "REL"], [e EXCEPT !.known = FALSE],
                       [e EXCEPT !.phnum = e.big], [e EXCEPT !.class = 32], [e EXCEPT !.type = "EXEC"]}
            BY <1>3 DEF OddElfs, e
        <3> QED BY <3>1, <3>2, <3>3, <3>4, <3>5, <3>6, <3>7, <3>8
    <2>2. <<>> \in Seq(Headers) /\ Len(<<>>) = 0
        OBVIOUS
    <2> QED BY <1>1, <2>1, <2>2
<1>4. \/ \E n \in 0..MaxHeaders : \E hs \in [1..n -> Headers], k \in {n, n + 1} : elf = Elf(hs, k)
      \/ elf \in OddElfs
    <2> DEFINE Made(n) == {Elf(headers, k) : headers \in [1..n -> Headers], k \in {n, n + 1}}
    <2>1. CASE elf \in PlainElfs
        <3>1. PICK n \in 0..MaxHeaders : elf \in Made(n)
            BY <2>1 DEF PlainElfs
        <3> QED BY <3>1
    <2> QED BY <2>1 DEF ElfFiles
<1> QED BY <1>2, <1>3, <1>4

LoadInfos == [status : Int, mappings : Seq(1..2), interp : {0, 1}, stack : BOOLEAN]

\* One more header.
LEMMA NextSays ==
    ASSUME NEW elf \in ElfFiles, NEW n \in Nat \ {0}, NEW s \in LoadInfos,
           NEW t, t = next_header(elf, s, n), NEW h, h = elf.headers[n]
    PROVE  /\ t \in LoadInfos
           /\ s.status # 0 => t = s
           /\ s.status = 0 /\ n > Len(elf.headers) => t.status = NOTSUP
           /\ s.status = 0 /\ n <= Len(elf.headers) =>
                 /\ t.mappings = IF h.type = "LOAD" THEN Append(s.mappings, h.segment) ELSE s.mappings
                 /\ t.status = IF h.type # "INTERP" THEN 0 ELSE IF s.interp # 0 THEN INVAL ELSE h.status
                 /\ t.interp = IF h.type = "INTERP" /\ s.interp = 0 THEN h.path ELSE s.interp
                 /\ t.stack = IF h.type = "GNU_STACK" THEN s.stack \/ h.exec ELSE s.stack
<1>1. CASE s.status # 0
    BY <1>1 DEF next_header
<1>2. CASE s.status = 0 /\ n > Len(elf.headers)
    BY <1>2 DEF next_header, LoadInfos, NOTSUP
<1>3. CASE s.status = 0 /\ ~(n > Len(elf.headers))
    <2>1. elf.headers \in Seq(Headers)
        BY ElfIs
    <2>2. n \in 1..Len(elf.headers) /\ h \in Headers
        BY <1>3, <2>1
    <2>3. t = add_load_info(s, h)
        BY <1>3 DEF next_header
    <2>4. CASE h.type = "LOAD"
        <3>1. h.segment \in 1..2
            BY <2>2, <2>4, HeaderIs
        <3>2. Append(s.mappings, h.segment) \in Seq(1..2)
            BY <3>1 DEF LoadInfos
        <3>3. t = [s EXCEPT !.mappings = Append(@, h.segment)]
            BY <2>3, <2>4 DEF add_load_info
        <3> QED BY <1>3, <2>2, <2>4, <3>2, <3>3 DEF LoadInfos
    <2>5. CASE h.type = "INTERP"
        <3>1. h.path = 1 /\ h.status \in {0, NOENT, ACCES}
            BY <2>2, <2>5, HeaderIs
        <3>2. t = IF s.interp # 0 THEN [s EXCEPT !.status = INVAL]
                  ELSE [s EXCEPT !.interp = h.path, !.status = h.status]
            BY <2>3, <2>5 DEF add_load_info, add_interp, NoInterp
        <3>3. CASE s.interp # 0
            BY <1>3, <2>2, <2>5, <3>2, <3>3 DEF LoadInfos, INVAL
        <3>4. CASE s.interp = 0
            <4>1. t = [s EXCEPT !.interp = h.path, !.status = h.status]
                BY <3>2, <3>4
            <4>2. t.interp = 1 /\ t.status = h.status /\ t.mappings = s.mappings /\ t.stack = s.stack
                BY <3>1, <4>1 DEF LoadInfos
            <4>4. h.status \in Int
                BY <3>1 DEF NOENT, ACCES
            <4>3. t \in LoadInfos
                BY <3>1, <4>1, <4>4 DEF LoadInfos
            <4> QED BY <1>3, <2>2, <2>5, <3>1, <3>4, <4>2, <4>3
        <3> QED BY <3>3, <3>4
    <2>6. CASE h.type = "GNU_STACK"
        <3>1. h.exec \in BOOLEAN
            BY <2>2, <2>6, HeaderIs
        <3>2. t = [s EXCEPT !.stack = @ \/ h.exec]
            BY <2>3, <2>6 DEF add_load_info
        <3> QED BY <1>3, <2>2, <2>6, <3>1, <3>2 DEF LoadInfos
    <2>7. CASE h.type \notin {"LOAD", "INTERP", "GNU_STACK"}
        <3>1. t = s
            BY <2>3, <2>7 DEF add_load_info
        <3> QED BY <1>3, <2>2, <2>7, <3>1 DEF LoadInfos
    <2> QED BY <2>4, <2>5, <2>6, <2>7
<1>4. Len(elf.headers) \in Nat
    BY ElfIs
<1> QED BY <1>1, <1>2, <1>3, <1>4 DEF LoadInfos

\* The first n headers of a type.
First(elf, n, type) == {k \in DOMAIN elf.headers : k <= n /\ elf.headers[k].type = type}

\* What is known after n headers.
Fine(elf, n) ==
    /\ n <= Len(elf.headers)
    /\ \A j, k \in First(elf, n, "INTERP") : j = k /\ elf.headers[k].status = 0

Told(elf, n, s) ==
    /\ InOrder(s.mappings, elf.headers, First(elf, n, "LOAD"))
    /\ First(elf, n, "INTERP") = {} => s.interp = 0
    /\ \A k \in First(elf, n, "INTERP") : s.interp = elf.headers[k].path
    /\ s.stack <=> \E k \in First(elf, n, "GNU_STACK") : elf.headers[k].exec

Loaded(elf, n, s) == (s.status = 0 <=> Fine(elf, n)) /\ (s.status = 0 => Told(elf, n, s))

LEMMA FirstGrows ==
    ASSUME NEW elf \in ElfFiles, NEW n \in Nat, NEW type
    PROVE  First(elf, n + 1, type) =
              First(elf, n, type)
              \cup (IF n + 1 <= Len(elf.headers) /\ elf.headers[n + 1].type = type THEN {n + 1} ELSE {})
<1>1. elf.headers \in Seq(Headers)
    BY ElfIs
<1>2. DOMAIN elf.headers = 1..Len(elf.headers) /\ Len(elf.headers) \in Nat
    BY <1>1
<1> QED BY <1>2 DEF First

LEMMA InOrderGrows ==
    ASSUME NEW hs, NEW m \in Seq(1..2), NEW n \in Nat, NEW P \in SUBSET (1..n), InOrder(m, hs, P),
           hs[n + 1].segment \in 1..2
    PROVE  InOrder(Append(m, hs[n + 1].segment), hs, P \cup {n + 1})
<1>1. PICK at \in [DOMAIN m -> P] :
            /\ \A j, k \in DOMAIN m : j < k => at[j] < at[k]
            /\ {at[k] : k \in DOMAIN m} = P
            /\ \A k \in DOMAIN m : m[k] = hs[at[k]].segment
    BY DEF InOrder
<1> DEFINE l == Len(m)
           q == Append(m, hs[n + 1].segment)
           to == [k \in 1..(l + 1) |-> IF k = l + 1 THEN n + 1 ELSE at[k]]
           Q == P \cup {n + 1}
<1>2. l \in Nat /\ DOMAIN m = 1..l
    OBVIOUS
<1>3. /\ DOMAIN q = 1..(l + 1) /\ q[l + 1] = hs[n + 1].segment
      /\ \A k \in 1..l : q[k] = m[k]
    OBVIOUS
<1> HIDE DEF q, l
<1>4. /\ to \in [1..(l + 1) -> Q] /\ to[l + 1] = n + 1
      /\ \A k \in 1..l : to[k] = at[k] /\ at[k] \in P
    BY <1>1, <1>2
<1> HIDE DEF to
<1>5. \A k \in 1..(l + 1) : k \in 1..l \/ k = l + 1
    BY <1>2
<1>6. l + 1 \in 1..(l + 1) /\ \A k \in 1..l : k \in 1..(l + 1)
    BY <1>2
<1>7. ASSUME NEW j \in 1..(l + 1), NEW k \in 1..(l + 1), j < k
      PROVE  to[j] < to[k]
    <2>1. j \in 1..l
        BY <1>2, <1>7
    <2>2. CASE k = l + 1
        <3>1. to[j] \in 1..n
            BY <1>4, <2>1
        <3> QED BY <1>4, <2>2, <3>1
    <2>3. CASE k \in 1..l
        BY <1>1, <1>2, <1>4, <1>7, <2>1, <2>3
    <2> QED BY <1>5, <2>2, <2>3
<1>8. {to[k] : k \in 1..(l + 1)} = Q
    <2>1. ASSUME NEW p \in Q
          PROVE  \E k \in 1..(l + 1) : to[k] = p
        <3>1. CASE p = n + 1
            BY <1>4, <1>6, <3>1
        <3>2. CASE p \in P
            <4>1. PICK k \in 1..l : at[k] = p
                BY <1>1, <1>2, <3>2
            <4> QED BY <1>4, <1>6, <4>1
        <3> QED BY <3>1, <3>2
    <2>2. \A k \in 1..(l + 1) : to[k] \in Q
        BY <1>4
    <2> HIDE DEF Q
    <2> QED BY <2>1, <2>2
<1>9. \A k \in 1..(l + 1) : q[k] = hs[to[k]].segment
    BY <1>1, <1>2, <1>3, <1>4, <1>5
<1>10. /\ to \in [DOMAIN q -> Q] /\ {to[k] : k \in DOMAIN q} = Q
       /\ \A j, k \in DOMAIN q : j < k => to[j] < to[k]
       /\ \A k \in DOMAIN q : q[k] = hs[to[k]].segment
    <2> HIDE DEF Q
    <2> QED BY <1>3, <1>4, <1>7, <1>8, <1>9
<1>11. InOrder(q, hs, Q)
    <2> HIDE DEF Q
    <2> QED BY <1>10 DEF InOrder
<1> QED BY <1>11 DEF q

LEMMA LoadedOnce ==
    ASSUME NEW elf \in ElfFiles, NEW n \in Nat, NEW s \in LoadInfos, Loaded(elf, n, s)
    PROVE  Loaded(elf, n + 1, next_header(elf, s, n + 1))
<1> DEFINE t == next_header(elf, s, n + 1)
           hs == elf.headers
           h == hs[n + 1]
<1>1. n + 1 \in Nat \ {0}
    OBVIOUS
<1>2. /\ t \in LoadInfos
      /\ s.status # 0 => t = s
      /\ s.status = 0 /\ n + 1 > Len(hs) => t.status = NOTSUP
      /\ s.status = 0 /\ n + 1 <= Len(hs) =>
             /\ t.mappings = IF h.type = "LOAD" THEN Append(s.mappings, h.segment) ELSE s.mappings
             /\ t.status = IF h.type # "INTERP" THEN 0 ELSE IF s.interp # 0 THEN INVAL ELSE h.status
             /\ t.interp = IF h.type = "INTERP" /\ s.interp = 0 THEN h.path ELSE s.interp
             /\ t.stack = IF h.type = "GNU_STACK" THEN s.stack \/ h.exec ELSE s.stack
    <2>1. t = next_header(elf, s, n + 1) /\ h = elf.headers[n + 1]
        OBVIOUS
    <2> HIDE DEF t, h
    <2> QED BY <1>1, <2>1, NextSays
<1> HIDE DEF t
<1>3. hs \in Seq(Headers) /\ Len(hs) \in Nat
    BY ElfIs
<1>4. \A type : First(elf, n + 1, type) =
            First(elf, n, type)
            \cup (IF n + 1 <= Len(hs) /\ h.type = type THEN {n + 1} ELSE {})
    BY FirstGrows
<1>5. CASE s.status # 0
    <2>1. ~Fine(elf, n)
        BY <1>5 DEF Loaded
    <2>2. ~Fine(elf, n + 1)
        BY <1>3, <1>4, <2>1 DEF Fine
    <2>3. t.status # 0
        BY <1>2, <1>5
    <2> QED BY <2>2, <2>3 DEF Loaded, t
<1>6. CASE s.status = 0 /\ n + 1 > Len(hs)
    <2>1. t.status # 0
        BY <1>2, <1>6 DEF NOTSUP
    <2>2. ~Fine(elf, n + 1)
        BY <1>3, <1>6 DEF Fine
    <2> QED BY <2>1, <2>2 DEF Loaded, t
<1>7. CASE s.status = 0 /\ n + 1 <= Len(hs)
    <2>1. h \in Headers
        BY <1>3, <1>7
    <2>2. /\ \A j, k \in First(elf, n, "INTERP") : j = k /\ hs[k].status = 0
          /\ InOrder(s.mappings, hs, First(elf, n, "LOAD"))
          /\ First(elf, n, "INTERP") = {} => s.interp = 0
          /\ \A k \in First(elf, n, "INTERP") : s.interp = hs[k].path
          /\ s.stack <=> \E k \in First(elf, n, "GNU_STACK") : hs[k].exec
        BY <1>7 DEF Loaded, Fine, Told
    <2>3. \A type : n + 1 \notin First(elf, n, type)
        BY DEF First
    <2>4. \A k \in First(elf, n, "INTERP") : hs[k].path = 1
        <3>1. ASSUME NEW k \in First(elf, n, "INTERP")
              PROVE  hs[k].path = 1
            <4>1. hs[k] \in Headers /\ hs[k].type = "INTERP"
                BY <1>3, <3>1 DEF First
            <4> QED BY <4>1, HeaderIs
        <3> QED BY <3>1
    <2>5. s.interp # 0 <=> First(elf, n, "INTERP") # {}
        BY <2>2, <2>4
    <2>6. s.mappings \in Seq(1..2) /\ s.stack \in BOOLEAN
        BY DEF LoadInfos
    <2>7. CASE h.type = "LOAD"
        <3>1. h.segment \in 1..2
            BY <2>1, <2>7, HeaderIs
        <3>2. First(elf, n, "LOAD") \in SUBSET (1..n)
            BY <1>3 DEF First
        <3>3. InOrder(t.mappings, hs, First(elf, n + 1, "LOAD"))
            <4>1. InOrder(Append(s.mappings, h.segment), hs, First(elf, n, "LOAD") \cup {n + 1})
                BY <2>2, <2>6, <3>1, <3>2, InOrderGrows
            <4>2. First(elf, n + 1, "LOAD") = First(elf, n, "LOAD") \cup {n + 1}
                BY <1>4, <1>7, <2>7
            <4> QED BY <1>2, <1>7, <2>7, <4>1, <4>2
        <3>4. /\ First(elf, n + 1, "INTERP") = First(elf, n, "INTERP")
              /\ First(elf, n + 1, "GNU_STACK") = First(elf, n, "GNU_STACK")
            BY <1>4, <2>7
        <3>5. t.status = 0 /\ t.interp = s.interp /\ t.stack = s.stack
            BY <1>2, <1>7, <2>7
        <3>6. Fine(elf, n + 1)
            BY <1>7, <2>2, <3>4 DEF Fine
        <3>7. Told(elf, n + 1, t)
            BY <2>2, <3>3, <3>4, <3>5 DEF Told
        <3> QED BY <3>5, <3>6, <3>7 DEF Loaded, t
    <2>8. CASE h.type = "INTERP"
        <3>1. h.path = 1 /\ h.status \in {0, NOENT, ACCES}
            BY <2>1, <2>8, HeaderIs
        <3>2. /\ First(elf, n + 1, "INTERP") = First(elf, n, "INTERP") \cup {n + 1}
              /\ First(elf, n + 1, "LOAD") = First(elf, n, "LOAD")
              /\ First(elf, n + 1, "GNU_STACK") = First(elf, n, "GNU_STACK")
            BY <1>4, <1>7, <2>8
        <3>3. /\ t.mappings = s.mappings /\ t.stack = s.stack
              /\ t.status = IF s.interp # 0 THEN INVAL ELSE h.status
              /\ t.interp = IF s.interp = 0 THEN h.path ELSE s.interp
            BY <1>2, <1>7, <2>8
        <3>4. CASE s.interp # 0
            <4>1. PICK j \in First(elf, n, "INTERP") : TRUE
                BY <2>5, <3>4
            <4>2. j # n + 1 /\ j \in First(elf, n + 1, "INTERP") /\ n + 1 \in First(elf, n + 1, "INTERP")
                BY <2>3, <3>2, <4>1
            <4>3. t.status # 0
                BY <3>3, <3>4 DEF INVAL
            <4>4. ~Fine(elf, n + 1)
                BY <4>2 DEF Fine
            <4> QED BY <4>3, <4>4 DEF Loaded, t
        <3>5. CASE s.interp = 0
            <4>1. First(elf, n + 1, "INTERP") = {n + 1}
                BY <2>5, <3>2, <3>5
            <4>2. t.status = h.status /\ t.interp = h.path
                BY <3>3, <3>5
            <4>3. Fine(elf, n + 1) <=> h.status = 0
                BY <1>7, <4>1 DEF Fine
            <4>4. Told(elf, n + 1, t)
                BY <2>2, <3>2, <3>3, <4>1, <4>2 DEF Told
            <4> QED BY <4>2, <4>3, <4>4 DEF Loaded, t
        <3> QED BY <3>4, <3>5
    <2>9. CASE h.type \notin {"LOAD", "INTERP"}
        <3>1. /\ First(elf, n + 1, "INTERP") = First(elf, n, "INTERP")
              /\ First(elf, n + 1, "LOAD") = First(elf, n, "LOAD")
            BY <1>4, <2>9
        <3>2. t.status = 0 /\ t.interp = s.interp /\ t.mappings = s.mappings
            BY <1>2, <1>7, <2>9
        <3>3. t.stack <=> \E k \in First(elf, n + 1, "GNU_STACK") : hs[k].exec
            <4>1. CASE h.type = "GNU_STACK"
                <5>1. First(elf, n + 1, "GNU_STACK") = First(elf, n, "GNU_STACK") \cup {n + 1}
                    BY <1>4, <1>7, <4>1
                <5>2. t.stack <=> s.stack \/ h.exec
                    BY <1>2, <1>7, <4>1
                <5> QED BY <2>2, <5>1, <5>2
            <4>2. CASE h.type # "GNU_STACK"
                <5>1. First(elf, n + 1, "GNU_STACK") = First(elf, n, "GNU_STACK")
                    BY <1>4, <4>2
                <5>2. t.stack = s.stack
                    BY <1>2, <1>7, <4>2
                <5> QED BY <2>2, <5>1, <5>2
            <4> QED BY <4>1, <4>2
        <3>4. Fine(elf, n + 1)
            BY <1>7, <2>2, <3>1 DEF Fine
        <3>5. Told(elf, n + 1, t)
            BY <2>2, <3>1, <3>2, <3>3 DEF Told
        <3> QED BY <3>2, <3>4, <3>5 DEF Loaded, t
    <2> QED BY <2>7, <2>8, <2>9
<1>8. s.status = 0 => n + 1 > Len(hs) \/ n + 1 <= Len(hs)
    BY <1>3
<1> QED BY <1>5, <1>6, <1>7, <1>8 DEF t

NoInfo == [status |-> 0, mappings |-> <<>>, interp |-> NoInterp, stack |-> FALSE]

\* The loop over the headers.
LEMMA HeadersSay ==
    ASSUME NEW elf \in ElfFiles, elf.phnum < elf.big, elf.known
    PROVE  Loaded(elf, elf.phnum, iterate_program_headers(elf, NoInfo))
<1> DEFINE m == elf.phnum
           Is(f) == f = [n \in 0..m |-> IF n = 0 THEN NoInfo ELSE next_header(elf, f[n - 1], n)]
           w == CHOOSE f : Is(f)
           step == [z \in (1..m) \X LoadInfos |-> next_header(elf, z[2], z[1])]
<1>1. m \in Nat /\ elf.big \in Nat
    BY ElfIs
<1>2. NoInfo \in LoadInfos
    BY DEF NoInfo, LoadInfos, NoInterp
<1>3. \A n \in 1..m, s \in LoadInfos : next_header(elf, s, n) \in LoadInfos
    <2>1. ASSUME NEW n \in 1..m, NEW s \in LoadInfos
          PROVE  next_header(elf, s, n) \in LoadInfos
        <3>1. n \in Nat \ {0}
            BY <1>1
        <3> QED BY <3>1, NextSays
    <2> QED BY <2>1
<1>4. step \in [(1..m) \X LoadInfos -> LoadInfos]
    BY <1>3
<1>5. iterate_program_headers(elf, NoInfo) = w[m]
    BY <1>1 DEF iterate_program_headers
<1> HIDE DEF m
<1>6. PICK f \in [0..m -> LoadInfos] : IsLoop(f, m, NoInfo, step)
    <2> HIDE DEF step
    <2> QED BY <1>1, <1>2, <1>4, LoopExists
<1>7. \A n \in 0..m : f[n] = IF n = 0 THEN NoInfo ELSE step[<<n, f[n - 1]>>]
    BY <1>6 DEF IsLoop
<1>8. \A n \in 0..m : f[n] = IF n = 0 THEN NoInfo ELSE next_header(elf, f[n - 1], n)
    <2> SUFFICES ASSUME NEW n \in 0..m, n # 0
                 PROVE  f[n] = next_header(elf, f[n - 1], n)
        BY <1>7
    <2>1. n \in 1..m /\ f[n - 1] \in LoadInfos
        BY <1>1, <1>6
    <2> QED BY <2>1, <1>7
<1>9. Is(f)
    BY <1>6, <1>8
<1>10. Is(w)
    BY <1>9
<1> HIDE DEF w
<1>11. w[0] = NoInfo /\ \A n \in 0..(m - 1) : w[n + 1] = next_header(elf, w[n], n + 1)
    BY <1>1, <1>10
<1> DEFINE S == {n \in 0..m : w[n] \in LoadInfos /\ Loaded(elf, n, w[n])}
<1>12. 0 \in S
    <2>1. \A type : First(elf, 0, type) = {}
        <3>1. elf.headers \in Seq(Headers)
            BY ElfIs
        <3> QED BY <3>1 DEF First
    <2>2. InOrder(<<>>, elf.headers, {})
        <3>1. DOMAIN <<>> = {} /\ <<>> \in [{} -> {}]
            OBVIOUS
        <3> QED BY <3>1 DEF InOrder
    <2>3. Len(elf.headers) \in Nat
        BY ElfIs
    <2>4. Loaded(elf, 0, NoInfo)
        <3>1. Fine(elf, 0)
            BY <2>1, <2>3 DEF Fine
        <3>2. Told(elf, 0, NoInfo)
            BY <2>1, <2>2 DEF Told, NoInfo, NoInterp
        <3> QED BY <3>1, <3>2 DEF Loaded, NoInfo
    <2> QED BY <1>1, <1>2, <1>11, <2>4
<1>13. ASSUME NEW n \in 0..(m - 1), n \in S
       PROVE  n + 1 \in S
    <2>1. n \in Nat /\ n + 1 \in 0..m /\ n + 1 \in 1..m
        BY <1>1
    <2> QED BY <1>3, <1>11, <1>13, <2>1, LoadedOnce
<1> HIDE DEF S
<1>14. m \in S
    <2>1. \A n \in 0..m : n \in S
        BY <1>1, <1>12, <1>13, InductionUpTo
    <2> QED BY <1>1, <2>1
<1> QED BY <1>5, <1>14 DEF S, m

LEMMA HeadersAreExact ==
    ASSUME ExtractLoadInfo
    PROVE  HeadersExact'
<1>1. PICK elf \in ElfFiles : Try("headers", elf, extract_load_info(elf))
    BY DEF ExtractLoadInfo
<1> DEFINE out == extract_load_info(elf)
           hs == elf.headers
           Of(type) == {n \in DOMAIN hs : hs[n].type = type}
           fit == /\ elf.opens /\ ~elf.short /\ elf.magic /\ elf.class \in {32, 64}
                  /\ elf.type \in {"EXEC", "DYN"}
           sound == /\ elf.opens /\ ~elf.short /\ elf.magic /\ elf.class \in {32, 64}
                    /\ elf.type \in {"EXEC", "DYN"} /\ elf.known /\ elf.phnum = Len(hs)
                    /\ \A m, n \in Of("INTERP") : m = n /\ hs[n].status = 0
           told == /\ InOrder(out.mappings, hs, Of("LOAD"))
                   /\ Of("INTERP") = {} => out.interp = NoInterp
                   /\ \A n \in Of("INTERP") : out.interp = hs[n].path
                   /\ out.stack <=> \E n \in Of("GNU_STACK") : hs[n].exec
           Exact == (out.status = 0 <=> sound) /\ (sound => told)
<1>2. /\ hs \in Seq(Headers) /\ elf.phnum \in Nat /\ Len(hs) <= elf.phnum
      /\ elf.big \in Nat /\ Len(hs) < elf.big /\ Len(hs) \in Nat
    BY ElfIs
<1>3. ASSUME ~fit
      PROVE  Exact
    <2>1. out.status # 0
        <3>1. CASE open_elf(elf) < 0
            BY <3>1 DEF extract_load_info
        <3>2. CASE open_elf(elf) = 0
            <4>1. elf.type \notin {"EXEC", "DYN"}
                BY <1>3, <3>2 DEF open_elf, ACCES, NOEXEC
            <4> QED BY <3>2, <4>1 DEF extract_load_info, INVAL
        <3>3. open_elf(elf) < 0 \/ open_elf(elf) = 0
            BY DEF open_elf, ACCES, NOEXEC
        <3> QED BY <3>1, <3>2, <3>3
    <2>2. ~sound
        BY <1>3
    <2> HIDE DEF out, sound, told
    <2> QED BY <2>1, <2>2
<1>4. ASSUME fit
      PROVE  Exact
    <2>1. open_elf(elf) = 0
        BY <1>4 DEF open_elf
    <2>2. out = iterate_program_headers(elf, NoInfo)
        BY <1>4, <2>1 DEF extract_load_info, NoInfo
    <2>3. CASE elf.phnum >= elf.big \/ ~elf.known
        <3>1. out.status # 0
            BY <2>2, <2>3 DEF iterate_program_headers, NoInfo, NOTSUP
        <3>2. ~sound
            BY <1>2, <2>3
        <3> HIDE DEF out, sound, told
        <3> QED BY <3>1, <3>2
    <2>4. CASE elf.phnum < elf.big /\ elf.known
        <3>1. Loaded(elf, elf.phnum, out)
            BY <2>2, <2>4, HeadersSay
        <3>2. \A type : First(elf, elf.phnum, type) = Of(type)
            BY <1>2 DEF First
        <3>3. elf.phnum <= Len(hs) <=> elf.phnum = Len(hs)
            BY <1>2
        <3>4. sound <=> Fine(elf, elf.phnum)
            BY <1>4, <2>4, <3>2, <3>3 DEF Fine
        <3> HIDE DEF out
        <3>5. Told(elf, elf.phnum, out) => told
            <4> HIDE DEF Of
            <4> QED BY <3>2 DEF Told, NoInterp
        <3> HIDE DEF Of, sound, told
        <3>6. (out.status = 0 <=> sound) /\ (sound => Told(elf, elf.phnum, out))
            BY <3>1, <3>4 DEF Loaded
        <3> QED BY <3>5, <3>6
    <2> QED BY <1>2, <2>3, <2>4
<1>5. trial' = [op |-> "headers", in |-> elf, out |-> out]
    BY <1>1 DEF Try
<1> HIDE DEF out
<1> QED BY <1>3, <1>4, <1>5 DEF HeadersExact

-----------------------------------------------------------------------------
(***************************************************************************)
(* extract_shebang.  Three places mark what was read of a line: where the  *)
(* interpreter begins and ends and where its argument begins (Marked); the *)
(* state is what they say (At), up to the end of the line, or of the room  *)
(* (SoFar), and they are the places a reader of the line finds (WordsAre). *)
(***************************************************************************)
Glyphs == {" ", "n", "a", "b"}
Letters == {"a", "b"}
Readings == [phase : {"skip", "path", "gap", "argument", "end", "cut"}, length : Nat,
             path : Seq(Glyphs), argument : Seq(Glyphs)]
\* An argument under way has at least one character.
Readers == {s \in Readings : s.phase = "argument" => s.argument # <<>>}

\* The greatest of some positions.
LEMMA LastPosition ==
    ASSUME NEW m \in Nat, NEW S \in SUBSET (1..m), S # {}
    PROVE  \E k \in S : \A j \in S : j <= k
<1> DEFINE T == {m - k : k \in S}
<1>1. T \in SUBSET Nat /\ T # {}
    <2>1. \A t \in T : t \in Nat
        OBVIOUS
    <2>2. PICK k \in S : TRUE
        OBVIOUS
    <2>3. m - k \in T
        OBVIOUS
    <2> QED BY <2>1, <2>3
<1>2. PICK t \in T : \A u \in T : t <= u
    BY <1>1, LeastNumber
<1>3. PICK k \in S : t = m - k
    BY <1>2
<1>4. ASSUME NEW j \in S
      PROVE  j <= k
    <2>1. m - j \in T
        OBVIOUS
    <2>2. m - k <= m - j
        BY <1>2, <1>3, <2>1
    <2> QED BY <2>2
<1> QED BY <1>4

\* What is left of an argument when the blanks behind it are cut off.
LEMMA TrimmedSays ==
    ASSUME NEW x \in Seq(Glyphs), x # <<>>, NEW y, y = Trimmed(x)
    PROVE  /\ y \in Seq(Glyphs) /\ Len(y) \in 1..Len(x) /\ IsPrefix(y, x)
           /\ x[1] # " " => y[Len(y)] # " "
           /\ \A k \in (Len(y) + 1)..Len(x) : x[k] = " "
<1> DEFINE solid == {1} \cup {n \in DOMAIN x : x[n] # " "}
           l == CHOOSE n \in solid : \A k \in solid : k <= n
<1>1. Len(x) \in Nat /\ 1 <= Len(x) /\ DOMAIN x = 1..Len(x)
    OBVIOUS
<1>2. solid \in SUBSET (1..Len(x)) /\ solid # {}
    <2>1. 1 \in solid /\ 1 \in 1..Len(x)
        BY <1>1
    <2>2. \A k \in solid : k = 1 \/ k \in DOMAIN x
        OBVIOUS
    <2> HIDE DEF solid
    <2> QED BY <1>1, <2>1, <2>2
<1>3. l \in solid /\ \A k \in solid : k <= l
    <2>1. \E n \in solid : \A k \in solid : k <= n
        BY <1>1, <1>2, LastPosition
    <2> QED BY <2>1
<1>4. y = SubSeq(x, 1, l)
    BY DEF Trimmed
<1> HIDE DEF l
<1>5. l \in 1..Len(x)
    BY <1>2, <1>3
<1>6. \A k \in (l + 1)..Len(x) : x[k] = " "
    <2>1. SUFFICES ASSUME NEW k \in (l + 1)..Len(x), x[k] # " "
                   PROVE  FALSE
        OBVIOUS
    <2>2. k \in 1..Len(x) /\ ~(k <= l)
        BY <1>1, <1>5
    <2>3. k \in solid
        BY <1>1, <2>1, <2>2
    <2> QED BY <1>3, <2>2, <2>3
<1>7. x[l] # " " \/ l = 1
    BY <1>3
<1> HIDE DEF solid
<1>8. y \in Seq(Glyphs) /\ Len(y) = l /\ \A k \in 1..l : y[k] = x[k]
    <2>1. \A k \in 1..l : x[k] \in Glyphs
        BY <1>1, <1>5
    <2> QED BY <1>4, <1>5, <2>1, SubSeqProperties
<1>9. IsPrefix(y, x)
    <2>1. SubSeq(y, 1, Len(y)) = y
        BY <1>8, SubSeqFull
    <2> QED BY <1>4, <1>5, <1>8, <2>1 DEF IsPrefix
<1>10. x[1] # " " => y[Len(y)] # " "
    <2>1. y[Len(y)] = x[l]
        BY <1>5, <1>8
    <2> QED BY <1>7, <2>1
<1> QED BY <1>5, <1>6, <1>8, <1>9, <1>10

\* One more character, before the line has ended or was cut.
\* What a character does to a reading, but for the last one.
CharSays(s, c, t) ==
    /\ t \in Readers /\ t.length = s.length + 1
    /\ c = "n" => t.phase = "end" /\ t.path = s.path
    /\ c = "n" /\ s.phase = "argument" => t.argument = Trimmed(s.argument)
    /\ c = "n" /\ s.phase # "argument" => t.argument = s.argument
    /\ s.phase = "skip" /\ c = " " => t.phase = "skip" /\ t.path = s.path /\ t.argument = s.argument
    /\ s.phase = "gap" /\ c = " " => t.phase = "gap" /\ t.path = s.path /\ t.argument = s.argument
    /\ s.phase = "path" /\ c = " " => t.phase = "gap" /\ t.path = s.path /\ t.argument = s.argument
    /\ s.phase \in {"skip", "path"} /\ c \in Letters =>
          t.phase = "path" /\ t.path = Append(s.path, c) /\ t.argument = s.argument
    /\ s.phase = "gap" /\ c \in Letters =>
          t.phase = "argument" /\ t.path = s.path /\ t.argument = Append(s.argument, c)
    /\ s.phase = "argument" /\ c # "n" =>
          t.phase = "argument" /\ t.path = s.path /\ t.argument = Append(s.argument, c)

LEMMA CharRead ==
    ASSUME NEW s \in Readers, s.phase \notin {"end", "cut"}, NEW c \in Glyphs,
           s.length + 1 < BINPRM_BUF_SIZE, NEW t, t = ReadUpto(BINPRM_BUF_SIZE, s, c)
    PROVE  CharSays(s, c, t)
<1> USE DEF CharSays
<1> DEFINE r == ReadChar(s, c)
<1>1. BINPRM_BUF_SIZE \in Nat
    BY ExecveAssumption
<1>2. s \in Readings
    BY DEF Readers
<1>3. s.phase \in {"skip", "path", "gap", "argument"} /\ s.length \in Nat
      /\ s.path \in Seq(Glyphs) /\ s.argument \in Seq(Glyphs)
    BY <1>2 DEF Readings
<1>4. t = [r EXCEPT !.length = s.length + 1]
    <2>1. ~(s.length + 1 >= BINPRM_BUF_SIZE)
        BY <1>1, <1>3
    <2> QED BY <2>1 DEF ReadUpto
<1>5. ASSUME r \in Readers
      PROVE  /\ t \in Readers /\ t.length = s.length + 1
             /\ t.phase = r.phase /\ t.path = r.path /\ t.argument = r.argument
    <2>1. r \in Readings
        BY <1>5 DEF Readers
    <2> HIDE DEF r
    <2>2. /\ t.length = s.length + 1 /\ t \in Readings
          /\ t.phase = r.phase /\ t.path = r.path /\ t.argument = r.argument
        <3>1. s.length + 1 \in Nat
            BY <1>3
        <3>2. t = [phase |-> r.phase, length |-> s.length + 1, path |-> r.path, argument |-> r.argument]
            BY <1>4, <2>1 DEF Readings
        <3>3. t \in Readings
            BY <2>1, <3>1, <3>2 DEF Readings
        <3> QED BY <3>2, <3>3
    <2> QED BY <1>5, <2>2 DEF Readers
<1>6. Append(s.path, c) \in Seq(Glyphs) /\ Append(s.argument, c) \in Seq(Glyphs)
      /\ Append(s.argument, c) # <<>>
    <2>1. Append(s.path, c) \in Seq(Glyphs) /\ Append(s.argument, c) \in Seq(Glyphs)
        BY <1>3
    <2>2. Len(Append(s.argument, c)) = Len(s.argument) + 1 /\ Len(s.argument) \in Nat
        BY <1>3
    <2>3. Len(Append(s.argument, c)) # 0
        BY <2>2
    <2> QED BY <2>1, <2>3, EmptySeq
<1>7. c = " " \/ c = "n" \/ c \in Letters
    BY DEF Glyphs, Letters
<1>8. CASE c = " " /\ s.phase \in {"skip", "gap"}
    <2>1. r = s
        BY <1>8 DEF ReadChar
    <2> QED BY <1>5, <1>8, <2>1 DEF Letters
<1>9. CASE c = " " /\ s.phase = "path"
    <2>1. r = [s EXCEPT !.phase = "gap"]
        BY <1>9 DEF ReadChar
    <2>2. r \in Readings /\ r.phase = "gap" /\ r.path = s.path /\ r.argument = s.argument
        BY <1>2, <2>1 DEF Readings
    <2> HIDE DEF r
    <2>3. r \in Readers
        BY <2>2 DEF Readers
    <2> QED BY <1>5, <1>9, <2>2, <2>3 DEF Letters, r
<1>10. CASE c \in Letters /\ s.phase \in {"skip", "path"}
    <2>1. r = [s EXCEPT !.phase = "path", !.path = Append(@, c)]
        BY <1>10 DEF ReadChar, Letters
    <2>2. r \in Readings /\ r.phase = "path" /\ r.path = Append(s.path, c) /\ r.argument = s.argument
        BY <1>2, <1>6, <2>1 DEF Readings
    <2> HIDE DEF r
    <2>3. r \in Readers
        BY <2>2 DEF Readers
    <2> QED BY <1>5, <1>10, <2>2, <2>3 DEF Letters, r
<1>11. CASE (c \in Letters /\ s.phase = "gap") \/ (c # "n" /\ s.phase = "argument")
    <2>1. r = [s EXCEPT !.phase = "argument", !.argument = Append(@, c)]
        BY <1>11 DEF ReadChar, Letters
    <2>2. r \in Readings /\ r.phase = "argument" /\ r.path = s.path /\ r.argument = Append(s.argument, c)
        BY <1>2, <1>6, <2>1 DEF Readings
    <2> HIDE DEF r
    <2>3. r \in Readers
        BY <1>6, <2>2 DEF Readers
    <2> QED BY <1>5, <1>11, <2>2, <2>3 DEF Letters, r
<1>12. CASE c = "n" /\ s.phase = "argument"
    <2>1. r = [s EXCEPT !.phase = "end", !.argument = Trimmed(@)]
        BY <1>12 DEF ReadChar
    <2>2. Trimmed(s.argument) \in Seq(Glyphs)
        BY <1>3, <1>12, TrimmedSays DEF Readers
    <2>3. r \in Readings /\ r.phase = "end" /\ r.path = s.path /\ r.argument = Trimmed(s.argument)
        BY <1>2, <2>1, <2>2 DEF Readings
    <2> HIDE DEF r
    <2>4. r \in Readers
        BY <2>3 DEF Readers
    <2> QED BY <1>5, <1>12, <2>3, <2>4 DEF Letters, r
<1>13. CASE c = "n" /\ s.phase # "argument"
    <2>1. r = [s EXCEPT !.phase = "end"]
        BY <1>3, <1>13 DEF ReadChar
    <2>2. r \in Readings /\ r.phase = "end" /\ r.path = s.path /\ r.argument = s.argument
        BY <1>2, <2>1 DEF Readings
    <2> HIDE DEF r
    <2>3. r \in Readers
        BY <2>2 DEF Readers
    <2> QED BY <1>5, <1>13, <2>2, <2>3 DEF Letters, r
<1> QED BY <1>3, <1>7, <1>8, <1>9, <1>10, <1>11, <1>12, <1>13

LEMMA CharEnds ==
    ASSUME NEW s \in Readers, s.phase \notin {"end", "cut"}, NEW c \in Glyphs,
           s.length + 1 < BINPRM_BUF_SIZE
    PROVE  LET t == ReadUpto(BINPRM_BUF_SIZE, s, c)
           IN  /\ t.length = s.length + 1
               /\ c = "n" => t.phase = "end" /\ t.path = s.path
               /\ c = "n" /\ s.phase = "argument" => t.argument = Trimmed(s.argument)
               /\ c = "n" /\ s.phase # "argument" => t.argument = s.argument
<1> DEFINE t == ReadUpto(BINPRM_BUF_SIZE, s, c)
<1> DEFINE r == ReadChar(s, c)
<1>1. s \in Readings /\ s.phase \in {"skip", "path", "gap", "argument"} /\ s.length \in Nat
    BY DEF Readers, Readings
<1>2. t = [r EXCEPT !.length = s.length + 1]
    <2>1. ~(s.length + 1 >= BINPRM_BUF_SIZE)
        BY <1>1, ExecveAssumption
    <2> QED BY <2>1 DEF ReadUpto
<1>3. ASSUME c = "n", s.phase = "argument"
      PROVE  r.phase = "end" /\ r.path = s.path /\ r.argument = Trimmed(s.argument) /\ DOMAIN r = DOMAIN s
    <2>1. r = [s EXCEPT !.phase = "end", !.argument = Trimmed(@)]
        BY <1>3 DEF ReadChar
    <2> QED BY <1>1, <2>1 DEF Readings
<1>4. ASSUME c = "n", s.phase # "argument"
      PROVE  r.phase = "end" /\ r.path = s.path /\ r.argument = s.argument /\ DOMAIN r = DOMAIN s
    <2>1. r = [s EXCEPT !.phase = "end"]
        BY <1>1, <1>4 DEF ReadChar
    <2> QED BY <1>1, <2>1 DEF Readings
<1>5. DOMAIN s = {"phase", "length", "path", "argument"}
    BY <1>1 DEF Readings
<1> HIDE DEF r
<1>6. DOMAIN r = DOMAIN s => t.phase = r.phase /\ t.path = r.path /\ t.argument = r.argument
    BY <1>2, <1>5
<1>7. t.length = s.length + 1
    BY CharRead DEF CharSays, Readers, Readings
<1> QED BY <1>3, <1>4, <1>6, <1>7

LEMMA ReadTyped ==
    ASSUME NEW s \in Readers, NEW c \in Glyphs
    PROVE  ReadUpto(BINPRM_BUF_SIZE, s, c) \in Readers
<1>1. CASE s.phase \in {"end", "cut"}
    BY <1>1 DEF ReadUpto
<1>2. CASE s.phase \notin {"end", "cut"} /\ s.length + 1 >= BINPRM_BUF_SIZE
    <2>1. ReadUpto(BINPRM_BUF_SIZE, s, c) = [s EXCEPT !.phase = "cut"]
        BY <1>2 DEF ReadUpto
    <2> QED BY <2>1 DEF Readers, Readings
<1>3. CASE s.phase \notin {"end", "cut"} /\ ~(s.length + 1 >= BINPRM_BUF_SIZE)
    <2>1. s.length + 1 < BINPRM_BUF_SIZE
        BY <1>3, ExecveAssumption DEF Readers, Readings
    <2>2. CharSays(s, c, ReadUpto(BINPRM_BUF_SIZE, s, c))
        BY <1>3, <2>1, CharRead
    <2> QED BY <2>2 DEF CharSays
<1> QED BY <1>1, <1>2, <1>3

\* Where the words of the first k characters, none of which ends the line, begin
\* and end: the interpreter and the argument.
Marked(text, k, start, end, rest) ==
    /\ start \in 1..(k + 1) /\ end \in start..(k + 1) /\ rest \in end..(k + 1)
    /\ \A j \in 1..k : text[j] # "n"
    /\ \A j \in 1..(start - 1) : text[j] = " "
    /\ \A j \in start..(end - 1) : text[j] \in Letters
    /\ \A j \in end..(rest - 1) : text[j] = " "
    /\ start <= k => text[start] \in Letters
    /\ end <= k => text[end] = " "
    /\ rest <= k => text[rest] \in Letters

Phase(k, start, end, rest) ==
    IF start > k THEN "skip" ELSE IF end > k THEN "path" ELSE IF rest > k THEN "gap" ELSE "argument"

\* The state after k characters of a line.
At(text, k, s, start, end, rest) ==
    /\ Marked(text, k, start, end, rest)
    /\ s.phase = Phase(k, start, end, rest)
    /\ s.path = SubSeq(text, start, end - 1)
    /\ s.argument = SubSeq(text, rest, k)

LEMMA SubSeqGrows ==
    ASSUME NEW text \in Seq(Glyphs), NEW i \in Nat \ {0}, NEW k \in Nat, i <= k + 1, k < Len(text)
    PROVE  SubSeq(text, i, k + 1) = Append(SubSeq(text, i, k), text[k + 1])
<1>1. \A j \in i..(k + 1) : text[j] \in Glyphs
    OBVIOUS
<1>2. /\ SubSeq(text, i, k + 1) \in Seq(Glyphs) /\ Len(SubSeq(text, i, k + 1)) = k + 1 - i + 1
      /\ \A j \in 1..(k + 1 - i + 1) : SubSeq(text, i, k + 1)[j] = text[i + j - 1]
    BY <1>1, SubSeqProperties
<1>3. /\ SubSeq(text, i, k) \in Seq(Glyphs) /\ Len(SubSeq(text, i, k)) = k - i + 1
      /\ \A j \in 1..(k - i + 1) : SubSeq(text, i, k)[j] = text[i + j - 1]
    <2>1. \A j \in i..k : text[j] \in Glyphs
        OBVIOUS
    <2>2. k \in Int /\ i \in Int
        OBVIOUS
    <2>3. SubSeq(text, i, k) \in Seq(Glyphs) /\ Len(SubSeq(text, i, k)) = (IF i <= k THEN k - i + 1 ELSE 0)
          /\ \A j \in 1..(k - i + 1) : SubSeq(text, i, k)[j] = text[i + j - 1]
        BY <2>1, <2>2, SubSeqProperties
    <2> QED BY <2>3
<1> DEFINE a == SubSeq(text, i, k + 1)
           b == SubSeq(text, i, k)
           c == Append(b, text[k + 1])
           l == k - i + 1
<1>4. l \in Nat /\ text[k + 1] \in Glyphs
    BY <1>1
<1>5. c \in Seq(Glyphs) /\ Len(c) = l + 1 /\ c[l + 1] = text[k + 1] /\ \A j \in 1..l : c[j] = b[j]
    BY <1>3, <1>4
<1>6. a[l + 1] = text[k + 1] /\ \A j \in 1..l : a[j] = b[j]
    BY <1>2, <1>3
<1>7. Len(a) = l + 1 /\ a \in Seq(Glyphs)
    BY <1>2
<1> HIDE DEF a, b, c, l
<1>8. \A j \in 1..Len(a) : a[j] = c[j]
    BY <1>4, <1>5, <1>6, <1>7
<1>9. a = c
    BY <1>5, <1>7, <1>8, SeqEqual
<1> QED BY <1>9 DEF a, c, b

LEMMA OneMoreChar ==
    ASSUME NEW text \in Seq(Glyphs), NEW k \in Nat, k < Len(text), NEW s \in Readers,
           s.phase \notin {"end", "cut"}, s.length + 1 < BINPRM_BUF_SIZE, text[k + 1] # "n",
           NEW start, NEW end, NEW rest, At(text, k, s, start, end, rest)
    PROVE  \E st, en, re : At(text, k + 1, ReadUpto(BINPRM_BUF_SIZE, s, text[k + 1]), st, en, re)
<1> DEFINE c == text[k + 1]
           t == ReadUpto(BINPRM_BUF_SIZE, s, c)
<1>1. c \in Glyphs /\ (c = " " \/ c \in Letters) /\ c # "n"
    <2>1. c \in Glyphs
        OBVIOUS
    <2> HIDE DEF c
    <2> QED BY <2>1 DEF Glyphs, Letters, c
<1>2. /\ start \in 1..(k + 1) /\ end \in start..(k + 1) /\ rest \in end..(k + 1)
      /\ s.phase = Phase(k, start, end, rest)
      /\ s.path = SubSeq(text, start, end - 1) /\ s.argument = SubSeq(text, rest, k)
    BY DEF At, Marked
<1>13. /\ start \in Nat \ {0} /\ end \in Nat \ {0} /\ rest \in Nat \ {0}
       /\ 1 <= start /\ start <= end /\ end <= rest /\ rest <= k + 1
    BY <1>2
<1>14. \A j \in 1..k : text[j] # "n"
    BY DEF At, Marked
<1>23. \A j \in 1..(start - 1) : text[j] = " "
    BY DEF At, Marked
<1>24. \A j \in start..(end - 1) : text[j] \in Letters
    BY DEF At, Marked
<1>25. \A j \in end..(rest - 1) : text[j] = " "
    BY DEF At, Marked
<1>26. /\ start <= k => text[start] \in Letters
       /\ end <= k => text[end] = " "
       /\ rest <= k => text[rest] \in Letters
    BY DEF At, Marked
<1>15. /\ s.phase = "skip" => start = k + 1 /\ end = k + 1 /\ rest = k + 1
       /\ s.phase = "path" => start <= k /\ end = k + 1 /\ rest = k + 1
       /\ s.phase = "gap" => start <= k /\ end <= k /\ rest = k + 1
       /\ s.phase = "argument" => start <= k /\ end <= k /\ rest <= k
       /\ s.phase \in {"skip", "path", "gap", "argument"}
    <2>1. s.phase = IF start > k THEN "skip" ELSE IF end > k THEN "path" ELSE IF rest > k THEN "gap" ELSE "argument"
        BY <1>2 DEF Phase
    <2>2. CASE start > k
        BY <1>13, <2>1, <2>2
    <2>3. CASE start <= k /\ end > k
        BY <1>13, <2>1, <2>3
    <2>4. CASE start <= k /\ end <= k /\ rest > k
        BY <1>13, <2>1, <2>4
    <2>5. CASE start <= k /\ end <= k /\ rest <= k
        BY <1>13, <2>1, <2>5
    <2> QED BY <1>13, <2>2, <2>3, <2>4, <2>5
<1>16. c = text[k + 1]
    OBVIOUS
<1> HIDE DEF c
<1>3. /\ s.phase = "skip" /\ c = " " => t.phase = "skip" /\ t.path = s.path /\ t.argument = s.argument
      /\ s.phase = "gap" /\ c = " " => t.phase = "gap" /\ t.path = s.path /\ t.argument = s.argument
      /\ s.phase = "path" /\ c = " " => t.phase = "gap" /\ t.path = s.path /\ t.argument = s.argument
      /\ s.phase \in {"skip", "path"} /\ c \in Letters =>
            t.phase = "path" /\ t.path = Append(s.path, c) /\ t.argument = s.argument
      /\ s.phase = "gap" /\ c \in Letters =>
            t.phase = "argument" /\ t.path = s.path /\ t.argument = Append(s.argument, c)
      /\ s.phase = "argument" /\ c # "n" =>
            t.phase = "argument" /\ t.path = s.path /\ t.argument = Append(s.argument, c)
    <2>1. t = ReadUpto(BINPRM_BUF_SIZE, s, c)
        OBVIOUS
    <2> HIDE DEF t
    <2>2. CharSays(s, c, t)
        BY <1>1, <2>1, CharRead
    <2> QED BY <2>2 DEF CharSays
<1>4. \A j \in 1..(k + 1) : j \in 1..k \/ j = k + 1
    OBVIOUS
<1>5. \A i, j \in Int : j < i => SubSeq(text, i, j) = <<>>
    BY SubSeqEmpty
<1> HIDE DEF t
<1> DEFINE n == k + 1
<1>17. n \in Nat \ {0} /\ k = n - 1
    OBVIOUS
<1> HIDE DEF n
<1> DEFINE m == n + 1
<1>27. m \in Nat \ {0} /\ m - 1 = n /\ m = n + 1
    BY <1>17
<1> HIDE DEF m
<1>18. \A j \in 1..n : j \in 1..k \/ j = n
    BY <1>17
<1>19. c = text[n]
    BY <1>16 DEF n
<1>20. \A j \in 1..n : text[j] # "n"
    BY <1>1, <1>14, <1>18, <1>19
<1>21. \A i \in Nat \ {0} : i <= n => SubSeq(text, i, n) = Append(SubSeq(text, i, k), c)
    BY <1>16, SubSeqGrows DEF n
<1>22. SubSeq(text, m, n) = <<>> /\ SubSeq(text, n, k) = <<>> /\ SubSeq(text, m, m - 1) = <<>>
    BY <1>5, <1>17, <1>27
<1>28. /\ m \in 1..(n + 1) /\ m \in n..(n + 1) /\ m \in m..(n + 1) /\ ~(m <= n)
       /\ \A j \in m..(m - 1) : text[j] = " "
       /\ \A j \in m..(m - 1) : text[j] \in Letters
    <2>1. \A j \in m..(m - 1) : FALSE
        BY <1>27
    <2>2. m \in 1..(n + 1) /\ m \in n..(n + 1) /\ m \in m..(n + 1) /\ ~(m <= n)
        BY <1>17, <1>27
    <2> QED BY <2>1, <2>2, Zenon
<1>6. CASE s.phase = "skip" /\ c = " "
    <2>1. start = n /\ end = n /\ rest = n
        BY <1>6, <1>15 DEF n
    <2>2. Marked(text, n, m, m, m)
        <3>1. \A j \in 1..(m - 1) : text[j] = " "
            <4>1. m - 1 = n
                BY <1>27
            <4>2. \A j \in 1..n : j \in 1..(start - 1) \/ j = n
                BY <1>17, <2>1
            <4> QED BY <1>6, <1>19, <1>23, <4>1, <4>2
        <3>2. m \in 1..(n + 1) /\ m \in m..(n + 1) /\ ~(m <= n)
              /\ \A j \in m..(m - 1) : FALSE
            BY <1>17, <1>27
        <3> QED BY <1>20, <1>28, <3>1, <3>2 DEF Marked
    <2>3. Phase(n, m, m, m) = "skip"
        BY <1>17, <1>27 DEF Phase
    <2>4. s.path = <<>> /\ s.argument = <<>>
        BY <1>2, <1>17, <1>22, <2>1
    <2>5. At(text, n, t, m, m, m)
        BY <1>3, <1>6, <1>22, <2>2, <2>3, <2>4 DEF At
    <2> QED BY <2>5 DEF t, n, c
<1>7. CASE s.phase = "skip" /\ c \in Letters
    <2>1. start = n /\ end = n /\ rest = n
        BY <1>7, <1>15 DEF n
    <2>2. Marked(text, n, n, m, m)
        <3>1. \A j \in 1..(n - 1) : text[j] = " "
            BY <1>23, <2>1
        <3>2. \A j \in n..(m - 1) : text[j] \in Letters
            BY <1>7, <1>17, <1>19, <1>27
        <3>3. /\ n \in 1..(n + 1) /\ m \in n..(n + 1) /\ m \in m..(n + 1) /\ ~(m <= n)
              /\ \A j \in m..(m - 1) : FALSE
            BY <1>17, <1>27
        <3> QED BY <1>7, <1>19, <1>20, <1>28, <3>1, <3>2, <3>3 DEF Marked
    <2>3. Phase(n, n, m, m) = "path"
        BY <1>17, <1>27 DEF Phase
    <2>4. s.path = SubSeq(text, n, k) /\ s.argument = <<>>
        BY <1>2, <1>17, <1>22, <2>1
    <2>5. SubSeq(text, n, m - 1) = Append(s.path, c)
        BY <1>17, <1>21, <1>27, <2>4
    <2>6. At(text, n, t, n, m, m)
        BY <1>3, <1>7, <1>22, <2>2, <2>3, <2>4, <2>5 DEF At
    <2> QED BY <2>6 DEF t, n, c
<1>8. CASE s.phase = "path" /\ c \in Letters
    <2>1. start <= k /\ start < n /\ end = n /\ rest = n
        <3>1. start <= k /\ end = n /\ rest = n
            BY <1>8, <1>15 DEF n
        <3> QED BY <1>13, <1>17, <3>1
    <2>2. Marked(text, n, start, m, m)
        <3>2. \A j \in start..(m - 1) : text[j] \in Letters
            <4>1. \A j \in start..(m - 1) : j \in start..(end - 1) \/ j = n
                BY <1>13, <1>17, <1>27, <2>1
            <4> QED BY <1>8, <1>24, <1>19, <4>1
        <3>3. text[start] \in Letters
            BY <1>26, <2>1
        <3>4. /\ start \in 1..(n + 1) /\ m \in start..(n + 1) /\ m \in m..(n + 1) /\ ~(m <= n)
              /\ \A j \in m..(m - 1) : FALSE
            BY <1>13, <1>17, <1>27, <2>1
        <3> QED BY <1>20, <1>23, <1>28, <3>2, <3>3, <3>4 DEF Marked
    <2>3. Phase(n, start, m, m) = "path"
        BY <1>13, <1>17, <1>27, <2>1 DEF Phase
    <2>4. s.path = SubSeq(text, start, k) /\ s.argument = <<>>
        BY <1>2, <1>17, <1>22, <2>1
    <2>5. SubSeq(text, start, m - 1) = Append(s.path, c)
        BY <1>13, <1>17, <1>21, <1>27, <2>1, <2>4
    <2>6. At(text, n, t, start, m, m)
        BY <1>3, <1>8, <1>22, <2>2, <2>3, <2>4, <2>5 DEF At
    <2> QED BY <2>6 DEF t, n, c
<1>9. CASE s.phase = "path" /\ c = " "
    <2>1. start <= k /\ start < n /\ end = n /\ rest = n
        <3>1. start <= k /\ end = n /\ rest = n
            BY <1>9, <1>15 DEF n
        <3> QED BY <1>13, <1>17, <3>1
    <2>2. Marked(text, n, start, n, m)
        <3>1. \A j \in n..(m - 1) : text[j] = " "
            <4>1. \A j \in n..(m - 1) : j = n
                BY <1>17, <1>27
            <4> QED BY <1>9, <1>19, <4>1
        <3>2. \A j \in start..(n - 1) : text[j] \in Letters
            BY <1>24, <2>1
        <3>3. text[start] \in Letters
            BY <1>26, <2>1
        <3>4. /\ start \in 1..(n + 1) /\ n \in start..(n + 1) /\ m \in n..(n + 1) /\ ~(m <= n)
            BY <1>13, <1>17, <1>27, <2>1
        <3> QED BY <1>9, <1>19, <1>20, <1>23, <1>28, <3>1, <3>2, <3>3, <3>4 DEF Marked
    <2>3. Phase(n, start, n, m) = "gap"
        BY <1>13, <1>17, <1>27, <2>1 DEF Phase
    <2>4. s.path = SubSeq(text, start, n - 1) /\ s.argument = <<>>
        BY <1>2, <1>17, <1>22, <2>1
    <2>5. At(text, n, t, start, n, m)
        BY <1>3, <1>9, <1>22, <2>2, <2>3, <2>4 DEF At
    <2> QED BY <2>5 DEF t, n, c
<1>10. CASE s.phase = "gap" /\ c = " "
    <2>1. start <= k /\ start < n /\ end <= k /\ end < n /\ rest = n
        <3>1. start <= k /\ end <= k /\ rest = n
            BY <1>10, <1>15 DEF n
        <3> QED BY <1>13, <1>17, <3>1
    <2>2. Marked(text, n, start, end, m)
        <3>1. \A j \in end..(m - 1) : text[j] = " "
            <4>1. \A j \in end..(m - 1) : j \in end..(rest - 1) \/ j = n
                BY <1>13, <1>17, <1>27, <2>1
            <4> QED BY <1>10, <1>25, <1>19, <4>1
        <3>2. text[start] \in Letters /\ text[end] = " "
            BY <1>26, <2>1
        <3>3. /\ start \in 1..(n + 1) /\ end \in start..(n + 1) /\ m \in end..(n + 1) /\ ~(m <= n)
            BY <1>13, <1>17, <1>27, <2>1
        <3> QED BY <1>20, <1>23, <1>24, <1>28, <3>1, <3>2, <3>3 DEF Marked
    <2>3. Phase(n, start, end, m) = "gap"
        BY <1>13, <1>17, <1>27, <2>1 DEF Phase
    <2>4. s.argument = <<>>
        BY <1>2, <1>17, <1>22, <2>1
    <2>5. At(text, n, t, start, end, m)
        BY <1>2, <1>3, <1>10, <1>22, <2>2, <2>3, <2>4 DEF At
    <2> QED BY <2>5 DEF t, n, c
<1>11. CASE (s.phase = "gap" /\ c \in Letters) \/ s.phase = "argument"
    <2>1. start <= k /\ start < n /\ end <= k /\ end < n /\ rest <= n
        <3>1. start <= k /\ end <= k /\ rest <= n
            BY <1>11, <1>13, <1>15 DEF n
        <3> QED BY <1>13, <1>17, <3>1
    <2>2. Marked(text, n, start, end, rest)
        <3>1. text[rest] \in Letters
            <4>1. CASE rest = n
                <5>1. s.phase = "gap"
                    BY <1>11, <1>13, <1>15, <1>17, <4>1
                <5> QED BY <1>11, <1>19, <4>1, <5>1
            <4>2. CASE rest # n
                <5>1. rest <= k
                    BY <1>13, <1>17, <2>1, <4>2
                <5> QED BY <1>26, <5>1
            <4> QED BY <4>1, <4>2
        <3>2. text[start] \in Letters /\ text[end] = " "
            BY <1>26, <2>1
        <3>3. /\ start \in 1..(n + 1) /\ end \in start..(n + 1) /\ rest \in end..(n + 1)
            BY <1>13, <1>17, <1>27, <2>1
        <3> QED BY <1>20, <1>23, <1>24, <1>25, <1>28, <3>1, <3>2, <3>3 DEF Marked
    <2>3. Phase(n, start, end, rest) = "argument"
        BY <1>13, <1>17, <1>27, <2>1 DEF Phase
    <2>4. SubSeq(text, rest, n) = Append(s.argument, c)
        BY <1>2, <1>13, <1>21, <2>1
    <2>5. t.phase = "argument" /\ t.path = s.path /\ t.argument = Append(s.argument, c)
        BY <1>1, <1>3, <1>11
    <2>6. At(text, n, t, start, end, rest)
        BY <1>2, <2>2, <2>3, <2>4, <2>5 DEF At
    <2> QED BY <2>6 DEF t, n, c
<1> QED BY <1>1, <1>15, <1>6, <1>7, <1>8, <1>9, <1>10, <1>11

Room == BINPRM_BUF_SIZE - 3

\* What was taken when the e-th character ended the line.
Ended(text, e, s, start, end, rest) ==
    /\ Marked(text, e - 1, start, end, rest)
    /\ s.path = SubSeq(text, start, end - 1)
    /\ s.argument = IF rest <= e - 1 THEN Trimmed(SubSeq(text, rest, e - 1)) ELSE <<>>

\* What was taken when the line did not end before the room did.
Cut(text, s, start, end, rest) ==
    /\ Marked(text, Room, start, end, rest)
    /\ s.path = SubSeq(text, start, end - 1)
    /\ s.argument = SubSeq(text, rest, Room)

\* The state after k characters.
SoFar(text, k, s) ==
    \/ /\ s.phase \notin {"end", "cut"} /\ s.length = k + 2 /\ k <= Room
       /\ \E start, end, rest : At(text, k, s, start, end, rest)
    \/ /\ s.phase = "end"
       /\ \E e \in 1..k : /\ e <= Room /\ text[e] = "n"
                          /\ \E start, end, rest : Ended(text, e, s, start, end, rest)
    \/ /\ s.phase = "cut" /\ k > Room
       /\ \E start, end, rest : Cut(text, s, start, end, rest)

LEMMA SoFarGoes ==
    ASSUME NEW text \in Seq(Glyphs), NEW k \in Nat, k < Len(text), NEW s \in Readers, SoFar(text, k, s)
    PROVE  SoFar(text, k + 1, ReadUpto(BINPRM_BUF_SIZE, s, text[k + 1]))
<1> DEFINE c == text[k + 1]
           t == ReadUpto(BINPRM_BUF_SIZE, s, c)
<1>1. BINPRM_BUF_SIZE \in Nat /\ BINPRM_BUF_SIZE > 3 /\ Room \in Nat /\ BINPRM_BUF_SIZE = Room + 3
    BY ExecveAssumption DEF Room
<1>6. c = text[k + 1] /\ k + 1 \in Nat
    OBVIOUS
<1>2. c \in Glyphs
    OBVIOUS
<1> HIDE DEF c
<1>5. ASSUME s.phase \notin {"end", "cut"}, s.length + 1 < BINPRM_BUF_SIZE
      PROVE  /\ t.length = s.length + 1
             /\ c = "n" => t.phase = "end" /\ t.path = s.path
             /\ c = "n" /\ s.phase = "argument" => t.argument = Trimmed(s.argument)
             /\ c = "n" /\ s.phase # "argument" => t.argument = s.argument
    BY <1>2, <1>5, CharEnds
<1>3. CASE s.phase \in {"end", "cut"}
    <2>1. t = s
        BY <1>3 DEF ReadUpto
    <2>2. \A e \in 1..k : e \in 1..(k + 1)
        OBVIOUS
    <2>3. k > Room => k + 1 > Room
        BY <1>1
    <2> HIDE DEF t
    <2>4. SoFar(text, k + 1, t)
        BY <1>3, <2>1, <2>2, <2>3 DEF SoFar
    <2> QED BY <2>4 DEF t, c
<1>4. CASE s.phase \notin {"end", "cut"}
    <2>1. s.length = k + 2 /\ k <= Room
        BY <1>4 DEF SoFar
    <2>2. PICK start, end, rest : At(text, k, s, start, end, rest)
        BY <1>4 DEF SoFar
    <2>3. CASE k = Room
        <3>1. s.length + 1 >= BINPRM_BUF_SIZE
            BY <1>1, <2>1, <2>3
        <3>2. t = [s EXCEPT !.phase = "cut"]
            BY <1>4, <3>1 DEF ReadUpto
        <3>3. t.phase = "cut" /\ t.path = s.path /\ t.argument = s.argument
            BY <3>2 DEF Readers, Readings
        <3> HIDE DEF t
        <3>4. Cut(text, t, start, end, rest)
            BY <2>2, <2>3, <3>3 DEF At, Cut
        <3>5. k + 1 > Room
            BY <1>1, <2>3
        <3>6. SoFar(text, k + 1, t)
            BY <3>3, <3>4, <3>5 DEF SoFar
        <3> QED BY <3>6 DEF t, c
    <2>4. CASE k # Room
        <3>1. s.length + 1 < BINPRM_BUF_SIZE /\ k + 1 <= Room
            BY <1>1, <2>1, <2>4
        <3> DEFINE n == k + 1
        <3>2. n \in 1..n /\ n - 1 = k /\ n \in Nat /\ n <= Room /\ c = text[n]
            BY <1>6, <3>1
        <3>3. CASE c = "n"
            <4>1. /\ t.phase = "end" /\ t.path = s.path
                  /\ s.phase = "argument" => t.argument = Trimmed(s.argument)
                  /\ s.phase # "argument" => t.argument = s.argument
                BY <1>4, <1>5, <3>1, <3>3
            <4> HIDE DEF t, c, n
            <4>2. /\ Marked(text, k, start, end, rest) /\ s.phase = Phase(k, start, end, rest)
                  /\ s.path = SubSeq(text, start, end - 1) /\ s.argument = SubSeq(text, rest, k)
                BY <2>2 DEF At
            <4>3. start \in 1..(k + 1) /\ end \in start..(k + 1) /\ rest \in end..(k + 1)
                BY <4>2 DEF Marked
            <4>4. s.phase = "argument" <=> rest <= k
                <5>1. rest <= k => start <= k /\ end <= k
                    BY <4>3
                <5>2. rest <= k => ~(start > k) /\ ~(end > k) /\ ~(rest > k)
                    BY <4>3, <5>1
                <5>3. ~(rest <= k) => rest > k
                    BY <4>3
                <5> QED BY <4>2, <5>2, <5>3 DEF Phase
            <4>5. ~(rest <= k) => s.argument = <<>>
                <5>1. ~(rest <= k) => rest \in Int /\ k \in Int /\ k < rest
                    BY <4>3
                <5> QED BY <4>2, <5>1, SubSeqEmpty
            <4>6. Ended(text, n, t, start, end, rest)
                BY <3>2, <4>1, <4>2, <4>4, <4>5 DEF Ended
            <4>7. SoFar(text, n, t)
                BY <3>2, <3>3, <4>1, <4>6 DEF SoFar
            <4> QED BY <4>7 DEF t, n, c
        <3>4. CASE c # "n"
            <4>1. \E st, en, re : At(text, n, t, st, en, re)
                BY <1>4, <2>2, <3>1, <3>4, OneMoreChar DEF c
            <4>2. t.length = n + 2
                <5>1. t.length = s.length + 1
                    BY <1>4, <1>5, <3>1
                <5> HIDE DEF t
                <5> QED BY <2>1, <5>1
            <4> HIDE DEF t, c, n
            <4>3. t.phase \notin {"end", "cut"}
                BY <4>1 DEF At, Phase
            <4>4. SoFar(text, n, t)
                BY <3>2, <4>1, <4>2, <4>3 DEF SoFar
            <4> QED BY <4>4 DEF t, n, c
        <3> QED BY <3>3, <3>4
    <2> QED BY <2>3, <2>4
<1> QED BY <1>3, <1>4

\* The states on the way.
Readout(text) ==
    CHOOSE at : at = [n \in 0..Len(text) |->
        IF n = 0 THEN NothingRead ELSE ReadUpto(BINPRM_BUF_SIZE, at[n - 1], text[n])]

LEMMA ReadGoes ==
    ASSUME NEW text \in Seq(Glyphs)
    PROVE  /\ Readout(text) \in [0..Len(text) -> Readers]
           /\ Readout(text)[0] = NothingRead
           /\ \A n \in 0..(Len(text) - 1) :
                 Readout(text)[n + 1] = ReadUpto(BINPRM_BUF_SIZE, Readout(text)[n], text[n + 1])
<1> DEFINE w == Readout(text)
           l == Len(text)
           Next_(n, x) == ReadUpto(BINPRM_BUF_SIZE, x, text[n])
           step == [z \in (1..l) \X Readers |-> Next_(z[1], z[2])]
           Is(f) == f = [n \in 0..l |-> IF n = 0 THEN NothingRead ELSE Next_(n, f[n - 1])]
<1>1. NothingRead \in Readers
    BY DEF NothingRead, Readers, Readings
<1>2. l \in Nat /\ \A n \in 1..l : \A x \in Readers : Next_(n, x) \in Readers
    BY ReadTyped
<1>7. w = CHOOSE g : Is(g)
    BY DEF Readout
<1> HIDE DEF l, Next_
<1>3. step \in [(1..l) \X Readers -> Readers]
    BY <1>2
<1>4. PICK f \in [0..l -> Readers] : IsLoop(f, l, NothingRead, step)
    <2> HIDE DEF step
    <2> QED BY <1>1, <1>2, <1>3, LoopExists
<1>5. \A n \in 0..l : f[n] = IF n = 0 THEN NothingRead ELSE Next_(n, f[n - 1])
    <2> SUFFICES ASSUME NEW n \in 0..l, n # 0
                 PROVE  f[n] = Next_(n, f[n - 1])
        BY <1>4 DEF IsLoop
    <2>1. n \in 1..l /\ f[n - 1] \in Readers
        BY <1>2, <1>4
    <2> QED BY <2>1, <1>4 DEF IsLoop
<1>6. Is(f)
    BY <1>4, <1>5
<1>8. Is(w)
    BY <1>6, <1>7
<1> HIDE DEF w
<1> DEFINE S == {n \in 0..l : w[n] = f[n]}
<1>9. \A n \in 0..l : n \in S
    <2>1. 0 \in S
        BY <1>2, <1>5, <1>8
    <2>2. ASSUME NEW n \in 0..(l - 1), n \in S
          PROVE  n + 1 \in S
        BY <1>2, <1>5, <1>8, <2>2
    <2> HIDE DEF S
    <2> QED BY <1>2, <2>1, <2>2, InductionUpTo
<1>10. w = f
    BY <1>4, <1>8, <1>9
<1>11. w[0] = NothingRead /\ \A n \in 0..(l - 1) : w[n + 1] = Next_(n + 1, w[n])
    BY <1>2, <1>8
<1> QED BY <1>4, <1>10, <1>11 DEF w, l, Next_

\* What is known when the whole text was offered.
LEMMA ReadSays ==
    ASSUME NEW text \in Seq(Glyphs)
    PROVE  Read(text) \in Readers /\ SoFar(text, Len(text), Read(text))
<1> DEFINE w == Readout(text)
           l == Len(text)
           S == {n \in 0..l : SoFar(text, n, w[n])}
<1>1. Read(text) = w[l]
    BY DEF Read, Readout
<1>2. w \in [0..l -> Readers] /\ w[0] = NothingRead /\ l \in Nat
      /\ \A n \in 0..(l - 1) : w[n + 1] = ReadUpto(BINPRM_BUF_SIZE, w[n], text[n + 1])
    BY ReadGoes
<1> HIDE DEF w
<1>3. 0 \in S
    <2>1. /\ NothingRead.phase = "skip" /\ NothingRead.length = 0 + 2
          /\ NothingRead.path = <<>> /\ NothingRead.argument = <<>>
        BY DEF NothingRead
    <2>2. Marked(text, 0, 1, 1, 1)
        <3>1. \A j \in 1..0 : FALSE
            OBVIOUS
        <3>2. \A j \in 1..(1 - 1) : FALSE
            OBVIOUS
        <3>3. 1 \in 1..(0 + 1) /\ ~(1 <= 0)
            OBVIOUS
        <3> QED BY <3>1, <3>2, <3>3, Zenon DEF Marked
    <2>3. Phase(0, 1, 1, 1) = "skip"
        BY DEF Phase
    <2>4. SubSeq(text, 1, 1 - 1) = <<>> /\ SubSeq(text, 1, 0) = <<>>
        BY SubSeqEmpty
    <2>5. At(text, 0, NothingRead, 1, 1, 1)
        BY <2>1, <2>2, <2>3, <2>4 DEF At
    <2>6. 0 <= Room
        BY ExecveAssumption DEF Room
    <2>7. SoFar(text, 0, NothingRead)
        BY <2>1, <2>5, <2>6 DEF SoFar
    <2> QED BY <1>2, <2>7
<1>4. ASSUME NEW n \in 0..(l - 1), n \in S
      PROVE  n + 1 \in S
    <2>1. n \in Nat /\ n < Len(text) /\ w[n] \in Readers /\ n + 1 \in 0..l
        BY <1>2
    <2>2. SoFar(text, n, w[n])
        BY <1>4
    <2>3. SoFar(text, n + 1, w[n + 1])
        BY <1>2, <2>1, <2>2, SoFarGoes
    <2> QED BY <2>1, <2>3
<1> HIDE DEF S
<1>5. l \in S
    <2>1. \A n \in 0..l : n \in S
        BY <1>2, <1>3, <1>4, InductionUpTo
    <2> QED BY <1>2, <2>1
<1> QED BY <1>1, <1>2, <1>5 DEF S

LEMMA SubSeqIs ==
    ASSUME NEW text \in Seq(Glyphs), NEW i \in Nat \ {0}, NEW j \in Nat, i <= j + 1, j <= Len(text)
    PROVE  /\ SubSeq(text, i, j) \in Seq(Glyphs) /\ Len(SubSeq(text, i, j)) = j - i + 1
           /\ \A n \in 1..(j - i + 1) : SubSeq(text, i, j)[n] = text[i + n - 1]
<1>1. \A n \in i..j : text[n] \in Glyphs
    OBVIOUS
<1>2. i \in Int /\ j \in Int
    OBVIOUS
<1>3. SubSeq(text, i, j) \in Seq(Glyphs) /\ Len(SubSeq(text, i, j)) = (IF i <= j THEN j - i + 1 ELSE 0)
      /\ \A n \in 1..(j - i + 1) : SubSeq(text, i, j)[n] = text[i + n - 1]
    BY <1>1, <1>2, SubSeqProperties
<1>4. ~(i <= j) => j - i + 1 = 0
    OBVIOUS
<1> QED BY <1>3, <1>4

LEMMA SubSeqPrefix ==
    ASSUME NEW text \in Seq(Glyphs), NEW i \in Nat \ {0}, NEW j \in Nat, NEW k \in Nat,
           i <= j + 1, j <= k, k <= Len(text)
    PROVE  IsPrefix(SubSeq(text, i, j), SubSeq(text, i, k))
<1> DEFINE s == SubSeq(text, i, j)
           t == SubSeq(text, i, k)
           u == SubSeq(t, 1, Len(s))
<1>1. /\ s \in Seq(Glyphs) /\ Len(s) = j - i + 1
      /\ \A n \in 1..(j - i + 1) : s[n] = text[i + n - 1]
    BY SubSeqIs
<1>2. /\ t \in Seq(Glyphs) /\ Len(t) = k - i + 1
      /\ \A n \in 1..(k - i + 1) : t[n] = text[i + n - 1]
    <2>1. i <= k + 1
        OBVIOUS
    <2> QED BY <2>1, SubSeqIs
<1> HIDE DEF s, t
<1>3. Len(s) \in Nat /\ Len(s) <= Len(t)
    BY <1>1, <1>2
<1>4. /\ u \in Seq(Glyphs) /\ Len(u) = Len(s) - 1 + 1
      /\ \A n \in 1..(Len(s) - 1 + 1) : u[n] = t[1 + n - 1]
    <2>1. 1 \in Nat \ {0} /\ 1 <= Len(s) + 1
        BY <1>3
    <2> QED BY <1>2, <1>3, <2>1, SubSeqIs
<1> HIDE DEF u
<1>5. Len(s) = Len(u) /\ \A n \in 1..Len(s) : s[n] = u[n]
    <2>1. \A n \in 1..Len(s) : n \in 1..(Len(s) - 1 + 1) /\ n \in 1..(j - i + 1) /\ n \in 1..(k - i + 1)
                               /\ 1 + n - 1 = n
        BY <1>1, <1>3
    <2>2. ASSUME NEW n \in 1..Len(s)
          PROVE  s[n] = u[n]
        BY <1>1, <1>2, <1>4, <2>1
    <2> QED BY <1>3, <1>4, <2>2
<1>6. s = u
    BY <1>1, <1>4, <1>5, SeqEqual
<1>7. SubSeq(s, 1, Len(s)) = s
    BY <1>1, SubSeqFull
<1> QED BY <1>3, <1>6, <1>7 DEF IsPrefix, u, s, t

\* The first of some characters, or the place behind the last one.
LEMMA FirstInIs ==
    ASSUME NEW text \in Seq(Glyphs), NEW from \in 1..(Len(text) + 1), NEW S
    PROVE  /\ FirstIn(text, from, S) \in from..(Len(text) + 1)
           /\ \A j \in from..(FirstIn(text, from, S) - 1) : text[j] \notin S
           /\ FirstIn(text, from, S) <= Len(text) => text[FirstIn(text, from, S)] \in S
<1> DEFINE hits == {n \in from..Len(text) : text[n] \in S}
           l == Len(text)
           p == FirstIn(text, from, S)
<1>1. l \in Nat /\ from \in Nat /\ 1 <= from /\ from <= l + 1
    OBVIOUS
<1>2. CASE hits = {}
    <2>1. p = l + 1
        BY <1>2 DEF FirstIn
    <2>2. \A j \in from..l : j \notin hits
        BY <1>2
    <2>3. \A j \in from..l : text[j] \notin S
        BY <2>2
    <2> HIDE DEF hits, p, l
    <2>4. p \in from..(l + 1) /\ ~(p <= l) /\ p - 1 = l
        BY <1>1, <2>1
    <2> QED BY <2>3, <2>4 DEF p, l
<1>3. CASE hits # {}
    <2>1. p = CHOOSE n \in hits : \A k \in hits : n <= k
        BY <1>3 DEF FirstIn
    <2>2. hits \in SUBSET Nat
        <3>1. \A n \in hits : n \in from..l
            OBVIOUS
        <3>2. \A n \in from..l : n \in Nat
            BY <1>1
        <3> QED BY <3>1, <3>2
    <2>3. p \in hits /\ \A k \in hits : p <= k
        <3>1. \E n \in hits : \A k \in hits : n <= k
            BY <1>3, <2>2, LeastNumber
        <3> HIDE DEF hits
        <3> QED BY <2>1, <3>1
    <2>4. p \in from..l /\ text[p] \in S
        BY <2>3
    <2>5. \A k \in from..l : text[k] \in S => p <= k
        BY <2>3
    <2> HIDE DEF hits, p, l
    <2>6. ASSUME NEW j \in from..(p - 1)
          PROVE  text[j] \notin S
        <3>1. j \in from..l /\ ~(p <= j)
            BY <1>1, <2>4
        <3> QED BY <2>5, <3>1
    <2>7. p \in from..(l + 1)
        BY <1>1, <2>4
    <2> QED BY <2>4, <2>6, <2>7 DEF p, l
<1> QED BY <1>2, <1>3

LEMMA FirstInSays ==
    ASSUME NEW text \in Seq(Glyphs), NEW from \in 1..(Len(text) + 1), NEW S,
           NEW p \in from..(Len(text) + 1), \A j \in from..(p - 1) : text[j] \notin S,
           p <= Len(text) => text[p] \in S
    PROVE  FirstIn(text, from, S) = p
<1> DEFINE q == FirstIn(text, from, S)
           l == Len(text)
<1>1. /\ q \in from..(l + 1) /\ \A j \in from..(q - 1) : text[j] \notin S
      /\ q <= l => text[q] \in S
    BY FirstInIs
<1>2. l \in Nat /\ from \in Nat /\ p \in from..(l + 1)
    OBVIOUS
<1>5. /\ \A j \in from..(p - 1) : text[j] \notin S
      /\ p <= l => text[p] \in S
    OBVIOUS
<1> HIDE DEF q, l
<1>3. ASSUME p < q
      PROVE  FALSE
    <2>1. p \in from..(q - 1) /\ p <= l
        BY <1>1, <1>2, <1>3
    <2> QED BY <1>1, <1>5, <2>1
<1>4. ASSUME q < p
      PROVE  FALSE
    <2>1. q \in from..(p - 1) /\ q <= l
        BY <1>1, <1>2, <1>4
    <2> QED BY <1>1, <1>5, <2>1
<1> QED BY <1>1, <1>2, <1>3, <1>4 DEF q

EndOfLine(text) == FirstIn(text, 1, {"n"})
LineOf(text) == SubSeq(text, 1, EndOfLine(text) - 1)
WordAt(line) == FirstIn(line, 1, Letters)
WordEnd(line) == FirstIn(line, WordAt(line), {" "})
RestAt(line) == FirstIn(line, WordEnd(line), Letters)
WordOf(line) == SubSeq(line, WordAt(line), WordEnd(line) - 1)

LEMMA LineIs ==
    ASSUME NEW text \in Seq(Glyphs)
    PROVE  LET e == EndOfLine(text)
               line == LineOf(text)
           IN  /\ e \in 1..(Len(text) + 1) /\ line \in Seq(Glyphs) /\ Len(line) = e - 1
               /\ \A j \in 1..(e - 1) : text[j] # "n" /\ line[j] = text[j]
               /\ e <= Len(text) => text[e] = "n"
<1> DEFINE e == EndOfLine(text)
           line == LineOf(text)
<1>1. /\ e \in 1..(Len(text) + 1) /\ \A j \in 1..(e - 1) : text[j] \notin {"n"}
      /\ e <= Len(text) => text[e] \in {"n"}
    <2>1. 1 \in 1..(Len(text) + 1)
        OBVIOUS
    <2>2. e = FirstIn(text, 1, {"n"})
        BY DEF EndOfLine
    <2> QED BY <2>1, <2>2, FirstInIs
<1> DEFINE d == e - 1
<1>2. d \in Nat /\ d <= Len(text) /\ 1 \in Nat \ {0} /\ 1 <= d + 1
    BY <1>1
<1>3. line = SubSeq(text, 1, d)
    BY DEF LineOf
<1> HIDE DEF d
<1>4. line \in Seq(Glyphs) /\ Len(line) = d - 1 + 1 /\ \A n \in 1..(d - 1 + 1) : line[n] = text[1 + n - 1]
    BY <1>2, <1>3, SubSeqIs
<1>5. Len(line) = d /\ \A n \in 1..d : line[n] = text[n]
    <2>1. d - 1 + 1 = d /\ \A n \in 1..d : 1 + n - 1 = n
        BY <1>2
    <2> QED BY <1>4, <2>1
<1> HIDE DEF e, line
<1>6. \A j \in 1..(e - 1) : text[j] # "n" /\ line[j] = text[j]
    BY <1>1, <1>5 DEF d
<1>7. Len(line) = e - 1
    BY <1>5 DEF d
<1> QED BY <1>1, <1>4, <1>6, <1>7 DEF e, line

\* The words that are marked in the beginning of a line are the words of the line.
LEMMA WordsAre ==
    ASSUME NEW text \in Seq(Glyphs), NEW line, line = LineOf(text), NEW k \in Nat, k <= Len(line),
           NEW start, NEW end, NEW rest, Marked(text, k, start, end, rest)
    PROVE  /\ start \in 1..(k + 1) /\ end \in start..(k + 1) /\ rest \in end..(k + 1)
           /\ start <= k \/ k = Len(line) => WordAt(line) = start
           /\ end <= k \/ (k = Len(line)) => WordAt(line) = start /\ WordEnd(line) = end
           /\ rest <= k \/ k = Len(line) => RestAt(line) = rest
<1> DEFINE l == Len(line)
<1>1. l \in Nat /\ k <= l /\ line \in Seq(Glyphs) /\ \A j \in 1..l : line[j] = text[j]
    <2> DEFINE e == EndOfLine(text)
    <2>1. /\ e \in 1..(Len(text) + 1) /\ line \in Seq(Glyphs) /\ l = e - 1
          /\ \A j \in 1..(e - 1) : line[j] = text[j]
        BY LineIs
    <2> HIDE DEF e
    <2>2. 1..l = 1..(e - 1) /\ l \in Nat
        BY <2>1
    <2> QED BY <2>1, <2>2
<1>2. /\ start \in 1..(k + 1) /\ end \in start..(k + 1) /\ rest \in end..(k + 1)
      /\ \A j \in 1..(start - 1) : text[j] = " "
      /\ \A j \in start..(end - 1) : text[j] \in Letters
      /\ \A j \in end..(rest - 1) : text[j] = " "
      /\ start <= k => text[start] \in Letters
      /\ end <= k => text[end] = " "
      /\ rest <= k => text[rest] \in Letters
    BY DEF Marked
<1>10. l = Len(line)
    OBVIOUS
<1> HIDE DEF l
<1>3. /\ start \in 1..(l + 1) /\ end \in start..(l + 1) /\ rest \in end..(l + 1)
      /\ end \in 1..(l + 1) /\ start \in Nat /\ end \in Nat /\ rest \in Nat
    <2>1. k \in Nat /\ l \in Nat /\ k <= l
        BY <1>1
    <2>2. start \in 1..(k + 1) /\ end \in start..(k + 1) /\ rest \in end..(k + 1)
        BY <1>2
    <2> QED BY <2>1, <2>2
<1>7. (end <= k => start <= k) /\ (rest <= k => end <= k)
    <2>1. start \in 1..(k + 1) /\ end \in start..(k + 1) /\ rest \in end..(k + 1)
        BY <1>2
    <2> QED BY <2>1
<1>4. ASSUME start <= k \/ k = l
      PROVE  WordAt(line) = start
    <2>1. \A j \in 1..(start - 1) : line[j] \notin Letters
        <3>1. \A j \in 1..(start - 1) : j \in 1..l
            BY <1>1, <1>3
        <3> QED BY <1>1, <1>2, <3>1 DEF Letters
    <2>2. start <= l => line[start] \in Letters
        <3>1. start <= l => start <= k /\ start \in 1..l
            BY <1>1, <1>3, <1>4
        <3> QED BY <1>1, <1>2, <3>1
    <2>3. 1 \in 1..(l + 1)
        BY <1>1
    <2>4. FirstIn(line, 1, Letters) = start
        BY <1>1, <1>3, <1>10, <2>1, <2>2, <2>3, FirstInSays
    <2> QED BY <2>4 DEF WordAt
<1>5. ASSUME end <= k \/ k = l
      PROVE  WordAt(line) = start /\ WordEnd(line) = end
    <2>1. WordAt(line) = start
        <3>1. start <= k \/ k = l
            BY <1>5, <1>7
        <3> QED BY <1>4, <3>1
    <2>2. \A j \in start..(end - 1) : line[j] \notin {" "}
        <3>1. \A j \in start..(end - 1) : j \in 1..l
            BY <1>1, <1>3
        <3> QED BY <1>1, <1>2, <3>1 DEF Letters
    <2>3. end <= l => line[end] \in {" "}
        <3>1. end <= l => end <= k /\ end \in 1..l
            BY <1>1, <1>3, <1>5
        <3> QED BY <1>1, <1>2, <3>1
    <2>4. FirstIn(line, start, {" "}) = end
        <3> DEFINE blank == {" "}
        <3>1. /\ line \in Seq(Glyphs) /\ start \in 1..(Len(line) + 1) /\ end \in start..(Len(line) + 1)
              /\ \A j \in start..(end - 1) : line[j] \notin blank
              /\ end <= Len(line) => line[end] \in blank
            BY <1>1, <1>3, <1>10, <2>2, <2>3
        <3> HIDE DEF blank
        <3>2. FirstIn(line, start, blank) = end
            BY <3>1, FirstInSays
        <3> QED BY <3>2 DEF blank
    <2>5. WordEnd(line) = FirstIn(line, WordAt(line), {" "})
        BY DEF WordEnd
    <2> QED BY <2>1, <2>4, <2>5
<1>6. ASSUME rest <= k \/ k = l
      PROVE  RestAt(line) = rest
    <2>1. WordEnd(line) = end
        <3>1. end <= k \/ k = l
            BY <1>6, <1>7
        <3> QED BY <1>5, <3>1
    <2>2. \A j \in end..(rest - 1) : line[j] \notin Letters
        <3>1. \A j \in end..(rest - 1) : j \in 1..l
            BY <1>1, <1>3
        <3> QED BY <1>1, <1>2, <3>1 DEF Letters
    <2>3. rest <= l => line[rest] \in Letters
        <3>1. rest <= l => rest <= k /\ rest \in 1..l
            BY <1>1, <1>3, <1>6
        <3> QED BY <1>1, <1>2, <3>1
    <2>4. FirstIn(line, end, Letters) = rest
        BY <1>1, <1>3, <1>10, <2>2, <2>3, FirstInSays
    <2> QED BY <2>1, <2>4 DEF RestAt
<1> QED BY <1>2, <1>4, <1>5, <1>6, <1>10

LEMMA LineParts ==
    ASSUME NEW text \in Seq(Glyphs), NEW i \in Nat \ {0}, NEW j \in Nat, i <= j + 1, j <= Len(LineOf(text))
    PROVE  SubSeq(LineOf(text), i, j) = SubSeq(text, i, j)
<1> DEFINE line == LineOf(text)
           e == EndOfLine(text)
           s == SubSeq(line, i, j)
           t == SubSeq(text, i, j)
<1>1. /\ e \in 1..(Len(text) + 1) /\ line \in Seq(Glyphs) /\ Len(line) = e - 1
      /\ \A n \in 1..(e - 1) : line[n] = text[n]
    BY LineIs
<1>2. j <= Len(line)
    OBVIOUS
<1> HIDE DEF line, e
<1>3. j <= Len(text) /\ j <= e - 1
    BY <1>1, <1>2
<1>4. t \in Seq(Glyphs) /\ Len(t) = j - i + 1 /\ \A n \in 1..(j - i + 1) : t[n] = text[i + n - 1]
    BY <1>3, SubSeqIs
<1>5. s \in Seq(Glyphs) /\ Len(s) = j - i + 1 /\ \A n \in 1..(j - i + 1) : s[n] = line[i + n - 1]
    BY <1>1, <1>2, SubSeqIs
<1>6. \A n \in 1..(j - i + 1) : i + n - 1 \in 1..(e - 1)
    BY <1>1, <1>3
<1> HIDE DEF s, t
<1>7. \A n \in 1..Len(s) : s[n] = t[n]
    BY <1>1, <1>4, <1>5, <1>6
<1>8. s = t
    BY <1>4, <1>5, <1>7, SeqEqual
<1> QED BY <1>8 DEF s, t, line

ArgumentIs(line, argument) ==
    IF RestAt(line) > Len(line) THEN argument = <<>>
    ELSE /\ IsPrefix(argument, SubSeq(line, RestAt(line), Len(line)))
         /\ Last(argument) # " "
         /\ ToSet(SubSeq(line, RestAt(line) + Len(argument), Len(line))) \subseteq {" "}

\* ShebangExact, of a text and what was found in it.
Taken(text, line, out) ==
    /\ Len(out.path) + Len(out.argument) <= Room
    /\ IsPrefix(out.path, WordOf(line))
    /\ EndOfLine(text) <= Len(text) /\ EndOfLine(text) <= Room =>
          out.status = 1 /\ out.path = WordOf(line) /\ ArgumentIs(line, out.argument)
    /\ EndOfLine(text) > Len(text) /\ Len(text) <= Room =>
          /\ out.argument = <<>>
          /\ out.status = 1 <=> WordOf(line) # <<>>
          /\ out.path = IF WordOf(line) # <<>> /\ WordEnd(line) > Len(line)
                        THEN Front(WordOf(line)) ELSE WordOf(line)

LEMMA EndedTaken ==
    ASSUME NEW text \in Seq(Glyphs), NEW e \in 1..Len(text), e <= Room, text[e] = "n",
           NEW s, NEW start, NEW end, NEW rest, Ended(text, e, s, start, end, rest)
    PROVE  Taken(text, LineOf(text), Script(s.path, s.argument))
<1> DEFINE line == LineOf(text)
           k == e - 1
           x == SubSeq(text, rest, k)
           y == Trimmed(x)
           path == SubSeq(text, start, end - 1)
<1>1. Marked(text, k, start, end, rest)
    BY DEF Ended
<1>2. e \in Nat /\ k \in Nat /\ k <= Len(text) /\ e <= Len(text) /\ Room \in Int /\ k < e /\ k <= Room /\ e <= Room
    BY ExecveAssumption DEF Room
<1>3. e = EndOfLine(text)
    <2>1. \A j \in 1..(e - 1) : text[j] \notin {"n"}
        BY <1>1 DEF Marked
    <2>2. 1 \in 1..(Len(text) + 1) /\ e \in 1..(Len(text) + 1) /\ text[e] \in {"n"}
        BY <1>2
    <2>3. FirstIn(text, 1, {"n"}) = e
        BY <2>1, <2>2, FirstInSays
    <2> QED BY <2>3 DEF EndOfLine
<1>4. line \in Seq(Glyphs) /\ Len(line) = k /\ \A j \in 1..k : line[j] = text[j]
    BY <1>3, LineIs
<1>5. /\ start \in 1..(k + 1) /\ end \in start..(k + 1) /\ rest \in end..(k + 1)
      /\ WordAt(line) = start /\ WordEnd(line) = end /\ RestAt(line) = rest
    <2>1. line = LineOf(text)
        OBVIOUS
    <2> HIDE DEF line
    <2>2. k <= Len(line) /\ k = Len(line)
        BY <1>2, <1>4
    <2> HIDE DEF k
    <2> QED BY <1>1, <1>2, <2>1, <2>2, WordsAre
<1> HIDE DEF k
<1>6. /\ start \in Nat \ {0} /\ end \in Nat \ {0} /\ rest \in Nat \ {0} /\ end - 1 \in Nat
      /\ start <= end - 1 + 1 /\ end - 1 <= k /\ end - 1 <= Len(text) /\ rest <= k + 1 /\ end <= rest
    BY <1>2, <1>5
<1>7. path \in Seq(Glyphs) /\ Len(path) = end - 1 - start + 1
    BY <1>6, SubSeqIs
<1>8. path = WordOf(line)
    BY <1>4, <1>5, <1>6, LineParts DEF WordOf
<1>9. IsPrefix(path, path)
    BY <1>7, SubSeqFull DEF IsPrefix
<1>10. s.path = path /\ s.argument = IF rest <= k THEN y ELSE <<>>
    BY DEF Ended, k
<1> DEFINE out == Script(s.path, s.argument)
<1>11. out.path = s.path /\ out.argument = s.argument /\ out.status = 1
    BY DEF Script
<1>12. ~(EndOfLine(text) > Len(text))
    BY <1>2, <1>3
<1>13. CASE rest > k
    <2>1. ~(rest <= k)
        BY <1>2, <1>6, <1>13
    <2>2. s.argument = <<>> /\ Len(s.argument) = 0
        BY <1>10, <2>1, EmptySeq
    <2>3. Len(path) + 0 <= Room
        BY <1>2, <1>5, <1>6, <1>7
    <2>4. ArgumentIs(line, s.argument)
        BY <1>4, <1>5, <1>13, <2>2 DEF ArgumentIs
    <2> HIDE DEF path, line, out
    <2>5. Taken(text, line, out)
        BY <1>8, <1>9, <1>10, <1>11, <1>12, <2>2, <2>3, <2>4 DEF Taken
    <2> QED BY <2>5 DEF line, out
<1>14. CASE rest <= k
    <2>1. ~(rest > k) /\ k <= Len(text)
        BY <1>2, <1>6, <1>14
    <2>2. x \in Seq(Glyphs) /\ Len(x) = k - rest + 1 /\ \A n \in 1..(k - rest + 1) : x[n] = text[rest + n - 1]
        BY <1>2, <1>6, <2>1, SubSeqIs
    <2>3. x # <<>> /\ x[1] # " "
        <3>1. 1 \in 1..(k - rest + 1) /\ rest + 1 - 1 = rest /\ k - rest + 1 # 0
            BY <1>2, <1>6, <1>14
        <3>2. x[1] = text[rest]
            BY <2>2, <3>1
        <3>3. text[rest] \in Letters
            BY <1>1, <1>14 DEF Marked
        <3>4. Len(x) # 0
            BY <2>2, <3>1
        <3> HIDE DEF x
        <3>5. x # <<>>
            BY <3>4, EmptySeq
        <3> QED BY <3>2, <3>3, <3>5 DEF Letters
    <2> DEFINE z == SubSeq(line, rest + Len(y), k)
    <2> HIDE DEF x
    <2>4. y = Trimmed(x)
        OBVIOUS
    <2> HIDE DEF y
    <2>5. /\ y \in Seq(Glyphs) /\ Len(y) \in 1..Len(x) /\ IsPrefix(y, x)
          /\ y[Len(y)] # " " /\ \A n \in (Len(y) + 1)..Len(x) : x[n] = " "
        BY <2>2, <2>3, <2>4, TrimmedSays
    <2>12. Len(y) \in Nat /\ 1 <= Len(y) /\ Len(y) <= k - rest + 1 /\ Len(x) = k - rest + 1
           /\ rest \in Nat /\ 1 <= rest /\ rest <= k + 1 /\ k \in Nat
        <3>1. Len(y) \in 1..Len(x) /\ Len(x) = k - rest + 1
            BY <2>2, <2>5
        <3>2. rest \in Nat \ {0} /\ k \in Nat /\ rest <= k + 1
            BY <1>2, <1>6
        <3> HIDE DEF k, y
        <3> QED BY <3>1, <3>2
    <2>6. SubSeq(line, rest, k) = x
        BY <1>2, <1>4, <1>6, LineParts DEF x
    <2>7. ToSet(z) \subseteq {" "}
        <3> DEFINE i == rest + Len(y)
        <3>1. i \in Nat \ {0} /\ i <= k + 1
            BY <2>12
        <3>2. z \in Seq(Glyphs) /\ Len(z) = k - i + 1 /\ \A n \in 1..(k - i + 1) : z[n] = line[i + n - 1]
            <4>1. k <= Len(line)
                BY <1>2, <1>4
            <4> HIDE DEF i, line
            <4> QED BY <1>2, <1>4, <3>1, <4>1, SubSeqIs DEF i
        <3>3. ASSUME NEW n \in 1..(k - i + 1)
              PROVE  z[n] = " "
            <4>1. i + n - 1 \in 1..k /\ Len(y) + n \in (Len(y) + 1)..Len(x) /\ Len(y) + n \in 1..(k - rest + 1)
                  /\ rest + (Len(y) + n) - 1 = i + n - 1
                BY <2>12
            <4>2. z[n] = text[i + n - 1]
                BY <1>4, <3>2, <4>1
            <4>3. x[Len(y) + n] = text[rest + (Len(y) + n) - 1]
                BY <2>2, <4>1
            <4> QED BY <2>5, <4>1, <4>2, <4>3
        <3> HIDE DEF z, i
        <3>4. DOMAIN z = 1..(k - i + 1)
            BY <3>2
        <3> QED BY <3>3, <3>4 DEF ToSet
    <2>8. s.argument = y
        BY <1>10, <1>14
    <2>9. Len(path) + Len(y) <= Room
        <3>1. Len(path) = end - 1 - start + 1 /\ start \in Nat \ {0} /\ end \in Nat /\ end <= rest /\ k <= Room
              /\ Room \in Int
            BY <1>2, <1>6, <1>7
        <3> QED BY <2>12, <3>1
    <2>10. ArgumentIs(line, y)
        BY <1>4, <1>5, <2>1, <2>5, <2>6, <2>7 DEF ArgumentIs, Last
    <2> HIDE DEF path, line, out
    <2>11. Taken(text, line, out)
        BY <1>8, <1>9, <1>10, <1>11, <1>12, <2>8, <2>9, <2>10 DEF Taken
    <2> QED BY <2>11 DEF line, out
<1>15. rest > k \/ rest <= k
    BY <1>2, <1>6
<1> QED BY <1>13, <1>14, <1>15

LEMMA EmptyPrefix ==
    ASSUME NEW w \in Seq(Glyphs)
    PROVE  IsPrefix(<<>>, w) /\ Len(<<>>) = 0
<1>1. Len(<<>>) = 0 /\ Len(w) \in Nat
    BY EmptySeq
<1>2. SubSeq(<<>>, 1, 0) = <<>> /\ SubSeq(w, 1, 0) = <<>>
    BY SubSeqEmpty
<1> QED BY <1>1, <1>2 DEF IsPrefix

LEMMA WordIs ==
    ASSUME NEW line \in Seq(Glyphs)
    PROVE  /\ WordAt(line) \in 1..(Len(line) + 1) /\ WordEnd(line) \in WordAt(line)..(Len(line) + 1)
           /\ WordEnd(line) <= Len(line) => line[WordEnd(line)] = " "
           /\ WordOf(line) \in Seq(Glyphs)
<1> DEFINE l == Len(line)
           p == WordAt(line)
           q == WordEnd(line)
<1>1. p \in 1..(l + 1)
    <2>1. 1 \in 1..(l + 1)
        OBVIOUS
    <2> QED BY <2>1, FirstInIs DEF WordAt
<1>2. q \in p..(l + 1) /\ (q <= l => line[q] \in {" "})
    <2>1. q = FirstIn(line, p, {" "})
        BY DEF WordEnd
    <2> HIDE DEF p, q
    <2> QED BY <1>1, <2>1, FirstInIs
<1>3. WordOf(line) \in Seq(Glyphs)
    <2>1. p \in Nat \ {0} /\ q - 1 \in Nat /\ p <= q - 1 + 1 /\ q - 1 <= Len(line)
        <3>1. Len(line) \in Nat /\ l = Len(line)
            OBVIOUS
        <3> HIDE DEF l, p, q
        <3>2. q \in p..(l + 1)
            BY <1>2
        <3> QED BY <1>1, <3>1, <3>2
    <2>2. SubSeq(line, p, q - 1) \in Seq(Glyphs)
        BY <2>1, SubSeqIs
    <2> QED BY <2>2 DEF WordOf
<1> QED BY <1>1, <1>2, <1>3

LEMMA CutTaken ==
    ASSUME NEW text \in Seq(Glyphs), Len(text) > Room,
           NEW s, NEW start, NEW end, NEW rest, Cut(text, s, start, end, rest)
    PROVE  Taken(text, LineOf(text), Script(s.path, s.argument))
<1> DEFINE line == LineOf(text)
           e == EndOfLine(text)
           path == SubSeq(text, start, end - 1)
           argument == SubSeq(text, rest, Room)
           out == Script(s.path, s.argument)
<1>1. Room \in Nat /\ Len(text) \in Nat /\ Room < Len(text)
    BY ExecveAssumption DEF Room
<1>2. Marked(text, Room, start, end, rest) /\ s.path = path /\ s.argument = argument
    BY DEF Cut
<1>3. /\ e \in 1..(Len(text) + 1) /\ line \in Seq(Glyphs) /\ Len(line) = e - 1
      /\ \A j \in 1..(e - 1) : line[j] = text[j]
      /\ e <= Len(text) => text[e] = "n"
    BY LineIs
<1>4. e > Room
    <2>1. \A j \in 1..Room : text[j] # "n"
        BY <1>2 DEF Marked
    <2> HIDE DEF e, line
    <2>2. SUFFICES ASSUME e <= Room
                   PROVE  FALSE
        BY <1>1, <1>3
    <2>3. e \in 1..Room /\ e <= Len(text)
        BY <1>1, <1>3, <2>2
    <2> QED BY <1>3, <2>1, <2>3
<1>5. Room <= Len(line)
    <2> HIDE DEF e, line
    <2> QED BY <1>1, <1>3, <1>4
<1>6. /\ start \in 1..(Room + 1) /\ end \in start..(Room + 1) /\ rest \in end..(Room + 1)
      /\ start <= Room => WordAt(line) = start
      /\ end <= Room => WordAt(line) = start /\ WordEnd(line) = end
    <2>1. line = LineOf(text)
        OBVIOUS
    <2> HIDE DEF line
    <2> QED BY <1>1, <1>2, <1>5, <2>1, WordsAre
<1>7. /\ start \in Nat \ {0} /\ end \in Nat \ {0} /\ rest \in Nat \ {0} /\ end - 1 \in Nat
      /\ start <= end - 1 + 1 /\ end - 1 <= Room /\ rest <= Room + 1 /\ end <= rest /\ end <= Room + 1
      /\ start <= Room + 1
    BY <1>1, <1>6
<1>8. path \in Seq(Glyphs) /\ Len(path) = end - 1 - start + 1 /\ Len(argument) = Room - rest + 1
    <2>1. end - 1 <= Len(text) /\ Room <= Len(text)
        BY <1>1, <1>7
    <2> QED BY <1>1, <1>7, <2>1, SubSeqIs
<1>9. Len(path) + Len(argument) <= Room
    BY <1>1, <1>7, <1>8
<1>10. IsPrefix(path, WordOf(line))
    <2>1. CASE end <= Room
        <3>1. path = WordOf(line)
            <4>1. end - 1 <= Len(line)
                <5> HIDE DEF line
                <5> QED BY <1>1, <1>3, <1>5, <1>7
            <4> QED BY <1>6, <1>7, <2>1, <4>1, LineParts DEF WordOf
        <3>2. IsPrefix(path, path)
            BY <1>8, SubSeqFull DEF IsPrefix
        <3> HIDE DEF path, line
        <3> QED BY <3>1, <3>2
    <2>2. CASE end = Room + 1 /\ start <= Room
        <3> DEFINE q == WordEnd(line)
        <3>1. q \in start..(Len(line) + 1) /\ (q <= Len(line) => line[q] = " ") /\ WordAt(line) = start
            BY <1>3, <1>6, <2>2, WordIs
        <3>6. /\ q \in Int /\ start <= q /\ q <= e /\ e \in Nat /\ e <= Len(text) + 1 /\ Len(line) = e - 1
              /\ start \in Nat \ {0} /\ end = Room + 1 /\ Room < e
            <4> HIDE DEF q, line, e
            <4>1. q \in start..(Len(line) + 1)
                BY <3>1
            <4>2. e \in Nat /\ e <= Len(text) + 1 /\ Len(line) = e - 1
                BY <1>1, <1>3
            <4> QED BY <1>1, <1>4, <1>7, <2>2, <4>1, <4>2
        <3>2. q > Room
            <4>1. \A j \in start..(end - 1) : text[j] \in Letters
                BY <1>2 DEF Marked
            <4> HIDE DEF q, line, e
            <4>2. SUFFICES ASSUME q <= Room
                           PROVE  FALSE
                BY <1>1, <3>6
            <4>3. q \in start..(end - 1) /\ q <= Len(line) /\ q \in 1..(e - 1)
                BY <1>1, <3>6, <4>2
            <4> QED BY <1>3, <3>1, <4>1, <4>3 DEF Letters
        <3>3. q - 1 \in Nat /\ Room <= q - 1 /\ q - 1 <= Len(line) /\ q - 1 <= Len(text) /\ start <= q - 1 + 1
              /\ end - 1 = Room
            <4> HIDE DEF q, line, e
            <4> QED BY <1>1, <3>2, <3>6
        <3>4. SubSeq(line, start, q - 1) = SubSeq(text, start, q - 1)
            <4> DEFINE j == q - 1
            <4> HIDE DEF j
            <4>1. j \in Nat /\ start <= j + 1 /\ j <= Len(LineOf(text))
                BY <3>3 DEF j
            <4>2. SubSeq(LineOf(text), start, j) = SubSeq(text, start, j)
                BY <1>7, <4>1, LineParts
            <4> QED BY <4>2 DEF j
        <3>5. IsPrefix(SubSeq(text, start, Room), SubSeq(text, start, q - 1))
            <4> HIDE DEF q
            <4>1. start <= Room + 1
                BY <1>7
            <4> QED BY <1>1, <1>7, <3>3, <4>1, SubSeqPrefix
        <3> HIDE DEF line
        <3> QED BY <3>1, <3>3, <3>4, <3>5 DEF WordOf
    <2>3. CASE start = Room + 1
        <3>1. start \in Int /\ end - 1 \in Int /\ end - 1 < start
            BY <1>1, <1>7, <2>3
        <3>2. path = <<>>
            BY <3>1, SubSeqEmpty
        <3>3. WordOf(line) \in Seq(Glyphs)
            BY <1>3, WordIs
        <3> HIDE DEF path, line
        <3> QED BY <3>2, <3>3, EmptyPrefix
    <2>4. end <= Room \/ (end = Room + 1 /\ start <= Room) \/ start = Room + 1
        BY <1>1, <1>7
    <2> QED BY <2>1, <2>2, <2>3, <2>4
<1>11. out.path = s.path /\ out.argument = s.argument
    BY DEF Script
<1>12. ~(EndOfLine(text) <= Room) /\ ~(Len(text) <= Room)
    <2> HIDE DEF e, line
    <2>1. ~(e <= Room)
        BY <1>1, <1>3, <1>4
    <2> QED BY <1>1, <2>1 DEF e
<1> HIDE DEF path, argument, line, out
<1>13. Taken(text, line, out)
    BY <1>2, <1>9, <1>10, <1>11, <1>12 DEF Taken
<1> QED BY <1>13 DEF line, out

LEMMA LastTaken ==
    ASSUME NEW text \in Seq(Glyphs), Len(text) <= Room, NEW s,
           NEW start, NEW end, NEW rest, At(text, Len(text), s, start, end, rest), NEW out,
           out \in {Script(s.path, <<>>), Script(Front(s.path), <<>>),
                    [status |-> NOEXEC, path |-> <<>>, argument |-> <<>>]},
           s.phase \in {"gap", "argument"} => out = Script(s.path, <<>>),
           s.phase = "path" => out = Script(Front(s.path), <<>>),
           s.phase = "skip" => out = [status |-> NOEXEC, path |-> <<>>, argument |-> <<>>]
    PROVE  Taken(text, LineOf(text), out)
<1> DEFINE line == LineOf(text)
           k == Len(text)
           path == SubSeq(text, start, end - 1)
<1>1. k \in Nat /\ Room \in Nat /\ k <= Room
    BY ExecveAssumption DEF Room
<1>2. Marked(text, k, start, end, rest) /\ s.path = path /\ s.phase = Phase(k, start, end, rest)
    BY DEF At
<1>3. EndOfLine(text) = k + 1
    <2>1. \A j \in 1..(k + 1 - 1) : text[j] \notin {"n"}
        <3>1. \A j \in 1..k : text[j] # "n"
            BY <1>2 DEF Marked
        <3>2. k + 1 - 1 = k
            BY <1>1
        <3> QED BY <3>1, <3>2
    <2>2. 1 \in 1..(k + 1) /\ k + 1 \in 1..(k + 1) /\ ~(k + 1 <= k)
        BY <1>1
    <2>3. FirstIn(text, 1, {"n"}) = k + 1
        <3> DEFINE p == k + 1
        <3>1. /\ 1 \in 1..(Len(text) + 1) /\ p \in 1..(Len(text) + 1) /\ ~(p <= Len(text))
              /\ \A j \in 1..(p - 1) : text[j] \notin {"n"}
            BY <2>1, <2>2
        <3> HIDE DEF p
        <3>2. FirstIn(text, 1, {"n"}) = p
            BY <3>1, FirstInSays
        <3> QED BY <3>2 DEF p
    <2> QED BY <2>3 DEF EndOfLine
<1>4. line \in Seq(Glyphs) /\ Len(line) = k
    <2>1. line \in Seq(Glyphs) /\ Len(line) = EndOfLine(text) - 1
        BY LineIs
    <2> HIDE DEF line
    <2> QED BY <1>1, <1>3, <2>1
<1>5. /\ start \in 1..(k + 1) /\ end \in start..(k + 1) /\ rest \in end..(k + 1)
      /\ WordAt(line) = start /\ WordEnd(line) = end
    <2>1. line = LineOf(text)
        OBVIOUS
    <2> HIDE DEF line
    <2>2. k <= Len(line) /\ k = Len(line)
        BY <1>1, <1>4
    <2>4. k = Len(text)
        OBVIOUS
    <2> HIDE DEF k
    <2> QED BY <1>1, <1>2, <2>1, <2>2, WordsAre
<1>6. /\ start \in Nat \ {0} /\ end - 1 \in Nat /\ start <= end - 1 + 1 /\ end - 1 <= k
      /\ end \in Nat /\ start <= end /\ end <= k + 1 /\ rest \in Nat /\ end <= rest
    <2> HIDE DEF k
    <2> QED BY <1>1, <1>5
<1>7. path = WordOf(line)
    BY <1>4, <1>5, <1>6, LineParts DEF WordOf
<1>8. path \in Seq(Glyphs) /\ Len(path) = end - 1 - start + 1
    BY <1>6, SubSeqIs
<1>9. Len(<<>>) = 0
    BY EmptySeq
<1>10. IsPrefix(path, path) /\ IsPrefix(<<>>, path)
    BY <1>8, SubSeqFull, EmptyPrefix DEF IsPrefix
<1>11. ~(EndOfLine(text) <= Len(text))
    BY <1>1, <1>3
<1>12. Len(path) <= Room
    <2> HIDE DEF path, k
    <2> QED BY <1>1, <1>6, <1>8
<1>13. start < end => path # <<>>
    <2> HIDE DEF path, k
    <2>1. start < end => Len(path) # 0
        BY <1>6, <1>8
    <2> QED BY <2>1, <1>9
<1>14. \A p, a : /\ Script(p, a).path = p /\ Script(p, a).argument = a /\ Script(p, a).status = 1
    BY DEF Script
<1>21. out.argument = <<>>
    BY <1>14
<1>15. /\ s.phase = "skip" => start = k + 1 /\ end = k + 1
       /\ s.phase = "path" => start <= k /\ end = k + 1
       /\ s.phase \in {"gap", "argument"} => start <= k /\ end <= k
       /\ s.phase \in {"skip", "path", "gap", "argument"}
    <2> HIDE DEF k
    <2>1. s.phase = IF start > k THEN "skip" ELSE IF end > k THEN "path" ELSE IF rest > k THEN "gap" ELSE "argument"
        BY <1>2 DEF Phase
    <2>2. CASE start > k
        BY <1>1, <1>6, <2>1, <2>2
    <2>3. CASE start <= k /\ end > k
        BY <1>1, <1>6, <2>1, <2>3
    <2>4. CASE start <= k /\ end <= k
        BY <1>1, <1>6, <2>1, <2>4
    <2> QED BY <1>1, <1>6, <2>2, <2>3, <2>4
<1>16. start < end \/ s.phase = "skip"
    <2>1. SUFFICES ASSUME start = end, start <= k
                   PROVE  FALSE
        <3> HIDE DEF k
        <3> QED BY <1>1, <1>6, <1>15
    <2>2. text[start] \in Letters /\ text[end] = " "
        BY <1>2, <2>1 DEF Marked
    <2> QED BY <2>1, <2>2 DEF Letters
<1>17. CASE s.phase \in {"gap", "argument"}
    <2>1. out.path = path /\ out.status = 1
        <3>1. out = Script(s.path, <<>>)
            BY <1>17
        <3> HIDE DEF path
        <3> QED BY <1>2, <1>14, <3>1
    <2>2. path # <<>> /\ ~(WordEnd(line) > Len(line))
        <3>1. s.phase # "skip" /\ end <= k
            BY <1>15, <1>17
        <3>2. ~(end > k)
            BY <1>1, <1>6, <3>1
        <3> HIDE DEF path, line, k
        <3> QED BY <1>4, <1>5, <1>13, <1>16, <3>1, <3>2
    <2>3. Len(out.path) + Len(out.argument) <= Room
        <3> HIDE DEF path
        <3> QED BY <1>8, <1>9, <1>12, <1>21, <2>1
    <2> HIDE DEF path, line, k
    <2>4. Taken(text, line, out)
        BY <1>7, <1>10, <1>11, <1>21, <2>1, <2>2, <2>3 DEF Taken
    <2> QED BY <2>4 DEF line
<1>18. CASE s.phase = "path"
    <2> DEFINE f == Front(path)
    <2>1. out.path = f /\ out.status = 1
        BY <1>2, <1>14, <1>18
    <2>2. path # <<>> /\ WordEnd(line) > Len(line)
        <3>1. s.phase # "skip" /\ end = k + 1
            BY <1>15, <1>18
        <3>2. end > k
            BY <1>1, <3>1
        <3> HIDE DEF path, line, k
        <3> QED BY <1>4, <1>5, <1>13, <1>16, <3>1, <3>2
    <2>3. IsPrefix(f, path) /\ Len(f) = Len(path) - 1
        <3> DEFINE j == end - 1 - 1
        <3>1. start < end
            BY <1>16, <1>18
        <3>2. j \in Nat /\ start <= j + 1 /\ j <= Len(text) /\ j <= end - 1 /\ end - 1 <= Len(text)
            BY <1>6, <3>1
        <3>3. IsPrefix(SubSeq(text, start, j), path)
            <4> HIDE DEF j
            <4> QED BY <1>6, <3>2, SubSeqPrefix
        <3>4. f = SubSeq(text, start, j)
            <4> DEFINE g == SubSeq(text, start, j)
                       m == Len(path) - 1
            <4>1. /\ g \in Seq(Glyphs) /\ Len(g) = j - start + 1
                  /\ \A n \in 1..(j - start + 1) : g[n] = text[start + n - 1]
                <5> HIDE DEF j
                <5> QED BY <1>6, <3>2, SubSeqIs
            <4>2. \A n \in 1..(end - 1 - start + 1) : path[n] = text[start + n - 1]
                BY <1>6, SubSeqIs
            <4>3. m \in Nat /\ m = j - start + 1 /\ m <= Len(path)
                <5> HIDE DEF path
                <5> QED BY <1>6, <1>8, <3>1
            <4>4. f = SubSeq(path, 1, m)
                BY DEF Front
            <4> HIDE DEF path, g, j, f
            <4>5. f \in Seq(Glyphs) /\ Len(f) = m - 1 + 1 /\ \A n \in 1..(m - 1 + 1) : f[n] = path[1 + n - 1]
                <5>1. 1 \in Nat \ {0} /\ 1 <= m + 1
                    BY <4>3
                <5> HIDE DEF m
                <5> QED BY <1>8, <4>3, <4>4, <5>1, SubSeqIs
            <4> HIDE DEF m
            <4>6. ASSUME NEW n \in 1..m
                  PROVE  f[n] = g[n]
                <5>1. n \in 1..(m - 1 + 1) /\ 1 + n - 1 = n /\ n \in 1..(j - start + 1)
                    BY <4>3
                <5>2. n \in 1..(end - 1 - start + 1)
                    BY <1>8, <4>3
                <5> QED BY <4>1, <4>2, <4>5, <5>1, <5>2
            <4>7. Len(f) = m /\ Len(g) = m
                BY <4>1, <4>3, <4>5
            <4>8. f = g
                BY <4>1, <4>5, <4>6, <4>7, SeqEqual
            <4> QED BY <4>8 DEF g
        <3>5. Len(f) = j - start + 1
            <4> HIDE DEF f, path, j
            <4>1. Len(SubSeq(text, start, j)) = j - start + 1
                BY <1>6, <3>2, SubSeqIs
            <4> QED BY <3>4, <4>1
        <3>6. j - start + 1 = Len(path) - 1
            <4> HIDE DEF path
            <4> QED BY <1>6, <1>8
        <3> HIDE DEF f, path, j
        <3> QED BY <3>3, <3>4, <3>5, <3>6
    <2> HIDE DEF f
    <2>4. Len(out.path) + Len(out.argument) <= Room
        <3>1. Len(path) \in Nat
            BY <1>8
        <3> HIDE DEF path
        <3> QED BY <1>1, <1>9, <1>12, <1>21, <2>1, <2>3, <3>1
    <2>5. f = Front(path)
        BY DEF f
    <2> HIDE DEF path, line, k
    <2>6. Taken(text, line, out)
        BY <1>7, <1>11, <1>21, <2>1, <2>2, <2>3, <2>4, <2>5 DEF Taken
    <2> QED BY <2>6 DEF line
<1>19. CASE s.phase = "skip"
    <2>1. out.path = <<>> /\ out.status # 1
        BY <1>19 DEF NOEXEC
    <2>2. path = <<>>
        <3>1. start \in Int /\ end - 1 \in Int /\ end - 1 < start
            BY <1>6, <1>15, <1>19
        <3> QED BY <3>1, SubSeqEmpty
    <2>3. Len(out.path) + Len(out.argument) <= Room
        BY <1>1, <1>9, <1>21, <2>1
    <2> HIDE DEF path, line, k
    <2>4. Taken(text, line, out)
        BY <1>7, <1>10, <1>11, <1>21, <2>1, <2>2, <2>3 DEF Taken
    <2> QED BY <2>4 DEF line
<1> QED BY <1>15, <1>17, <1>18, <1>19

\* Whatever the text.
LEMMA ShebangTaken ==
    ASSUME NEW text \in Seq(Glyphs)
    PROVE  Taken(text, LineOf(text), extract_shebang(text))
<1> DEFINE s == Read(text)
           out == extract_shebang(text)
<1>4. s \in Readers /\ SoFar(text, Len(text), s)
    BY ReadSays
<1>6. out = CASE s.phase \in {"end", "cut"}     -> Script(s.path, s.argument)
              [] s.phase \in {"gap", "argument"} -> Script(s.path, <<>>)
              [] s.phase = "path" -> Script(Front(s.path), <<>>)
              [] s.phase = "skip" -> [status |-> NOEXEC, path |-> <<>>, argument |-> <<>>]
    BY DEF extract_shebang
<1>7. s.phase \in {"skip", "path", "gap", "argument", "end", "cut"}
    BY <1>4 DEF Readers, Readings
<1> HIDE DEF s, out
<1>8. Taken(text, LineOf(text), out)
    <2>1. CASE s.phase = "end"
        <3>1. out = Script(s.path, s.argument)
            BY <1>6, <2>1
        <3>2. PICK e \in 1..Len(text) : /\ e <= Room /\ text[e] = "n"
                                        /\ \E start, end, rest : Ended(text, e, s, start, end, rest)
            BY <1>4, <2>1 DEF SoFar
        <3> QED BY <3>1, <3>2, EndedTaken
    <2>2. CASE s.phase = "cut"
        <3>1. out = Script(s.path, s.argument)
            BY <1>6, <2>2
        <3>2. Len(text) > Room /\ \E start, end, rest : Cut(text, s, start, end, rest)
            BY <1>4, <2>2 DEF SoFar
        <3> QED BY <3>1, <3>2, CutTaken
    <2>3. CASE s.phase \notin {"end", "cut"}
        <3>1. Len(text) <= Room /\ \E start, end, rest : At(text, Len(text), s, start, end, rest)
            BY <1>4, <2>3 DEF SoFar
        <3>2. /\ s.phase \in {"gap", "argument"} => out = Script(s.path, <<>>)
              /\ s.phase = "path" => out = Script(Front(s.path), <<>>)
              /\ s.phase = "skip" => out = [status |-> NOEXEC, path |-> <<>>, argument |-> <<>>]
            BY <1>6
        <3>3. out \in {Script(s.path, <<>>), Script(Front(s.path), <<>>),
                       [status |-> NOEXEC, path |-> <<>>, argument |-> <<>>]}
            BY <1>7, <2>3, <3>2
        <3> QED BY <3>1, <3>2, <3>3, LastTaken
    <2> QED BY <2>1, <2>2, <2>3
<1> QED BY <1>8 DEF out

LEMMA TextsAre ==
    \A n \in 0..MaxText : \A text \in [1..n -> {" ", "n", "a", "b"}] : text \in Seq(Glyphs)
<1>1. MaxText \in Nat
    BY ExecveAssumption
<1>2. \A n \in 0..MaxText : n \in Nat
    BY <1>1
<1>3. \A n \in Nat : \A text \in [1..n -> Glyphs] : text \in Seq(Glyphs)
    OBVIOUS
<1> QED BY <1>2, <1>3 DEF Glyphs

LEMMA ShebangIsExact ==
    ASSUME ExtractShebang
    PROVE  ShebangExact'
<1>1. PICK n \in 0..MaxText : \E text \in [1..n -> {" ", "n", "a", "b"}] :
          Try("shebang", text, extract_shebang(text))
    BY DEF ExtractShebang
<1>2. PICK text \in [1..n -> {" ", "n", "a", "b"}] : Try("shebang", text, extract_shebang(text))
    BY <1>1
<1> DEFINE out == extract_shebang(text)
<1>3. text \in Seq(Glyphs)
    BY TextsAre
<1>8. Taken(text, LineOf(text), out)
    BY <1>3, ShebangTaken
<1>9. trial' = [op |-> "shebang", in |-> text, out |-> out]
    BY <1>2 DEF Try, out
<1>10. trial'.in = text /\ trial'.out = out
    BY <1>9
<1> QED BY <1>8, <1>10 DEF ShebangExact, Taken, ArgumentIs, EndOfLine, LineOf, WordAt, WordEnd, RestAt,
                          WordOf, Letters, Room

LEMMA OneCall == ExecveNext => ProgramFileExact'
<1>1. ASSUME ExtractShebang
      PROVE  trial'.op = "shebang"
    <2>1. PICK n \in 0..MaxText : \E text \in [1..n -> {" ", "n", "a", "b"}] :
              Try("shebang", text, extract_shebang(text))
        BY <1>1 DEF ExtractShebang
    <2>2. PICK text \in [1..n -> {" ", "n", "a", "b"}] : Try("shebang", text, extract_shebang(text))
        BY <2>1
    <2> QED BY <2>2 DEF Try
<1>2. ASSUME ExpandShebang
      PROVE  trial'.op = "expand"
    BY <1>2 DEF ExpandShebang, Try
<1>3. ASSUME ExtractLoadInfo
      PROVE  trial'.op = "headers"
    BY <1>3 DEF ExtractLoadInfo, Try
<1>4. ASSUME ExtractShebang
      PROVE  ProgramFileExact'
    BY <1>1, <1>4, ShebangIsExact DEF ProgramFileExact, ExpandExact, HeadersExact
<1>5. ASSUME ExpandShebang
      PROVE  ProgramFileExact'
    BY <1>2, <1>5, ExpandSays DEF ProgramFileExact, ShebangExact, HeadersExact
<1>6. ASSUME ExtractLoadInfo
      PROVE  ProgramFileExact'
    BY <1>3, <1>6, HeadersAreExact DEF ProgramFileExact, ShebangExact, ExpandExact
<1> QED BY <1>4, <1>5, <1>6 DEF ExecveNext

\* shebang.c and elf.c: the interpreter and its argument are the words of the
\* first line, a chain of scripts is followed to the program that runs, and a file
\* is loaded as its headers say.
THEOREM ProgramFileHolds == ExecveSpec => []ProgramFileExact
<1>1. TrialInit => ProgramFileExact
    BY DEF TrialInit, NoTrial, ProgramFileExact, ShebangExact, ExpandExact, HeadersExact
<1>2. ProgramFileExact /\ [ExecveNext]_trial => ProgramFileExact'
    <2>1. ASSUME ProgramFileExact, UNCHANGED trial
          PROVE  ProgramFileExact'
        <3>1. ShebangExact'
            BY <2>1 DEF ProgramFileExact, ShebangExact
        <3>2. ExpandExact'
            BY <2>1 DEF ProgramFileExact, ExpandExact
        <3>3. HeadersExact'
            BY <2>1 DEF ProgramFileExact, HeadersExact
        <3> QED BY <3>1, <3>2, <3>3 DEF ProgramFileExact
    <2> QED BY <2>1, OneCall
<1> QED
    BY <1>1, <1>2, PTL DEF ExecveSpec

=============================================================================
