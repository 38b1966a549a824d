---------------------------- MODULE PtraceProofs ----------------------------
(***************************************************************************)
(* Theorems about PtraceEmulation, for any finite set of processes, any    *)
(* family and any system calls.                                            *)
(***************************************************************************)
EXTENDS PtraceEmulation, FiniteSetTheorems, TLAPS

-----------------------------------------------------------------------------
(***************************************************************************)
(* What each handler does to a world: the lemmas below say it field by     *)
(* field, and the proofs that follow read nothing else of the handlers.    *)
(***************************************************************************)
WorldType ==
    [T : [Proc -> TraceeType], zombies : [Proc -> ZombieType], at : [Proc -> Places],
     stop : [Proc -> {"no", "event", "taken"}], void : [Proc -> BOOLEAN],
     poked : [Proc -> BOOLEAN], tracer : {"running", "crashed", "traced"}]

\* The groups of fields of a structure that change together.
SameLinks(t, u) ==
    /\ t.listed = u.listed /\ t.parent = u.parent
    /\ t.ptracer = u.ptracer /\ t.nb_ptracees = u.nb_ptracees

SameSleep(t, u) == t.running = u.running /\ t.how = u.how /\ t.wait_pid = u.wait_pid

SamePtracee(t, u) ==
    /\ t.proot = u.proot /\ t.untold = u.untold /\ t.options = u.options

\* Nothing changes of x.
Kept(v, w, x) ==
    v.T[x] = w.T[x] /\ v.at[x] = w.at[x] /\ v.stop[x] = w.stop[x] /\ v.poked[x] = w.poked[x]

\* Only p changes, and no zombie.
Only(v, w, p) ==
    /\ v \in WorldType
    /\ \A x \in Proc \ {p} : Kept(v, w, x)
    /\ v.zombies = w.zombies

LEMMA PutTracee ==
    ASSUME NEW w \in WorldType, NEW p \in Proc, NEW t \in TraceeType
    PROVE  LET v == [w EXCEPT !.T[p] = t]
           IN  /\ Only(v, w, p)
               /\ v.T[p] = t /\ v.at = w.at /\ v.stop = w.stop /\ v.poked = w.poked
               /\ v.void = w.void /\ v.tracer = w.tracer
  BY DEF WorldType, Only, Kept

\* restart_tracee
RestartEffect(v, w, p) ==
    /\ Only(v, w, p)
    /\ SameLinks(v.T[p], w.T[p]) /\ SamePtracee(v.T[p], w.T[p])
    /\ v.T[p].status = w.T[p].status /\ v.T[p].wait_pid = w.T[p].wait_pid
    /\ v.poked = w.poked
    /\ IF Restartable(w, p)
         THEN /\ ~v.T[p].how /\ v.T[p].running
              /\ v.stop[p] = "no" /\ v.tracer = w.tracer
              /\ v.at[p] = IF w.at[p] = "exit" THEN "user" ELSE w.at[p]
         ELSE /\ v.at = w.at /\ v.stop = w.stop
              /\ v.T[p].how = w.T[p].how
              /\ \/ v.T[p].running = w.T[p].running /\ v.tracer = w.tracer
                 \/ v.T[p].running /\ v.tracer = "traced"

LEMMA RestartTraceeEffect ==
    ASSUME NEW w \in WorldType, NEW p \in Proc
    PROVE  RestartEffect(RestartTracee(w, p), w, p)
<1> DEFINE o == w.T[p]
           t == [o EXCEPT !.how = FALSE, !.running = TRUE]
           u == [o EXCEPT !.running = TRUE]
<1>o. o \in TraceeType
  BY DEF WorldType
<1> HIDE DEF o
<1>t. /\ t \in TraceeType /\ SameLinks(t, o) /\ SamePtracee(t, o)
      /\ t.status = o.status /\ t.wait_pid = o.wait_pid /\ ~t.how /\ t.running
  BY <1>o DEF TraceeType, SameLinks, SamePtracee
<1>u. /\ u \in TraceeType /\ SameLinks(u, o) /\ SamePtracee(u, o)
      /\ u.status = o.status /\ u.wait_pid = o.wait_pid
      /\ u.how = o.how /\ u.running
  BY <1>o DEF TraceeType, SameLinks, SamePtracee
<1> USE DEF o
<1>1. CASE Restartable(w, p)
  <2> DEFINE r == [w EXCEPT !.T[p] = t]
  <2>1. RestartTracee(w, p) = Resumed(r, p)
    BY <1>1 DEF RestartTracee
  <2>2. Only(r, w, p) /\ r.T[p] = t /\ r.at = w.at /\ r.stop = w.stop /\ r.poked = w.poked
        /\ r.tracer = w.tracer
    BY <1>t, PutTracee
  <2> HIDE DEF r, t
  <2>3. LET v == Resumed(r, p)
        IN  /\ v \in WorldType
            /\ v.T = r.T /\ v.zombies = r.zombies /\ v.tracer = r.tracer /\ v.poked = r.poked
            /\ v.stop = [r.stop EXCEPT ![p] = "no"]
            /\ v.at = [r.at EXCEPT ![p] = IF r.at[p] = "exit" THEN "user" ELSE r.at[p]]
    BY <2>2 DEF Only, Resumed, WorldType, Places
  <2> QED
    BY <1>1, <1>t, <2>1, <2>2, <2>3 DEF RestartEffect, Only, Kept, WorldType
<1>2. CASE ~Restartable(w, p) /\ w.T[p].wait_pid = NoProc /\ ~w.T[p].how
  <2> DEFINE r == [w EXCEPT !.T[p] = u]
             v == [r EXCEPT !.tracer = "traced"]
  <2>1. RestartTracee(w, p) = v
    BY <1>2 DEF RestartTracee, WorldType
  <2> HIDE DEF u
  <2>2. Only(r, w, p) /\ r.T[p] = u /\ r.at = w.at /\ r.stop = w.stop /\ r.poked = w.poked
    BY <1>u, PutTracee
  <2> HIDE DEF r, u
  <2>3. /\ v \in WorldType /\ v.T = r.T /\ v.zombies = r.zombies /\ v.at = r.at /\ v.stop = r.stop
        /\ v.poked = r.poked /\ v.tracer = "traced"
    BY <2>2 DEF Only, WorldType
  <2> HIDE DEF v
  <2> QED
    BY <1>2, <1>u, <2>1, <2>2, <2>3 DEF RestartEffect, Only, Kept
<1>3. CASE ~Restartable(w, p) /\ ~(w.T[p].wait_pid = NoProc /\ ~w.T[p].how)
  BY <1>3 DEF RestartTracee, RestartEffect, Only, Kept, SameLinks, SamePtracee
<1> QED
  BY <1>1, <1>2, <1>3

\* The enter stage, made at once or when the event is no longer pending.
EnterEffect(v, w, p) ==
    /\ Only(v, w, p)
    /\ SameLinks(v.T[p], w.T[p]) /\ SameSleep(v.T[p], w.T[p]) /\ SamePtracee(v.T[p], w.T[p])
    /\ v.T[p].status = 1
    /\ v.at = w.at /\ v.stop = w.stop /\ v.poked = w.poked /\ v.tracer = w.tracer

LEMMA EnterStageEffect ==
    ASSUME NEW w \in WorldType, NEW p \in Proc
    PROVE  EnterEffect(EnterStage(w, p), w, p)
<1> DEFINE o == w.T[p]
           t == [o EXCEPT !.status = 1]
           k == [t EXCEPT !.waits_in = "kernel"]
           r == [t EXCEPT !.waits_in = "proot"]
           v == [w EXCEPT !.T[p] = t]
<1>o. o \in TraceeType
  BY DEF WorldType
<1> HIDE DEF o
<1>t. /\ t \in TraceeType /\ k \in TraceeType /\ r \in TraceeType
      /\ SameLinks(t, o) /\ SameSleep(t, o) /\ SamePtracee(t, o) /\ t.status = 1
      /\ SameLinks(k, o) /\ SameSleep(k, o) /\ SamePtracee(k, o) /\ k.status = 1
      /\ SameLinks(r, o) /\ SameSleep(r, o) /\ SamePtracee(r, o) /\ r.status = 1
  BY <1>o DEF TraceeType, SameLinks, SameSleep, SamePtracee
<1> USE DEF o
<1>0. [w EXCEPT !.T[p].status = 1] = v
  OBVIOUS
<1>1. EnterEffect(v, w, p) /\ v.T[p] = t
  BY ZenonT(60), <1>t, PutTracee DEF EnterEffect
<1> HIDE DEF v
<1>2. v \in WorldType
  BY <1>1 DEF EnterEffect, Only
<1>3. /\ [v EXCEPT !.T[p].waits_in = "kernel"] = [v EXCEPT !.T[p] = k]
      /\ [v EXCEPT !.T[p].waits_in = "proot", !.void[p] = TRUE]
            = [[v EXCEPT !.T[p] = r] EXCEPT !.void[p] = TRUE]
  BY <1>1, <1>2 DEF WorldType
<1> HIDE DEF t, k, r
<1>k. EnterEffect([v EXCEPT !.T[p] = k], w, p)
  BY <1>1, <1>2, <1>t, PutTracee DEF EnterEffect, Only, Kept
<1>r. EnterEffect([v EXCEPT !.T[p] = r], w, p)
  BY <1>1, <1>2, <1>t, PutTracee DEF EnterEffect, Only, Kept
<1>v. ASSUME NEW u, EnterEffect(u, w, p)
      PROVE  EnterEffect([u EXCEPT !.void[p] = TRUE], w, p)
  BY <1>v DEF EnterEffect, Only, Kept, WorldType
<1>4. EnterEffect(WaitEnter(v, p, call[p].pid), w, p)
  BY <1>3, <1>k, <1>r, <1>v DEF WaitEnter
<1>5. EnterEffect([v EXCEPT !.void[p] = TRUE], w, p)
  BY <1>1, <1>v
<1> QED
  BY <1>0, <1>1, <1>4, <1>5 DEF EnterStage

\* The event kept pending, handled by a request of the ptracer or its death.
PendingEffect(v, w, q) ==
    /\ Only(v, w, q)
    /\ SameLinks(v.T[q], w.T[q])
    /\ v.T[q].how /\ v.T[q].running = w.T[q].running /\ v.T[q].wait_pid = w.T[q].wait_pid
    /\ ~v.T[q].proot /\ v.T[q].untold = w.T[q].untold /\ v.T[q].options = w.T[q].options
    /\ v.T[q].status = IF w.at[q] \in {"enter", "exit"} THEN 1 ELSE w.T[q].status
    /\ v.at = w.at /\ v.stop = w.stop /\ v.poked = w.poked /\ v.tracer = w.tracer

LEMMA HandlePendingEffect ==
    ASSUME NEW w \in WorldType, NEW q \in Proc
    PROVE  PendingEffect(HandlePending(w, q), w, q)
<1> DEFINE o == w.T[q]
           t == [o EXCEPT !.how = TRUE, !.proot = FALSE]
           v == [w EXCEPT !.T[q] = t]
<1>o. o \in TraceeType
  BY DEF WorldType
<1> HIDE DEF o
<1>t. /\ t \in TraceeType /\ SameLinks(t, o) /\ t.how /\ ~t.proot
      /\ t.running = o.running /\ t.wait_pid = o.wait_pid
      /\ t.untold = o.untold /\ t.options = o.options /\ t.status = o.status
  BY <1>o DEF TraceeType, SameLinks
<1> USE DEF o
<1>0. [w EXCEPT !.T[q].how = TRUE, !.T[q].proot = FALSE] = v
  OBVIOUS
<1>1. Only(v, w, q) /\ v.T[q] = t /\ v.at = w.at /\ v.stop = w.stop /\ v.poked = w.poked
      /\ v.tracer = w.tracer
  BY <1>t, PutTracee
<1> HIDE DEF v, t
<1>2. EnterEffect(EnterStage(v, q), v, q)
  BY <1>1, EnterStageEffect DEF Only
<1>3. CASE w.at[q] \in {"enter", "exit"}
  <2>1. HandlePending(w, q) = EnterStage(v, q)
    BY <1>0, <1>3 DEF HandlePending
  <2> QED
    BY ZenonT(40), <1>1, <1>2, <1>3, <1>t, <2>1
    DEF EnterEffect, PendingEffect, Only, Kept, SameLinks, SameSleep, SamePtracee
<1>4. CASE w.at[q] \notin {"enter", "exit"}
  <2>1. HandlePending(w, q) = v
    BY <1>0, <1>4 DEF HandlePending
  <2> QED
    BY <1>1, <1>4, <1>t, <2>1 DEF PendingEffect
<1> QED
  BY <1>3, <1>4

\* attach_to_ptracer and detach_from_ptracer change two structures.
SameStops(v, w) ==
    v.at = w.at /\ v.stop = w.stop /\ v.poked = w.poked /\ v.tracer = w.tracer

AttachEffect(v, w, q, p) ==
    /\ v \in WorldType /\ v.zombies = w.zombies /\ SameStops(v, w)
    /\ \A x \in Proc \ {p, q} : v.T[x] = w.T[x]
    /\ v.T[q].listed = w.T[q].listed /\ v.T[q].parent = w.T[q].parent
    /\ v.T[q].ptracer = p /\ v.T[q].nb_ptracees = w.T[q].nb_ptracees
    /\ SameSleep(v.T[q], w.T[q]) /\ v.T[q].status = w.T[q].status
    /\ ~v.T[q].proot /\ ~v.T[q].untold /\ ~v.T[q].options
    /\ v.T[p].listed = w.T[p].listed /\ v.T[p].parent = w.T[p].parent
    /\ v.T[p].ptracer = w.T[p].ptracer /\ v.T[p].nb_ptracees = w.T[p].nb_ptracees + 1
    /\ SameSleep(v.T[p], w.T[p]) /\ SamePtracee(v.T[p], w.T[p])
    /\ v.T[p].status = w.T[p].status

\* What an attachment leaves of any process.
LEMMA AttachKeeps ==
    ASSUME NEW v, NEW w, NEW q, NEW p, AttachEffect(v, w, q, p), NEW x \in Proc
    PROVE  /\ SameSleep(v.T[x], w.T[x]) /\ v.T[x].status = w.T[x].status
           /\ v.T[x].listed = w.T[x].listed /\ v.T[x].parent = w.T[x].parent
           /\ v.T[x].nb_ptracees \in {w.T[x].nb_ptracees, w.T[x].nb_ptracees + 1}
           /\ x # q => SamePtracee(v.T[x], w.T[x]) /\ v.T[x].ptracer = w.T[x].ptracer
<1>1. CASE x = q
  BY <1>1 DEF AttachEffect
<1>2. CASE x # q /\ x = p
  BY <1>2 DEF AttachEffect
<1>3. CASE x \in Proc \ {p, q}
  <2>1. v.T[x] = w.T[x]
    BY <1>3 DEF AttachEffect
  <2> QED
    BY <1>3, <2>1 DEF SameSleep, SamePtracee
<1> QED
  BY <1>1, <1>2, <1>3

LEMMA AttachEffectHolds ==
    ASSUME NEW w \in WorldType, NEW p \in Proc, NEW q \in Proc, p # q
    PROVE  AttachEffect(AttachToPtracer(w, q, p), w, q, p)
<1> DEFINE o == w.T[q]
           n == w.T[p]
           t == [o EXCEPT !.ptracer = p, !.proot = FALSE, !.untold = FALSE,
                          !.tracing_started = FALSE, !.ignore_syscalls = FALSE,
                          !.options = FALSE]
           u == [n EXCEPT !.nb_ptracees = @ + 1]
           v == [w EXCEPT !.T[q] = t]
<1>o. o \in TraceeType /\ n \in TraceeType
  BY DEF WorldType
<1> HIDE DEF o, n
<1>t. /\ t \in TraceeType
      /\ t.listed = o.listed /\ t.parent = o.parent /\ t.ptracer = p
      /\ t.nb_ptracees = o.nb_ptracees /\ SameSleep(t, o) /\ t.status = o.status
      /\ ~t.proot /\ ~t.untold /\ ~t.options
  BY ZenonT(40), <1>o DEF TraceeType, SameSleep
<1>u. /\ u \in TraceeType
      /\ u.listed = n.listed /\ u.parent = n.parent /\ u.ptracer = n.ptracer
      /\ u.nb_ptracees = n.nb_ptracees + 1 /\ SameSleep(u, n) /\ SamePtracee(u, n)
      /\ u.status = n.status
  BY <1>o DEF TraceeType, SameSleep, SamePtracee
<1> USE DEF o, n
<1>0. AttachToPtracer(w, q, p) = [v EXCEPT !.T[p] = u]
  <2> DEFINE t1 == [o EXCEPT !.ptracer = p, !.proot = FALSE, !.untold = FALSE]
             v1 == [w EXCEPT !.T[q] = t1]
             m == n.nb_ptracees + 1
  <2>1. AttachToPtracer(w, q, p)
          = [[w EXCEPT !.T[q].ptracer = p, !.T[q].proot = FALSE, !.T[q].untold = FALSE] EXCEPT
               !.T[q].tracing_started = FALSE, !.T[q].ignore_syscalls = FALSE,
               !.T[q].options = FALSE, !.T[p].nb_ptracees = m]
    BY DEF AttachToPtracer
  <2>2. [w EXCEPT !.T[q].ptracer = p, !.T[q].proot = FALSE, !.T[q].untold = FALSE] = v1
    OBVIOUS
  <2>3. w.T \in [Proc -> TraceeType] /\ v1.T = [w.T EXCEPT ![q] = t1]
        /\ v1.T[q] = t1 /\ v1.T[p] = n
        /\ [v1 EXCEPT !.T[q] = t] = v
    BY w \in WorldType DEF WorldType
  <2>4. t = [t1 EXCEPT !.tracing_started = FALSE, !.ignore_syscalls = FALSE, !.options = FALSE]
    BY <1>o DEF TraceeType
  <2> HIDE DEF t, t1, m, v, v1
  <2>5. [v1 EXCEPT !.T[q].tracing_started = FALSE, !.T[q].ignore_syscalls = FALSE,
                   !.T[q].options = FALSE, !.T[p].nb_ptracees = m]
          = [[v1 EXCEPT !.T[q].tracing_started = FALSE, !.T[q].ignore_syscalls = FALSE,
                        !.T[q].options = FALSE] EXCEPT !.T[p].nb_ptracees = m]
    OBVIOUS
  <2>6. [v1 EXCEPT !.T[q].tracing_started = FALSE, !.T[q].ignore_syscalls = FALSE,
                   !.T[q].options = FALSE] = [v1 EXCEPT !.T[q] = t]
    BY <2>3, <2>4
  <2>7. AttachToPtracer(w, q, p) = [v EXCEPT !.T[p].nb_ptracees = m]
    BY <2>1, <2>2, <2>3, <2>5, <2>6
  <2>8. v.T[p] = n
    BY <2>3, w \in WorldType DEF v, WorldType
  <2> QED
    BY <2>7, <2>8 DEF m
<1>1. Only(v, w, q) /\ v.T[q] = t /\ SameStops(v, w)
  BY <1>t, PutTracee DEF SameStops
<1> HIDE DEF v, t, u
<1>2. LET r == [v EXCEPT !.T[p] = u] IN Only(r, v, p) /\ r.T[p] = u /\ SameStops(r, v)
  BY <1>1, <1>u, PutTracee DEF SameStops, Only
<1> QED
  BY <1>0, <1>1, <1>2, <1>t, <1>u DEF AttachEffect, Only, Kept, SameStops

DetachEffect(v, w, q, p) ==
    /\ v \in WorldType /\ v.zombies = w.zombies /\ SameStops(v, w)
    /\ \A x \in Proc \ {p, q} : v.T[x] = w.T[x]
    /\ v.T[q].listed = w.T[q].listed /\ v.T[q].parent = w.T[q].parent
    /\ v.T[q].ptracer = NoProc /\ v.T[q].nb_ptracees = w.T[q].nb_ptracees
    /\ SameSleep(v.T[q], w.T[q]) /\ SamePtracee(v.T[q], w.T[q])
    /\ v.T[q].status = w.T[q].status
    /\ v.T[p].listed = w.T[p].listed /\ v.T[p].parent = w.T[p].parent
    /\ v.T[p].ptracer = w.T[p].ptracer /\ v.T[p].nb_ptracees = w.T[p].nb_ptracees - 1
    /\ SameSleep(v.T[p], w.T[p]) /\ SamePtracee(v.T[p], w.T[p])
    /\ v.T[p].status = w.T[p].status

LEMMA DetachEffectHolds ==
    ASSUME NEW w \in WorldType, NEW p \in Proc, NEW q \in Proc, p # q,
           w.T[q].ptracer = p, w.T[p].nb_ptracees > 0
    PROVE  DetachEffect(DetachFromPtracer(w, q), w, q, p)
<1> DEFINE o == w.T[q]
           n == w.T[p]
           t == [o EXCEPT !.ptracer = NoProc]
           u == [n EXCEPT !.nb_ptracees = @ - 1]
           v == [w EXCEPT !.T[p] = u]
<1>o. o \in TraceeType /\ n \in TraceeType /\ n.nb_ptracees > 0
  BY DEF WorldType
<1> HIDE DEF o, n
<1>t. /\ t \in TraceeType
      /\ t.listed = o.listed /\ t.parent = o.parent /\ t.ptracer = NoProc
      /\ t.nb_ptracees = o.nb_ptracees /\ SameSleep(t, o) /\ SamePtracee(t, o)
      /\ t.status = o.status
  BY <1>o DEF TraceeType, SameSleep, SamePtracee
<1>u. /\ u \in TraceeType
      /\ u.listed = n.listed /\ u.parent = n.parent /\ u.ptracer = n.ptracer
      /\ u.nb_ptracees = n.nb_ptracees - 1 /\ SameSleep(u, n) /\ SamePtracee(u, n)
      /\ u.status = n.status
  BY <1>o DEF TraceeType, SameSleep, SamePtracee
<1> USE DEF o, n
<1>0. DetachFromPtracer(w, q) = [v EXCEPT !.T[q] = t]
  BY DEF DetachFromPtracer, WorldType
<1>1. Only(v, w, p) /\ v.T[p] = u /\ SameStops(v, w)
  BY <1>u, PutTracee DEF SameStops
<1> HIDE DEF v, t, u
<1>2. LET r == [v EXCEPT !.T[q] = t] IN Only(r, v, q) /\ r.T[q] = t /\ SameStops(r, v)
  BY <1>1, <1>t, PutTracee DEF SameStops, Only
<1> QED
  BY <1>0, <1>1, <1>2, <1>t, <1>u DEF DetachEffect, Only, Kept, SameStops

\* The other parts of update_wait_status.
LEMMA RestartOriginalEffect ==
    ASSUME NEW w \in WorldType, NEW p \in Proc
    PROVE  LET v == RestartOriginal(w, p)
           IN  /\ v \in WorldType
               /\ v.T = w.T /\ v.zombies = w.zombies /\ v.stop = w.stop /\ v.poked = w.poked
               /\ v.tracer = w.tracer
               /\ \A x \in Proc \ {p} : v.at[x] = w.at[x]
               /\ v.at[p] = IF w.at[p] = "dead" THEN "dead" ELSE "again"
  BY DEF RestartOriginal, WorldType, Places

BuryEffect(v, w, p, q) ==
    /\ v \in WorldType /\ SameStops(v, w)
    /\ v.zombies = [w.zombies EXCEPT ![q] = NoZombie]
    /\ \A x \in Proc \ {p} : v.T[x] = w.T[x]
    /\ v.T[p].listed = w.T[p].listed /\ v.T[p].parent = w.T[p].parent
    /\ v.T[p].ptracer = w.T[p].ptracer /\ v.T[p].nb_ptracees = w.T[p].nb_ptracees - 1
    /\ SameSleep(v.T[p], w.T[p]) /\ SamePtracee(v.T[p], w.T[p])
    /\ v.T[p].status = w.T[p].status

LEMMA BuryZombieEffect ==
    ASSUME NEW w \in WorldType, NEW p \in Proc, NEW q \in Proc, w.T[p].nb_ptracees > 0
    PROVE  BuryEffect(BuryZombie(w, p, q), w, p, q)
<1> DEFINE n == w.T[p]
           u == [n EXCEPT !.nb_ptracees = @ - 1]
           v == [w EXCEPT !.T[p] = u]
<1>o. n \in TraceeType /\ n.nb_ptracees > 0
  BY DEF WorldType
<1> HIDE DEF n
<1>u. /\ u \in TraceeType
      /\ u.listed = n.listed /\ u.parent = n.parent /\ u.ptracer = n.ptracer
      /\ u.nb_ptracees = n.nb_ptracees - 1 /\ SameSleep(u, n) /\ SamePtracee(u, n)
      /\ u.status = n.status
  BY <1>o DEF TraceeType, SameSleep, SamePtracee
<1> USE DEF n
<1>0. BuryZombie(w, p, q) = [v EXCEPT !.zombies[q] = NoZombie]
  BY DEF BuryZombie, WorldType
<1>1. Only(v, w, p) /\ v.T[p] = u /\ SameStops(v, w)
  BY <1>u, PutTracee DEF SameStops
<1> HIDE DEF v, u
<1>2. NoZombie \in ZombieType
  BY DEF NoZombie, ZombieType
<1> HIDE DEF NoZombie
<1>3. LET r == [v EXCEPT !.zombies[q] = NoZombie]
      IN  /\ r \in WorldType /\ r.T = v.T /\ SameStops(r, v)
          /\ r.zombies = [v.zombies EXCEPT ![q] = NoZombie]
  BY <1>1, <1>2 DEF WorldType, SameStops, Only
<1> QED
  BY <1>0, <1>1, <1>3, <1>u DEF BuryEffect, Only, Kept, SameStops

-----------------------------------------------------------------------------
(***************************************************************************)
(* The inductive invariant of the structures.  The pointers of a Tracee    *)
(* lead to processes the tracer still has, nb_ptracees counts what points  *)
(* back, and a structure says "running" whenever its process is.           *)
(***************************************************************************)
Live == {"user", "enter", "note", "exit", "again"}
Gone == {"zombie", "gone"}

\* The tracer has a structure for p, and p is not dead for it.
Able(w, p) == w.T[p].listed /\ w.at[p] \notin Gone

Linked(w, x) ==
    /\ ~w.T[x].listed => w.T[x] = NoTracee
    /\ w.T[x].ptracer # NoProc => Able(w, w.T[x].ptracer) /\ w.T[x].ptracer # x
    /\ w.T[x].parent # NoProc => Able(w, w.T[x].parent) /\ w.T[x].parent # x
    /\ w.zombies[x].ptracer # NoProc => Able(w, w.zombies[x].ptracer) /\ w.at[x] \in Gone

Steady(w, x) ==
    /\ w.at[x] \in Gone \cup {"absent"} => w.stop[x] = "no"
    /\ w.at[x] \in Live /\ w.stop[x] = "no" => w.T[x].running
    /\ w.at[x] \in {"enter", "note", "exit"} /\ w.stop[x] = "event" => w.T[x].running
    /\ w.at[x] = "absent" => ~w.T[x].listed

PtraceesIn(w, p) == {q \in Proc : w.T[q].ptracer = p}
ZombiesIn(w, p) == {q \in Proc : w.zombies[q].ptracer = p}

Counted(w, p) ==
    w.T[p].nb_ptracees = Cardinality(PtraceesIn(w, p)) + Cardinality(ZombiesIn(w, p))

\* r is not c and does not descend from it: there is a set of processes with c
\* in it, and all the children of its own, and r is not there.
Elder(r, c) ==
    \E D \in SUBSET Proc : /\ c \in D /\ r \notin D
                           /\ \A y \in Proc : father[y] \in D => y \in D

\* The ptracer that would get the child of a fork was there before the child.
Inherits(w, x) ==
    /\ w.at[x] = "note" /\ call[x].op = "fork" /\ w.T[x].options
    /\ w.T[x].ptracer # NoProc

Ordered(w, x) ==
    w.stop[x] = "event" /\ Inherits(w, x) => Elder(w.T[x].ptracer, call[x].pid)

Good(w) ==
    /\ w \in WorldType
    /\ \A x \in Proc : Linked(w, x) /\ Steady(w, x) /\ Counted(w, x) /\ Ordered(w, x)

\* A step that changes no pointer and no count.
Mild(v, w) ==
    /\ v \in WorldType
    /\ v.zombies = w.zombies
    /\ \A x \in Proc :
         /\ SameLinks(v.T[x], w.T[x])
         /\ w.T[x].listed \/ v.T[x] = w.T[x]
         /\ v.at[x] \in Gone <=> w.at[x] \in Gone
         /\ Steady(v, x) /\ Ordered(v, x)

LEMMA MildIsGood ==
    ASSUME NEW v, NEW w, Good(w), Mild(v, w)
    PROVE  Good(v)
<1>1. \A p \in Proc : PtraceesIn(v, p) = PtraceesIn(w, p) /\ ZombiesIn(v, p) = ZombiesIn(w, p)
  BY DEF Mild, SameLinks, PtraceesIn, ZombiesIn
<1>2. \A p \in Proc : Able(v, p) <=> Able(w, p)
  BY DEF Mild, SameLinks, Able
<1>3. ASSUME NEW x \in Proc
      PROVE  /\ v.T[x].ptracer \in Proc \cup {NoProc} /\ v.T[x].parent \in Proc \cup {NoProc}
             /\ v.zombies[x].ptracer \in Proc \cup {NoProc}
  BY DEF Mild, WorldType, TraceeType, ZombieType
<1>4. ASSUME NEW x \in Proc
      PROVE  Linked(v, x)
  BY <1>2, <1>3 DEF Good, Mild, SameLinks, Linked
<1>5. ASSUME NEW x \in Proc
      PROVE  Counted(v, x)
  BY <1>1 DEF Good, Mild, SameLinks, Counted
<1> QED
  BY <1>4, <1>5 DEF Good, Mild

\* One more or one less in a set that is counted.
LEMMA CountMore ==
    ASSUME NEW S \in SUBSET Proc, NEW q \in Proc
    PROVE  /\ Cardinality(S) \in Nat
           /\ q \notin S => Cardinality(S \cup {q}) = Cardinality(S) + 1
           /\ q \in S => Cardinality(S) > 0 /\ Cardinality(S \ {q}) = Cardinality(S) - 1
<1>1. IsFiniteSet(S)
  BY PtraceAssumption, FS_Subset
<1>2. IsFiniteSet(S \ {q})
  BY <1>1, FS_Subset
<1> QED
  BY <1>1, <1>2, FS_CardinalityType, FS_AddElement, FS_RemoveElement

\* Who has a ptracee, or a zombie, has counted it.
LEMMA CountedOnes ==
    ASSUME NEW w, Good(w), NEW p \in Proc, NEW q \in Proc,
           w.T[q].ptracer = p \/ w.zombies[q].ptracer = p
    PROVE  w.T[p].nb_ptracees > 0
<1>1. q \in PtraceesIn(w, p) \/ q \in ZombiesIn(w, p)
  BY DEF PtraceesIn, ZombiesIn
<1>2. PtraceesIn(w, p) \in SUBSET Proc /\ ZombiesIn(w, p) \in SUBSET Proc
  BY DEF PtraceesIn, ZombiesIn
<1>3. /\ Cardinality(PtraceesIn(w, p)) \in Nat /\ Cardinality(ZombiesIn(w, p)) \in Nat
      /\ Cardinality(PtraceesIn(w, p)) > 0 \/ Cardinality(ZombiesIn(w, p)) > 0
  BY <1>1, <1>2, CountMore
<1> QED
  BY <1>3 DEF Good, Counted

LEMMA AttachIsGood ==
    ASSUME NEW v, NEW w, NEW p \in Proc, NEW q \in Proc, p # q,
           Good(w), AttachEffect(v, w, q, p),
           Able(w, p), w.T[q].listed, w.T[q].ptracer = NoProc
    PROVE  Good(v)
<1>1. \A x \in Proc : Able(v, x) <=> Able(w, x)
  BY DEF AttachEffect, SameStops, Able
<1>2. ASSUME NEW x \in Proc
      PROVE  /\ w.T[x].ptracer \in Proc \cup {NoProc} /\ w.T[x].parent \in Proc \cup {NoProc}
             /\ w.zombies[x].ptracer \in Proc \cup {NoProc}
  BY DEF Good, WorldType, TraceeType, ZombieType
<1>3. ASSUME NEW x \in Proc
      PROVE  Linked(v, x)
  <2>0. Linked(w, x) /\ v.zombies = w.zombies /\ v.at = w.at
    BY DEF Good, AttachEffect, SameStops
  <2>1. v.T[x].listed = w.T[x].listed /\ v.T[x].parent = w.T[x].parent
    BY DEF AttachEffect
  <2>2. ~v.T[x].listed => v.T[x] = NoTracee
    BY <2>0, <2>1 DEF AttachEffect, Linked, Able
  <2>3. v.T[x].ptracer = IF x = q THEN p ELSE w.T[x].ptracer
    BY DEF AttachEffect
  <2> QED
    BY <1>1, <1>2, <2>0, <2>1, <2>2, <2>3 DEF Linked
<1>4. ASSUME NEW x \in Proc
      PROVE  Steady(v, x)
  BY DEF Good, AttachEffect, SameStops, SameSleep, Steady
<1>5. \A x \in Proc : ZombiesIn(v, x) = ZombiesIn(w, x)
  BY DEF AttachEffect, ZombiesIn
<1>6. \A x \in Proc \ {p} : PtraceesIn(v, x) = PtraceesIn(w, x)
  BY PtraceAssumption DEF AttachEffect, PtraceesIn
<1>7. PtraceesIn(v, p) = PtraceesIn(w, p) \cup {q} /\ q \notin PtraceesIn(w, p)
  BY PtraceAssumption DEF AttachEffect, PtraceesIn
<1>8. PtraceesIn(w, p) \in SUBSET Proc /\ ZombiesIn(w, p) \in SUBSET Proc
  BY DEF PtraceesIn, ZombiesIn
<1>9. ASSUME NEW x \in Proc
      PROVE  Counted(v, x)
  <2>1. CASE x = p
    <3>1. Cardinality(PtraceesIn(v, p)) = Cardinality(PtraceesIn(w, p)) + 1
      BY <1>7, <1>8, CountMore
    <3>2. Cardinality(PtraceesIn(w, p)) \in Nat /\ Cardinality(ZombiesIn(w, p)) \in Nat
      BY <1>8, CountMore
    <3> QED
      BY <1>5, <2>1, <3>1, <3>2 DEF Good, AttachEffect, Counted
  <2>2. CASE x # p
    BY <1>5, <1>6, <2>2 DEF Good, AttachEffect, Counted
  <2> QED
    BY <2>1, <2>2
<1>10. ASSUME NEW x \in Proc
       PROVE  Ordered(v, x)
  <2>1. v.at[x] = w.at[x] /\ v.stop[x] = w.stop[x] /\ Ordered(w, x)
    BY DEF Good, AttachEffect, SameStops
  <2>2. v.T[x].options /\ v.T[x].ptracer # NoProc =>
          w.T[x].options /\ v.T[x].ptracer = w.T[x].ptracer
    BY DEF AttachEffect, SamePtracee
  <2> QED
    BY <2>1, <2>2 DEF Ordered, Inherits
<1> QED
  BY <1>3, <1>4, <1>9, <1>10 DEF Good, AttachEffect

LEMMA DetachIsGood ==
    ASSUME NEW v, NEW w, NEW p \in Proc, NEW q \in Proc, p # q,
           Good(w), DetachEffect(v, w, q, p), w.T[q].ptracer = p
    PROVE  Good(v)
<1>1. \A x \in Proc : Able(v, x) <=> Able(w, x)
  BY DEF DetachEffect, SameStops, Able
<1>2. ASSUME NEW x \in Proc
      PROVE  /\ w.T[x].ptracer \in Proc \cup {NoProc} /\ w.T[x].parent \in Proc \cup {NoProc}
             /\ w.zombies[x].ptracer \in Proc \cup {NoProc}
  BY DEF Good, WorldType, TraceeType, ZombieType
<1>0. w.T[p].listed /\ w.T[q].listed
  BY PtraceAssumption DEF Good, Linked, Able, NoTracee
<1>3. ASSUME NEW x \in Proc
      PROVE  Linked(v, x)
  <2>0. Linked(w, x) /\ v.zombies = w.zombies /\ v.at = w.at
    BY DEF Good, DetachEffect, SameStops
  <2>1. v.T[x].listed = w.T[x].listed /\ v.T[x].parent = w.T[x].parent
    BY DEF DetachEffect
  <2>2. ~v.T[x].listed => v.T[x] = NoTracee
    BY <1>0, <2>0, <2>1 DEF DetachEffect, Linked
  <2>3. v.T[x].ptracer = IF x = q THEN NoProc ELSE w.T[x].ptracer
    BY DEF DetachEffect
  <2> QED
    BY <1>0, <1>1, <1>2, <2>0, <2>1, <2>2, <2>3 DEF Linked
<1>4. ASSUME NEW x \in Proc
      PROVE  Steady(v, x)
  BY DEF Good, DetachEffect, SameStops, SameSleep, Steady
<1>5. \A x \in Proc : ZombiesIn(v, x) = ZombiesIn(w, x)
  BY DEF DetachEffect, ZombiesIn
<1>6. \A x \in Proc \ {p} : PtraceesIn(v, x) = PtraceesIn(w, x)
  BY PtraceAssumption DEF DetachEffect, PtraceesIn
<1>7. PtraceesIn(v, p) = PtraceesIn(w, p) \ {q} /\ q \in PtraceesIn(w, p)
  BY PtraceAssumption DEF DetachEffect, PtraceesIn
<1>8. PtraceesIn(w, p) \in SUBSET Proc /\ ZombiesIn(w, p) \in SUBSET Proc
  BY DEF PtraceesIn, ZombiesIn
<1>9. ASSUME NEW x \in Proc
      PROVE  Counted(v, x)
  <2>1. CASE x = p
    <3>1. Cardinality(PtraceesIn(v, p)) = Cardinality(PtraceesIn(w, p)) - 1
      BY <1>7, <1>8, CountMore
    <3>2. Cardinality(PtraceesIn(w, p)) \in Nat /\ Cardinality(ZombiesIn(w, p)) \in Nat
      BY <1>8, CountMore
    <3> QED
      BY <1>5, <2>1, <3>1, <3>2 DEF Good, DetachEffect, Counted
  <2>2. CASE x # p
    BY <1>5, <1>6, <2>2 DEF Good, DetachEffect, Counted
  <2> QED
    BY <2>1, <2>2
<1>10. ASSUME NEW x \in Proc
       PROVE  Ordered(v, x)
  <2>1. v.at[x] = w.at[x] /\ v.stop[x] = w.stop[x] /\ Ordered(w, x)
    BY DEF Good, DetachEffect, SameStops
  <2>2. v.T[x].options /\ v.T[x].ptracer # NoProc =>
          w.T[x].options /\ v.T[x].ptracer = w.T[x].ptracer
    BY DEF DetachEffect, SamePtracee
  <2> QED
    BY <2>1, <2>2 DEF Ordered, Inherits
<1> QED
  BY <1>3, <1>4, <1>9, <1>10 DEF Good, DetachEffect

LEMMA BuryIsGood ==
    ASSUME NEW v, NEW w, NEW p \in Proc, NEW q \in Proc,
           Good(w), BuryEffect(v, w, p, q), w.zombies[q].ptracer = p
    PROVE  Good(v)
<1>1. \A x \in Proc : Able(v, x) <=> Able(w, x)
  BY DEF BuryEffect, SameStops, Able
<1>2. ASSUME NEW x \in Proc
      PROVE  /\ w.T[x].ptracer \in Proc \cup {NoProc} /\ w.T[x].parent \in Proc \cup {NoProc}
             /\ w.zombies[x].ptracer \in Proc \cup {NoProc}
  BY DEF Good, WorldType, TraceeType, ZombieType
<1>0. w.T[p].listed
  BY PtraceAssumption DEF Good, Linked, Able
<1>z. \A x \in Proc : v.zombies[x] = IF x = q THEN NoZombie ELSE w.zombies[x]
  BY DEF Good, WorldType, BuryEffect
<1>3. ASSUME NEW x \in Proc
      PROVE  Linked(v, x)
  <2>0. Linked(w, x) /\ v.at = w.at
    BY DEF Good, BuryEffect, SameStops
  <2>1. v.T[x].listed = w.T[x].listed /\ v.T[x].parent = w.T[x].parent
    BY DEF BuryEffect
  <2>2. ~v.T[x].listed => v.T[x] = NoTracee
    BY <1>0, <2>0, <2>1 DEF BuryEffect, Linked
  <2>3. v.T[x].ptracer = w.T[x].ptracer
    BY DEF BuryEffect
  <2> QED
    BY <1>0, <1>1, <1>2, <1>z, <2>0, <2>1, <2>2, <2>3 DEF Linked, NoZombie
<1>4. ASSUME NEW x \in Proc
      PROVE  Steady(v, x)
  BY DEF Good, BuryEffect, SameStops, SameSleep, Steady
<1>5. \A x \in Proc : PtraceesIn(v, x) = PtraceesIn(w, x)
  BY DEF BuryEffect, PtraceesIn
<1>6. \A x \in Proc \ {p} : ZombiesIn(v, x) = ZombiesIn(w, x)
  BY <1>z, PtraceAssumption DEF ZombiesIn, NoZombie
<1>7. ZombiesIn(v, p) = ZombiesIn(w, p) \ {q} /\ q \in ZombiesIn(w, p)
  BY <1>z, PtraceAssumption DEF ZombiesIn, NoZombie
<1>8. PtraceesIn(w, p) \in SUBSET Proc /\ ZombiesIn(w, p) \in SUBSET Proc
  BY DEF PtraceesIn, ZombiesIn
<1>9. ASSUME NEW x \in Proc
      PROVE  Counted(v, x)
  <2>1. CASE x = p
    <3>1. Cardinality(ZombiesIn(v, p)) = Cardinality(ZombiesIn(w, p)) - 1
      BY <1>7, <1>8, CountMore
    <3>2. Cardinality(PtraceesIn(w, p)) \in Nat /\ Cardinality(ZombiesIn(w, p)) \in Nat
      BY <1>8, CountMore
    <3> QED
      BY <1>5, <2>1, <3>1, <3>2 DEF Good, BuryEffect, Counted
  <2>2. CASE x # p
    BY <1>5, <1>6, <2>2 DEF Good, BuryEffect, Counted
  <2> QED
    BY <2>1, <2>2
<1>10. ASSUME NEW x \in Proc
       PROVE  Ordered(v, x)
  <2>1. v.at[x] = w.at[x] /\ v.stop[x] = w.stop[x] /\ Ordered(w, x)
    BY DEF Good, BuryEffect, SameStops
  <2>2. v.T[x].options /\ v.T[x].ptracer # NoProc =>
          w.T[x].options /\ v.T[x].ptracer = w.T[x].ptracer
    BY DEF BuryEffect, SamePtracee
  <2> QED
    BY <2>1, <2>2 DEF Ordered, Inherits
<1> QED
  BY <1>3, <1>4, <1>9, <1>10 DEF Good, BuryEffect

-----------------------------------------------------------------------------
(***************************************************************************)
(* Every handler keeps the invariant, and leaves in its place the tracee   *)
(* whose event it handles.                                                 *)
(***************************************************************************)
SamePlaces(v, w) ==
    \A x \in Proc : /\ v.at[x] \in Gone <=> w.at[x] \in Gone
                    /\ v.at[x] = "absent" <=> w.at[x] = "absent"
                    /\ v.at[x] = "note" => w.at[x] = "note"

Frame(v, w, q) ==
    /\ Good(v)
    /\ v.T[q].listed = w.T[q].listed
    /\ w.T[q].ptracer # NoProc => v.T[q].ptracer = w.T[q].ptracer
    /\ v.T[q].options => w.T[q].options
    /\ SamePlaces(v, w)

LEMMA FrameTrans ==
    ASSUME NEW u, NEW v, NEW w, NEW q, Frame(u, v, q), Frame(v, w, q)
    PROVE  Frame(u, w, q)
  BY DEF Frame, SamePlaces

\* A structure written without touching its links.
LEMMA PutIsGood ==
    ASSUME NEW w, NEW p \in Proc, NEW t \in TraceeType, Good(w), w.T[p].listed,
           SameLinks(t, w.T[p]), w.T[p].running => t.running,
           t.options /\ w.T[p].running => w.T[p].options
    PROVE  /\ Good([w EXCEPT !.T[p] = t]) /\ SamePlaces([w EXCEPT !.T[p] = t], w)
           /\ t.options = w.T[p].options => \A q \in Proc : Frame([w EXCEPT !.T[p] = t], w, q)
<1> DEFINE v == [w EXCEPT !.T[p] = t]
<1>1. Only(v, w, p) /\ v.T[p] = t /\ v.at = w.at /\ v.stop = w.stop
  BY PutTracee DEF Good
<1> HIDE DEF v
<1>2. ASSUME NEW x \in Proc
      PROVE  SameLinks(v.T[x], w.T[x]) /\ Steady(v, x)
  <2>1. Steady(w, x)
    BY DEF Good
  <2>2. CASE x = p
    BY <1>1, <2>1, <2>2 DEF SameLinks, Steady
  <2>3. CASE x # p
    BY <1>1, <2>1, <2>3 DEF Only, Kept, SameLinks, Steady
  <2> QED
    BY <2>2, <2>3
<1>o. ASSUME NEW x \in Proc
      PROVE  Ordered(v, x)
  <2>1. Ordered(w, x) /\ Steady(w, x)
    BY DEF Good
  <2>2. CASE x = p
    BY <1>1, <2>1, <2>2 DEF SameLinks, Steady, Ordered, Inherits
  <2>3. CASE x # p
    BY <1>1, <2>1, <2>3 DEF Only, Kept, Ordered, Inherits
  <2> QED
    BY <2>2, <2>3
<1>3. Mild(v, w)
  BY <1>1, <1>2, <1>o DEF Only, Kept, Mild
<1>4. Good(v)
  BY <1>3, MildIsGood
<1> QED
  BY <1>1, <1>2, <1>4 DEF v, Frame, SamePlaces, SameLinks, Only, Kept

LEMMA EnterIsGood ==
    ASSUME NEW w, NEW p \in Proc, NEW q \in Proc, Good(w), w.T[p].listed
    PROVE  Frame(EnterStage(w, p), w, q)
<1> DEFINE v == EnterStage(w, p)
<1>1. EnterEffect(v, w, p)
  BY EnterStageEffect DEF Good
<1> HIDE DEF v
<1>2. ASSUME NEW x \in Proc
      PROVE  SameLinks(v.T[x], w.T[x]) /\ Steady(v, x)
  <2>1. Steady(w, x)
    BY DEF Good
  <2>2. CASE x = p
    BY <1>1, <2>1, <2>2 DEF EnterEffect, SameLinks, SameSleep, Steady
  <2>3. CASE x # p
    BY <1>1, <2>1, <2>3 DEF EnterEffect, Only, Kept, SameLinks, Steady
  <2> QED
    BY <2>2, <2>3
<1>o. ASSUME NEW x \in Proc
      PROVE  Ordered(v, x)
  <2>1. Ordered(w, x)
    BY DEF Good
  <2>2. CASE x = p
    BY <1>1, <2>1, <2>2 DEF EnterEffect, SameLinks, SamePtracee, Ordered, Inherits
  <2>3. CASE x # p
    BY <1>1, <2>1, <2>3 DEF EnterEffect, Only, Kept, Ordered, Inherits
  <2> QED
    BY <2>2, <2>3
<1>3. Mild(v, w)
  BY <1>1, <1>2, <1>o DEF EnterEffect, Only, Kept, Mild
<1>4. Good(v)
  BY <1>3, MildIsGood
<1> QED
  BY <1>1, <1>4 DEF v, EnterEffect, Frame, SamePlaces, SameLinks, SamePtracee, Only, Kept

LEMMA PendingIsGood ==
    ASSUME NEW w, NEW p \in Proc, NEW q \in Proc, Good(w), w.T[p].listed
    PROVE  Frame(HandlePending(w, p), w, q)
<1> DEFINE v == HandlePending(w, p)
<1>1. PendingEffect(v, w, p)
  BY HandlePendingEffect DEF Good
<1> HIDE DEF v
<1>2. ASSUME NEW x \in Proc
      PROVE  SameLinks(v.T[x], w.T[x]) /\ Steady(v, x)
  <2>1. Steady(w, x)
    BY DEF Good
  <2>2. CASE x = p
    BY <1>1, <2>1, <2>2 DEF PendingEffect, SameLinks, Steady
  <2>3. CASE x # p
    BY <1>1, <2>1, <2>3 DEF PendingEffect, Only, Kept, SameLinks, Steady
  <2> QED
    BY <2>2, <2>3
<1>o. ASSUME NEW x \in Proc
      PROVE  Ordered(v, x)
  <2>1. Ordered(w, x)
    BY DEF Good
  <2>2. CASE x = p
    BY <1>1, <2>1, <2>2 DEF PendingEffect, SameLinks, Ordered, Inherits
  <2>3. CASE x # p
    BY <1>1, <2>1, <2>3 DEF PendingEffect, Only, Kept, Ordered, Inherits
  <2> QED
    BY <2>2, <2>3
<1>3. Mild(v, w)
  BY <1>1, <1>2, <1>o DEF PendingEffect, Only, Kept, Mild
<1>4. Good(v)
  BY <1>3, MildIsGood
<1> QED
  BY <1>1, <1>4 DEF v, PendingEffect, Frame, SamePlaces, SameLinks, Only, Kept

LEMMA RestartSteady ==
    ASSUME NEW v, NEW w \in WorldType, NEW p \in Proc, RestartEffect(v, w, p), Steady(w, p)
    PROVE  /\ Steady(v, p)
           /\ v.at[p] \in Gone <=> w.at[p] \in Gone
           /\ v.at[p] = "absent" <=> w.at[p] = "absent"
           /\ v.at[p] = "note" => w.at[p] = "note"
<1>1. v \in WorldType
  BY DEF RestartEffect, Only
<1>2. CASE Restartable(w, p)
  BY <1>2 DEF RestartEffect, Restartable, SameLinks, Steady, Live, Gone
<1>3. CASE ~Restartable(w, p)
  BY <1>1, <1>3 DEF RestartEffect, SameLinks, Steady, WorldType, TraceeType
<1> QED
  BY <1>2, <1>3

LEMMA RestartIsGood ==
    ASSUME NEW w, NEW p \in Proc, NEW q \in Proc, Good(w), w.T[p].listed
    PROVE  Frame(RestartTracee(w, p), w, q)
<1> DEFINE v == RestartTracee(w, p)
<1>1. RestartEffect(v, w, p)
  BY RestartTraceeEffect DEF Good
<1> HIDE DEF v
<1>0. w \in WorldType /\ v \in WorldType
  BY <1>1 DEF Good, RestartEffect, Only
<1>2. \A x \in Proc \ {p} : v.T[x] = w.T[x] /\ Steady(v, x) /\ v.at[x] = w.at[x]
  BY <1>1 DEF Good, RestartEffect, Only, Kept, Steady
<1>3. /\ SameLinks(v.T[p], w.T[p]) /\ Steady(v, p)
      /\ v.at[p] \in Gone <=> w.at[p] \in Gone
      /\ v.at[p] = "absent" <=> w.at[p] = "absent"
      /\ v.at[p] = "note" => w.at[p] = "note"
  BY <1>0, <1>1, RestartSteady DEF Good, RestartEffect
<1>o. ASSUME NEW x \in Proc
      PROVE  Ordered(v, x)
  <2>1. Ordered(w, x)
    BY DEF Good
  <2>2. CASE x = p
    BY <1>1, <2>1, <2>2 DEF RestartEffect, SameLinks, SamePtracee, Ordered, Inherits
  <2>3. CASE x # p
    BY <1>1, <2>1, <2>3 DEF RestartEffect, Only, Kept, Ordered, Inherits
  <2> QED
    BY <2>2, <2>3
<1>4. Mild(v, w)
  <2>1. v.zombies = w.zombies
    BY <1>1 DEF RestartEffect, Only
  <2> QED
    BY <1>0, <1>2, <1>3, <1>o, <2>1 DEF Mild, SameLinks
<1>5. Good(v)
  BY <1>4, MildIsGood
<1>6. SamePlaces(v, w)
  BY <1>2, <1>3 DEF SamePlaces
<1>7. v.T[p].options = w.T[p].options
  BY <1>1 DEF RestartEffect, SamePtracee
<1> QED
  BY <1>2, <1>3, <1>5, <1>6, <1>7 DEF v, Frame, SameLinks

LEMMA RestartOriginalIsGood ==
    ASSUME NEW w, NEW p \in Proc, Good(w), Able(w, p)
    PROVE  /\ Good(RestartOriginal(w, p)) /\ SamePlaces(RestartOriginal(w, p), w)
           /\ Able(RestartOriginal(w, p), p)
<1> DEFINE v == RestartOriginal(w, p)
<1>1. /\ v \in WorldType
      /\ v.T = w.T /\ v.zombies = w.zombies /\ v.stop = w.stop
      /\ \A x \in Proc \ {p} : v.at[x] = w.at[x]
      /\ v.at[p] = IF w.at[p] = "dead" THEN "dead" ELSE "again"
  BY RestartOriginalEffect DEF Good
<1> HIDE DEF v
<1>2. /\ Steady(w, p) /\ w.T[p].listed
      /\ w.at[p] \in Live \cup {"dead"} /\ w.at[p] \notin Gone /\ v.at[p] \notin Gone
  BY <1>1 DEF Good, Able, Steady, WorldType, Places, Live, Gone
<1>3. Steady(v, p)
  BY <1>1, <1>2 DEF Steady, Live, Gone
<1>4. \A x \in Proc \ {p} : Steady(v, x)
  BY <1>1 DEF Good, Steady
<1>5. w.at[p] # "absent" /\ v.at[p] # "absent"
  BY <1>1, <1>2 DEF Live
<1>o. ASSUME NEW x \in Proc
      PROVE  Ordered(v, x)
  <2>1. v.at[x] = "note" => w.at[x] = "note"
    BY <1>1
  <2> QED
    BY <1>1, <2>1 DEF Good, Ordered, Inherits
<1>6. Mild(v, w)
  BY <1>1, <1>2, <1>3, <1>4, <1>o DEF Mild, SameLinks
<1>7. Good(v)
  BY <1>6, MildIsGood
<1> QED
  BY <1>1, <1>2, <1>5, <1>7 DEF v, SamePlaces, Able

\* What the ptracer p of q is told by a wait.
UpdateEffect(v, w, p, q) ==
    /\ v.stop = w.stop /\ v.poked = w.poked /\ v.tracer = w.tracer
    /\ \A x \in Proc :
         /\ SameSleep(v.T[x], w.T[x])
         /\ v.T[x].status = w.T[x].status /\ v.T[x].proot = w.T[x].proot
         /\ v.T[x].options = w.T[x].options
         /\ v.T[x].listed = w.T[x].listed /\ v.T[x].parent = w.T[x].parent
         /\ x # p => v.at[x] = w.at[x] /\ v.T[x].nb_ptracees = w.T[x].nb_ptracees
         /\ x # q => v.T[x].ptracer = w.T[x].ptracer /\ v.T[x].untold = w.T[x].untold
         /\ v.T[x].untold => w.T[x].untold
    /\ \A x \in Proc : v.zombies[x] \in {w.zombies[x], NoZombie}
    /\ v.at[p] \in {w.at[p], "again"} /\ (w.at[p] = "dead" => v.at[p] = "dead")
    /\ v.T[q].ptracer \in {w.T[q].ptracer, NoProc}
    /\ w.at[q] # "dead" => v.T[q].ptracer = w.T[q].ptracer

LEMMA UpdateIsGood ==
    ASSUME NEW w, NEW p \in Proc, NEW q \in Proc, Good(w), Able(w, p), p # q,
           w.zombies[q].ptracer = p \/ w.T[q].ptracer = p
    PROVE  LET v == UpdateWaitStatus(w, p, q)
           IN  Good(v) /\ SamePlaces(v, w) /\ UpdateEffect(v, w, p, q)
<1> DEFINE v == UpdateWaitStatus(w, p, q)
           o == RestartOriginal(w, p)
           Goal(u) == Good(u) /\ SamePlaces(u, w) /\ UpdateEffect(u, w, p, q)
<1>w. w \in WorldType /\ w.T[p].nb_ptracees > 0
  BY CountedOnes DEF Good
<1>z. q \in ZombiesOf(w, p, q) <=> w.zombies[q].ptracer = p
  BY DEF ZombiesOf, Matches
<1>o. /\ Good(o) /\ SamePlaces(o, w) /\ o.T = w.T /\ o.zombies = w.zombies
      /\ o.stop = w.stop /\ o.poked = w.poked /\ o.tracer = w.tracer
      /\ \A x \in Proc \ {p} : o.at[x] = w.at[x]
      /\ o.at[p] = IF w.at[p] = "dead" THEN "dead" ELSE "again"
  BY <1>w, RestartOriginalEffect, RestartOriginalIsGood
<1> HIDE DEF o
<1>b. ASSUME NEW u \in {w, o}, w.zombies[q].ptracer = p
      PROVE  Goal(BuryZombie(u, p, q))
  <2> DEFINE r == BuryZombie(u, p, q)
  <2>1. /\ Good(u) /\ SamePlaces(u, w) /\ u.T = w.T /\ u.zombies = w.zombies
        /\ u.stop = w.stop /\ u.poked = w.poked /\ u.tracer = w.tracer
        /\ \A x \in Proc \ {p} : u.at[x] = w.at[x]
        /\ u.at[p] \in {w.at[p], "again"} /\ (w.at[p] = "dead" => u.at[p] = "dead")
    BY <1>b, <1>o DEF SamePlaces
  <2>2. BuryEffect(r, u, p, q)
    BY <1>w, <2>1, BuryZombieEffect DEF Good
  <2>3. Good(r)
    BY <1>b, <2>1, <2>2, BuryIsGood
  <2> HIDE DEF r
  <2>4. SamePlaces(r, w)
    BY <2>1, <2>2 DEF BuryEffect, SameStops, SamePlaces
  <2>5. UpdateEffect(r, w, p, q)
    BY <2>1, <2>2 DEF BuryEffect, SameStops, UpdateEffect, SameSleep, SamePtracee
  <2> QED
    BY <2>3, <2>4, <2>5 DEF r
<1>1. CASE w.zombies[q].ptracer = p
  <2>1. v = BuryZombie(w, p, q) \/ v = BuryZombie(o, p, q)
    BY <1>1, <1>z DEF UpdateWaitStatus, o
  <2>2. Goal(BuryZombie(w, p, q)) /\ Goal(BuryZombie(o, p, q))
    BY <1>1, <1>b
  <2> HIDE DEF v, Goal
  <2>3. Goal(v)
    BY <2>1, <2>2
  <2> QED
    BY <2>3 DEF v, Goal
<1>2. CASE w.zombies[q].ptracer # p /\ w.at[q] = "dead" /\ w.T[q].parent = p
  <2> DEFINE r == DetachFromPtracer(o, q)
  <2>1. v = r
    BY <1>2, <1>z DEF UpdateWaitStatus, o
  <2>2. DetachEffect(r, o, q, p)
    BY <1>2, <1>o, <1>w, DetachEffectHolds DEF Good
  <2> HIDE DEF r
  <2>3. Good(r)
    BY <1>2, <1>o, <2>2, DetachIsGood
  <2>4. SamePlaces(r, w)
    BY <1>o, <2>2 DEF DetachEffect, SameStops, SamePlaces
  <2>5. ASSUME NEW x \in Proc
        PROVE  /\ SameSleep(r.T[x], w.T[x]) /\ SamePtracee(r.T[x], w.T[x])
               /\ r.T[x].status = w.T[x].status
               /\ r.T[x].listed = w.T[x].listed /\ r.T[x].parent = w.T[x].parent
               /\ x # p => r.T[x].nb_ptracees = w.T[x].nb_ptracees
               /\ x # q => r.T[x].ptracer = w.T[x].ptracer
    <3>1. CASE x = p
      BY <1>o, <2>2, <3>1 DEF DetachEffect
    <3>2. CASE x = q
      BY <1>o, <2>2, <3>2 DEF DetachEffect
    <3>3. CASE x \in Proc \ {p, q}
      <4>1. r.T[x] = w.T[x]
        BY <1>o, <2>2, <3>3 DEF DetachEffect
      <4> QED
        BY <3>3, <4>1 DEF SameSleep, SamePtracee
    <3> QED
      BY <3>1, <3>2, <3>3
  <2>6. /\ r.stop = w.stop /\ r.poked = w.poked /\ r.tracer = w.tracer
        /\ r.at = o.at /\ r.zombies = w.zombies /\ r.T[q].ptracer = NoProc
    BY <1>o, <2>2 DEF DetachEffect, SameStops
  <2>7. UpdateEffect(r, w, p, q)
    BY <1>2, <1>o, <2>5, <2>6 DEF UpdateEffect, SamePtracee
  <2> QED
    BY <2>1, <2>3, <2>4, <2>7
<1>3. CASE w.zombies[q].ptracer # p /\ ~(w.at[q] = "dead" /\ w.T[q].parent = p)
  <2> DEFINE n == w.T[q]
             t == [n EXCEPT !.untold = FALSE]
             r == [w EXCEPT !.T[q] = t]
  <2>1. v = w \/ v = r
    BY <1>3, <1>z DEF UpdateWaitStatus
  <2>2. UpdateEffect(w, w, p, q) /\ SamePlaces(w, w)
    BY DEF UpdateEffect, SameSleep, SamePlaces
  <2>3. n \in TraceeType
    BY <1>w DEF WorldType
  <2>4. n.listed
    BY <1>3, PtraceAssumption DEF Good, Linked, NoTracee
  <2> HIDE DEF n
  <2>5. /\ t \in TraceeType /\ SameLinks(t, n) /\ SameSleep(t, n) /\ t.status = n.status
        /\ t.options = n.options /\ t.proot = n.proot /\ ~t.untold
    BY <2>3 DEF TraceeType, SameLinks, SameSleep
  <2> USE DEF n
  <2>6. Good(r) /\ SamePlaces(r, w)
    BY <2>4, <2>5, PutIsGood DEF SameSleep
  <2>7. Only(r, w, q) /\ r.T[q] = t /\ r.at = w.at /\ r.stop = w.stop /\ r.poked = w.poked
        /\ r.tracer = w.tracer
    BY ZenonT(60), <1>w, <2>5, PutTracee
  <2> HIDE DEF r, t
  <2>8. UpdateEffect(r, w, p, q)
    BY <2>5, <2>7 DEF Only, Kept, UpdateEffect, SameLinks, SameSleep
  <2> QED
    BY <2>1, <2>2, <2>6, <2>8
<1> QED
  BY <1>1, <1>2, <1>3

\* A wait that the tracer answers, or puts to sleep.
WaitEffect(v, w, p) ==
    /\ v.stop = w.stop /\ v.poked = w.poked /\ v.tracer = w.tracer
    /\ \A x \in Proc :
         /\ v.T[x].running = w.T[x].running /\ v.T[x].how = w.T[x].how
         /\ v.T[x].status = w.T[x].status /\ v.T[x].proot = w.T[x].proot
         /\ v.T[x].options = w.T[x].options
         /\ v.T[x].listed = w.T[x].listed /\ v.T[x].parent = w.T[x].parent
         /\ v.T[x].untold => w.T[x].untold
         /\ v.T[x].ptracer \in {w.T[x].ptracer, NoProc}
         /\ x = p \/ w.at[x] # "dead" => v.T[x].ptracer = w.T[x].ptracer
         /\ x # p => /\ v.at[x] = w.at[x] /\ v.T[x].wait_pid = w.T[x].wait_pid
                     /\ v.T[x].nb_ptracees = w.T[x].nb_ptracees
         /\ v.zombies[x] \in {w.zombies[x], NoZombie}
    /\ v.at[p] \in {w.at[p], "again"}
    /\ v.at[p] # w.at[p] => v.T[p].wait_pid = w.T[p].wait_pid
    /\ v.T[p].wait_pid # w.T[p].wait_pid =>
         /\ v.T[p].nb_ptracees # 0
         /\ \A x \in Proc : Matches(v.T[p].wait_pid, x) =>
              /\ v.zombies[x].ptracer # p
              /\ ~(v.T[x].ptracer = p /\ ~v.T[x].running /\ v.T[x].untold)

LEMMA WaitExitIsGood ==
    ASSUME NEW w, NEW p \in Proc, NEW first \in Proc, Good(w), Able(w, p),
           call \in [Proc -> CallType]
    PROVE  LET v == WaitExit(w, p, first)
           IN  Frame(v, w, p) /\ WaitEffect(v, w, p)
<1> DEFINE c == call[p]
           n == w.T[p]
           t == [n EXCEPT !.waits_in = "none"]
           s == [t EXCEPT !.wait_pid = c.pid]
           v == [w EXCEPT !.T[p] = t]
           found == IF ZombiesOf(w, p, c.pid) # {} THEN ZombiesOf(w, p, c.pid)
                    ELSE WithNews(w, p, c.pid)
           q == IF first \in found THEN first ELSE CHOOSE r \in found : TRUE
           Goal(u) == Frame(u, w, p) /\ WaitEffect(u, w, p)
<1>w. w \in WorldType /\ n \in TraceeType /\ n.listed
  BY DEF Good, Able, WorldType
<1>c. c.pid \in Proc \cup {NoProc, AnyPid}
  BY DEF CallType
<1> HIDE DEF n, c
<1>t. /\ t \in TraceeType /\ s \in TraceeType
      /\ SameLinks(t, n) /\ SameSleep(t, n) /\ SamePtracee(t, n) /\ t.status = n.status
      /\ SameLinks(s, n) /\ s.running = n.running /\ s.how = n.how
      /\ SamePtracee(s, n) /\ s.status = n.status
  BY <1>w, <1>c DEF TraceeType, SameLinks, SameSleep, SamePtracee
<1> USE DEF n
<1>v. /\ Good(v) /\ SamePlaces(v, w) /\ Frame(v, w, p)
      /\ Only(v, w, p) /\ v.T[p] = t /\ v.at = w.at /\ v.stop = w.stop /\ v.poked = w.poked
      /\ v.tracer = w.tracer
  <2>1. SameLinks(t, w.T[p]) /\ (w.T[p].running => t.running) /\ t.options = w.T[p].options
        /\ w.T[p].listed
    BY <1>w, <1>t DEF SameSleep, SamePtracee
  <2>2. Good(v) /\ SamePlaces(v, w) /\ Frame(v, w, p)
    BY <1>t, <2>1, PutIsGood
  <2> QED
    BY <1>w, <1>t, <2>2, PutTracee
<1>1. [w EXCEPT !.T[p].waits_in = "none"] = v
  OBVIOUS
<1>2. [v EXCEPT !.T[p].wait_pid = c.pid] = [v EXCEPT !.T[p] = s]
  BY <1>v
<1>f. found # {} => /\ q \in Proc /\ q # p
                    /\ w.zombies[q].ptracer = p \/ w.T[q].ptracer = p
  <2>1. ASSUME found # {}
        PROVE  q \in found
    BY <2>1
  <2>2. found \in SUBSET Proc
        /\ \A r \in found : w.zombies[r].ptracer = p \/ w.T[r].ptracer = p
    BY DEF ZombiesOf, WithNews, PtraceesOf
  <2> HIDE DEF q, found
  <2> QED
    BY <2>1, <2>2, PtraceAssumption DEF Good, Linked, Able
<1>3. WaitExit(w, p, first) =
        IF found # {} THEN UpdateWaitStatus(v, p, q)
        ELSE IF v.T[p].nb_ptracees = 0 \/ c.op = "poll" THEN v
        ELSE [v EXCEPT !.T[p] = s]
  BY <1>1, <1>2 DEF WaitExit, c
<1> HIDE DEF v, t, s, found, q
<1>4. ASSUME found # {}
      PROVE  Goal(UpdateWaitStatus(v, p, q))
  <2>1. Able(v, p) /\ (v.zombies[q].ptracer = p \/ v.T[q].ptracer = p)
    BY <1>4, <1>f, <1>v, <1>t DEF Only, Kept, Able, SameLinks
  <2> DEFINE u == UpdateWaitStatus(v, p, q)
  <2>2. Good(u) /\ SamePlaces(u, v) /\ UpdateEffect(u, v, p, q)
    BY <1>4, <1>f, <1>v, <2>1, UpdateIsGood
  <2> HIDE DEF u
  <2>3. Frame(u, w, p)
    BY <1>4, <1>f, <1>v, <2>2 DEF Frame, SamePlaces, UpdateEffect
  <2>4. \A x \in Proc :
          /\ v.T[x].running = w.T[x].running /\ v.T[x].how = w.T[x].how
          /\ v.T[x].status = w.T[x].status /\ v.T[x].proot = w.T[x].proot
          /\ v.T[x].options = w.T[x].options /\ v.T[x].untold = w.T[x].untold
          /\ v.T[x].listed = w.T[x].listed /\ v.T[x].parent = w.T[x].parent
          /\ v.T[x].ptracer = w.T[x].ptracer /\ v.T[x].wait_pid = w.T[x].wait_pid
          /\ v.T[x].nb_ptracees = w.T[x].nb_ptracees
          /\ v.at[x] = w.at[x] /\ v.zombies[x] = w.zombies[x]
    BY <1>v, <1>t DEF Only, Kept, SameLinks, SameSleep, SamePtracee
  <2>5. u.T[p].wait_pid = w.T[p].wait_pid
    BY <2>2, <2>4 DEF UpdateEffect, SameSleep
  <2>6. WaitEffect(u, w, p)
    BY <1>4, <1>f, <1>v, <2>2, <2>4, <2>5 DEF UpdateEffect, WaitEffect, SameSleep
  <2> QED
    BY <2>3, <2>6 DEF u
<1>5. Goal(v)
  BY <1>v, <1>t DEF WaitEffect, Only, Kept, SameLinks, SameSleep, SamePtracee
<1>s. s.wait_pid = c.pid
  BY <1>w, <1>c, <1>t DEF s, t, TraceeType
<1>6. ASSUME found = {}, v.T[p].nb_ptracees # 0
      PROVE  Goal([v EXCEPT !.T[p] = s])
  <2> DEFINE u == [v EXCEPT !.T[p] = s]
  <2>1. /\ SameLinks(s, v.T[p]) /\ s.running = v.T[p].running /\ s.options = v.T[p].options
        /\ v.T[p].listed
    BY <1>v, <1>t, <1>w DEF SameLinks, SameSleep, SamePtracee
  <2>2. Frame(u, v, p)
    BY <1>v, <1>t, <2>1, PutIsGood
  <2>3. Only(u, v, p) /\ u.T[p] = s /\ u.at = v.at /\ u.stop = v.stop /\ u.poked = v.poked
        /\ u.tracer = v.tracer
    BY <1>v, <1>t, PutTracee DEF Good
  <2> HIDE DEF u
  <2>4. u.T[p].nb_ptracees # 0 /\ u.T[p].wait_pid = c.pid
    BY <1>6, <1>v, <1>s, <1>t, <2>3 DEF SameLinks
  <2>5. ASSUME NEW x \in Proc, Matches(c.pid, x)
        PROVE  /\ w.zombies[x].ptracer # p
               /\ ~(w.T[x].ptracer = p /\ ~w.T[x].running /\ w.T[x].untold)
    BY <1>6, <2>5 DEF found, ZombiesOf, WithNews, PtraceesOf
  <2>6. \A x \in Proc : /\ u.T[x].ptracer = w.T[x].ptracer /\ u.T[x].running = w.T[x].running
                        /\ u.T[x].untold = w.T[x].untold /\ u.zombies[x] = w.zombies[x]
    BY <1>v, <1>t, <2>3 DEF Only, Kept, SameLinks, SamePtracee
  <2>7. ASSUME NEW x \in Proc
        PROVE  /\ u.T[x].running = w.T[x].running /\ u.T[x].how = w.T[x].how
               /\ u.T[x].status = w.T[x].status /\ u.T[x].proot = w.T[x].proot
               /\ u.T[x].options = w.T[x].options
               /\ u.T[x].listed = w.T[x].listed /\ u.T[x].parent = w.T[x].parent
               /\ x # p => /\ u.at[x] = w.at[x] /\ u.T[x].wait_pid = w.T[x].wait_pid
                           /\ u.T[x].nb_ptracees = w.T[x].nb_ptracees
    <3>1. CASE x = p
      BY <1>v, <1>t, <2>3, <3>1 DEF SameLinks, SameSleep, SamePtracee
    <3>2. CASE x # p
      BY <1>v, <2>3, <3>2 DEF Only, Kept
    <3> QED
      BY <3>1, <3>2
  <2>8. u.stop = w.stop /\ u.poked = w.poked /\ u.tracer = w.tracer /\ u.at[p] = w.at[p]
    BY <1>v, <1>t, <2>3
  <2>9. WaitEffect(u, w, p)
    BY <2>4, <2>5, <2>6, <2>7, <2>8 DEF WaitEffect
  <2> QED
    BY <1>v, <2>2, <2>9, FrameTrans DEF u
<1> QED
  BY <1>3, <1>4, <1>5, <1>6

\* TRACEME by q, or ATTACH to q: at most, q gets a ptracer.
BecomesPtracee(v, w, q) ==
    /\ v.at = w.at /\ v.stop = w.stop /\ v.tracer \in {w.tracer, "crashed"}
    /\ v.zombies = w.zombies
    /\ \A x \in Proc :
         /\ SameSleep(v.T[x], w.T[x]) /\ v.T[x].status = w.T[x].status
         /\ v.T[x].listed = w.T[x].listed /\ v.T[x].parent = w.T[x].parent
         /\ v.T[x].nb_ptracees \in {w.T[x].nb_ptracees, w.T[x].nb_ptracees + 1}
         /\ x # q => SamePtracee(v.T[x], w.T[x]) /\ v.T[x].ptracer = w.T[x].ptracer
    /\ \/ SamePtracee(v.T[q], w.T[q]) /\ v.T[q].ptracer = w.T[q].ptracer
       \/ /\ w.T[q].ptracer = NoProc
          /\ ~v.T[q].proot /\ ~v.T[q].untold /\ ~v.T[q].options

\* PTRACE_TRACEME, by q.
LEMMA TracemeIsGood ==
    ASSUME NEW w, NEW q \in Proc, Good(w), w.T[q].listed
    PROVE  Frame(Traceme(w, q), w, q) /\ BecomesPtracee(Traceme(w, q), w, q)
<1> DEFINE p == w.T[q].ptracer
           r == w.T[q].parent
           v == AttachToPtracer(w, q, r)
           Goal(u) == Frame(u, w, q) /\ BecomesPtracee(u, w, q)
<1>w. w \in WorldType /\ r \in Proc \cup {NoProc}
  BY DEF Good, WorldType, TraceeType
<1>1. Goal(w)
  BY DEF Frame, SamePlaces, BecomesPtracee, SameSleep, SamePtracee
<1>2. Goal([w EXCEPT !.tracer = "crashed"])
  <2> DEFINE u == [w EXCEPT !.tracer = "crashed"]
  <2>1. u \in WorldType /\ u.T = w.T /\ u.at = w.at /\ u.stop = w.stop /\ u.zombies = w.zombies
        /\ u.tracer = "crashed"
    BY <1>w DEF WorldType
  <2> HIDE DEF u
  <2>2. Mild(u, w)
    BY <2>1 DEF Good, Mild, SameLinks, Steady, Ordered, Inherits
  <2>3. Good(u)
    BY <2>2, MildIsGood
  <2> QED
    BY <2>1, <2>3 DEF u, Frame, SamePlaces, BecomesPtracee, SameSleep, SamePtracee
<1>3. CASE p = NoProc /\ r # NoProc
  <2>1. r \in Proc /\ r # q /\ Able(w, r)
    BY <1>3, <1>w DEF Good, Linked
  <2>2. AttachEffect(v, w, q, r)
    BY <1>w, <2>1, AttachEffectHolds
  <2>3. Good(v)
    BY <1>3, <2>1, <2>2, AttachIsGood
  <2> HIDE DEF v
  <2>4. Goal(v)
    <3>1. Frame(v, w, q)
      BY <1>3, <2>2, <2>3 DEF AttachEffect, SameStops, Frame, SamePlaces
    <3>2. \A x \in Proc :
           /\ SameSleep(v.T[x], w.T[x]) /\ v.T[x].status = w.T[x].status
           /\ v.T[x].listed = w.T[x].listed /\ v.T[x].parent = w.T[x].parent
           /\ v.T[x].nb_ptracees \in {w.T[x].nb_ptracees, w.T[x].nb_ptracees + 1}
           /\ x # q => SamePtracee(v.T[x], w.T[x]) /\ v.T[x].ptracer = w.T[x].ptracer
      BY <2>2, AttachKeeps
    <3> QED
      BY <1>3, <2>2, <3>1, <3>2 DEF AttachEffect, SameStops, BecomesPtracee
  <2>5. Goal([v EXCEPT !.poked[r] = TRUE, !.T[r].waits_in = "proot"])
    <3> DEFINE n == v.T[r]
               t == [n EXCEPT !.waits_in = "proot"]
               k == [v EXCEPT !.T[r] = t]
               u == [k EXCEPT !.poked[r] = TRUE]
    <3>1. n \in TraceeType /\ v \in WorldType /\ n.listed
      BY <2>1, <2>2 DEF AttachEffect, WorldType, Able
    <3> HIDE DEF n
    <3>2. /\ t \in TraceeType /\ SameLinks(t, n) /\ SameSleep(t, n) /\ SamePtracee(t, n)
          /\ t.status = n.status
      BY <3>1 DEF TraceeType, SameLinks, SameSleep, SamePtracee
    <3> USE DEF n
    <3>3. [v EXCEPT !.poked[r] = TRUE, !.T[r].waits_in = "proot"] = u
      OBVIOUS
    <3>4. Good(k)
      BY <2>1, <2>3, <3>1, <3>2, PutIsGood DEF SameSleep, SamePtracee
    <3> HIDE DEF t
    <3>5. Only(k, v, r) /\ k.T[r] = t /\ SameStops(k, v) /\ k.zombies = v.zombies
      <4>1. /\ Only(k, v, r) /\ k.T[r] = t /\ k.at = v.at /\ k.stop = v.stop
            /\ k.poked = v.poked /\ k.tracer = v.tracer
        BY <2>1, <3>1, <3>2, PutTracee
      <4> HIDE DEF k
      <4> QED
        BY <4>1 DEF SameStops, Only
    <3> HIDE DEF k, t
    <3>6. u \in WorldType /\ u.T = k.T /\ u.at = k.at /\ u.stop = k.stop
          /\ u.zombies = k.zombies /\ u.tracer = k.tracer
      BY <3>4 DEF Good, WorldType
    <3> HIDE DEF u
    <3>7. Mild(u, k)
      BY <3>4, <3>6 DEF Good, Mild, SameLinks, Steady, Ordered, Inherits
    <3>8. Good(u)
      BY <3>4, <3>7, MildIsGood
    <3>9. ASSUME NEW x \in Proc
          PROVE  /\ SameLinks(u.T[x], v.T[x]) /\ SameSleep(u.T[x], v.T[x])
                 /\ SamePtracee(u.T[x], v.T[x]) /\ u.T[x].status = v.T[x].status
      <4>1. CASE x = r
        BY <3>2, <3>5, <3>6, <4>1
      <4>2. CASE x # r
        BY <3>5, <3>6, <4>2 DEF Only, Kept, SameLinks, SameSleep, SamePtracee
      <4> QED
        BY <4>1, <4>2
    <3>10. u.at = v.at /\ u.stop = v.stop /\ u.tracer = v.tracer /\ u.zombies = v.zombies
      BY <3>5, <3>6 DEF SameStops
    <3> HIDE DEF n
    <3>11. Frame(u, w, q)
      BY ZenonT(60), <2>4, <3>8, <3>9, <3>10 DEF Frame, SamePlaces, SameLinks, SamePtracee
    <3>12. ASSUME NEW x \in Proc
           PROVE  /\ SameSleep(u.T[x], w.T[x]) /\ u.T[x].status = w.T[x].status
                  /\ u.T[x].listed = w.T[x].listed /\ u.T[x].parent = w.T[x].parent
                  /\ u.T[x].nb_ptracees \in {w.T[x].nb_ptracees, w.T[x].nb_ptracees + 1}
                  /\ x # q => SamePtracee(u.T[x], w.T[x]) /\ u.T[x].ptracer = w.T[x].ptracer
      <4>1. /\ SameLinks(u.T[x], v.T[x]) /\ SameSleep(u.T[x], v.T[x])
            /\ SamePtracee(u.T[x], v.T[x]) /\ u.T[x].status = v.T[x].status
        BY <3>9
      <4>2. /\ SameSleep(v.T[x], w.T[x]) /\ v.T[x].status = w.T[x].status
            /\ v.T[x].listed = w.T[x].listed /\ v.T[x].parent = w.T[x].parent
            /\ v.T[x].nb_ptracees \in {w.T[x].nb_ptracees, w.T[x].nb_ptracees + 1}
            /\ x # q => SamePtracee(v.T[x], w.T[x]) /\ v.T[x].ptracer = w.T[x].ptracer
        BY <2>4 DEF BecomesPtracee
      <4> QED
        BY <4>1, <4>2 DEF SameLinks, SameSleep, SamePtracee
    <3>13. \/ SamePtracee(u.T[q], w.T[q]) /\ u.T[q].ptracer = w.T[q].ptracer
           \/ /\ w.T[q].ptracer = NoProc
              /\ ~u.T[q].proot /\ ~u.T[q].untold /\ ~u.T[q].options
      <4>1. u.T[q].ptracer = v.T[q].ptracer /\ SamePtracee(u.T[q], v.T[q])
        BY <3>9 DEF SameLinks
      <4> QED
        BY <2>4, <4>1 DEF BecomesPtracee, SamePtracee
    <3>14. BecomesPtracee(u, w, q)
      <4>1. v.at = w.at /\ v.stop = w.stop /\ v.tracer \in {w.tracer, "crashed"} /\ v.zombies = w.zombies
        BY <2>4 DEF BecomesPtracee
      <4> QED
        BY <3>10, <3>12, <3>13, <4>1 DEF BecomesPtracee
    <3> QED
      BY <3>3, <3>11, <3>14
  <2> QED
    BY <1>3, <2>4, <2>5 DEF Traceme, v
<1>4. CASE ~(p = NoProc /\ r # NoProc)
  BY <1>1, <1>2, <1>4 DEF Traceme
<1> QED
  BY <1>3, <1>4

\* PTRACE_ATTACH, by p to q.
LEMMA AttachRequestIsGood ==
    ASSUME NEW w, NEW p \in Proc, NEW q \in Proc, Good(w), Able(w, p)
    PROVE  Frame(Attach(w, p, q), w, p) /\ BecomesPtracee(Attach(w, p, q), w, q)
<1> DEFINE v == AttachToPtracer(w, q, p)
           u == [v EXCEPT !.poked[q] = TRUE]
<1>1. CASE ~w.T[q].listed \/ w.T[q].ptracer # NoProc \/ q = p
  BY <1>1 DEF Attach, Frame, SamePlaces, BecomesPtracee, SameSleep, SamePtracee
<1>2. CASE ~(~w.T[q].listed \/ w.T[q].ptracer # NoProc \/ q = p)
  <2>1. AttachEffect(v, w, q, p) /\ Good(v)
    BY <1>2, AttachEffectHolds, AttachIsGood DEF Good
  <2> HIDE DEF v
  <2>2. u \in WorldType /\ u.T = v.T /\ u.at = v.at /\ u.stop = v.stop
        /\ u.zombies = v.zombies /\ u.tracer = v.tracer
    BY <2>1 DEF Good, WorldType
  <2> HIDE DEF u
  <2>3. Mild(u, v)
    BY <2>1, <2>2 DEF Good, Mild, SameLinks, Steady, Ordered, Inherits
  <2>4. Good(u)
    BY <2>1, <2>3, MildIsGood
  <2>5. Frame(u, w, p)
    BY <1>2, <2>1, <2>2, <2>4
    DEF AttachEffect, SameStops, SamePtracee, Frame, SamePlaces
  <2>6. BecomesPtracee(u, w, q)
    <3>1. ASSUME NEW x \in Proc
          PROVE  /\ SameSleep(u.T[x], w.T[x]) /\ u.T[x].status = w.T[x].status
                 /\ u.T[x].listed = w.T[x].listed /\ u.T[x].parent = w.T[x].parent
                 /\ u.T[x].nb_ptracees \in {w.T[x].nb_ptracees, w.T[x].nb_ptracees + 1}
                 /\ x # q => SamePtracee(u.T[x], w.T[x]) /\ u.T[x].ptracer = w.T[x].ptracer
      BY <2>1, <2>2, AttachKeeps
    <3>2. w.T[q].ptracer = NoProc /\ ~u.T[q].proot /\ ~u.T[q].untold /\ ~u.T[q].options
      BY <1>2, <2>1, <2>2 DEF AttachEffect
    <3>3. u.at = w.at /\ u.stop = w.stop /\ u.tracer = w.tracer /\ u.zombies = w.zombies
      BY <2>1, <2>2 DEF AttachEffect, SameStops
    <3> QED
      BY <3>1, <3>2, <3>3 DEF BecomesPtracee
  <2>7. Attach(w, p, q) = u
    BY <1>2 DEF Attach, u, v
  <2> QED
    BY <2>5, <2>6, <2>7
<1> QED
  BY <1>1, <1>2

\* A request on q, before q is restarted.
ConfigureEffect(v, w, op, q) ==
    /\ v.tracer = w.tracer /\ v.zombies = w.zombies
    /\ \A x \in Proc :
         /\ SameSleep(v.T[x], w.T[x]) /\ v.T[x].status = w.T[x].status
         /\ x # w.T[q].ptracer => v.T[x].nb_ptracees = w.T[x].nb_ptracees
         /\ v.T[x].proot = w.T[x].proot /\ v.T[x].untold = w.T[x].untold
         /\ v.T[x].listed = w.T[x].listed /\ v.T[x].parent = w.T[x].parent
         /\ x # q => /\ v.T[x].options = w.T[x].options /\ v.T[x].ptracer = w.T[x].ptracer
                     /\ v.at[x] = w.at[x] /\ v.stop[x] = w.stop[x]
    /\ v.T[q].ptracer \in {w.T[q].ptracer, NoProc}
    /\ op # "detach" => v.T[q].ptracer = w.T[q].ptracer
    /\ \/ v.at[q] = w.at[q] /\ v.stop[q] = w.stop[q]
       \/ v.at[q] = "dead" /\ v.stop[q] = "event"

LEMMA ConfigureIsGood ==
    ASSUME NEW w, NEW p \in Proc, NEW q \in Proc, Good(w),
           w.T[q].ptracer = p, ~w.T[q].running,
           NEW op \in Restarts \cup {"options"}
    PROVE  LET v == Configure(w, p, op, q)
           IN  /\ Good(v) /\ SamePlaces(v, w) /\ ConfigureEffect(v, w, op, q)
               /\ op # "options" => v.T[q].options = w.T[q].options
<1> DEFINE n == w.T[q]
           Goal(u) == /\ Good(u) /\ SamePlaces(u, w) /\ ConfigureEffect(u, w, op, q)
                      /\ op # "options" => u.T[q].options = w.T[q].options
<1>w. w \in WorldType /\ n \in TraceeType /\ n.listed /\ p # q /\ w.at[q] # "absent"
  BY PtraceAssumption DEF Good, WorldType, Linked, Steady, NoTracee
<1>p. ASSUME NEW t \in TraceeType, SameLinks(t, n), SameSleep(t, n), t.status = n.status,
             t.proot = n.proot, t.untold = n.untold,
             op # "options" => t.options = n.options
      PROVE  Goal([w EXCEPT !.T[q] = t])
  <2> DEFINE u == [w EXCEPT !.T[q] = t]
  <2>1. Good(u) /\ SamePlaces(u, w)
    BY <1>w, <1>p, PutIsGood DEF SameSleep
  <2>2. Only(u, w, q) /\ u.T[q] = t /\ u.at = w.at /\ u.stop = w.stop /\ u.tracer = w.tracer
    BY <1>w, PutTracee
  <2> HIDE DEF u
  <2>3. ConfigureEffect(u, w, op, q)
    BY <1>p, <2>2 DEF Only, Kept, SameLinks, SameSleep, ConfigureEffect
  <2> QED
    BY <1>p, <2>1, <2>2, <2>3 DEF u
<1> HIDE DEF n
<1>1. CASE op = "cont"
  <2> DEFINE t == [n EXCEPT !.ignore_syscalls = TRUE]
  <2>1. /\ t \in TraceeType /\ SameLinks(t, n) /\ SameSleep(t, n) /\ t.status = n.status
        /\ t.proot = n.proot /\ t.untold = n.untold /\ t.options = n.options
    BY <1>w DEF TraceeType, SameLinks, SameSleep
  <2>2. Configure(w, p, op, q) = [w EXCEPT !.T[q] = t]
    BY <1>1 DEF Configure, n
  <2> HIDE DEF t
  <2> QED
    BY <1>p, <2>1, <2>2
<1>2. CASE op = "syscall"
  <2> DEFINE t == [n EXCEPT !.ignore_syscalls = FALSE]
  <2>1. /\ t \in TraceeType /\ SameLinks(t, n) /\ SameSleep(t, n) /\ t.status = n.status
        /\ t.proot = n.proot /\ t.untold = n.untold /\ t.options = n.options
    BY <1>w DEF TraceeType, SameLinks, SameSleep
  <2>2. Configure(w, p, op, q) = [w EXCEPT !.T[q] = t]
    BY <1>2 DEF Configure, n
  <2> HIDE DEF t
  <2> QED
    BY <1>p, <2>1, <2>2
<1>3. CASE op = "options"
  <2> DEFINE t == [n EXCEPT !.options = TRUE]
  <2>1. /\ t \in TraceeType /\ SameLinks(t, n) /\ SameSleep(t, n) /\ t.status = n.status
        /\ t.proot = n.proot /\ t.untold = n.untold
    BY <1>w DEF TraceeType, SameLinks, SameSleep
  <2>2. Configure(w, p, op, q) = [w EXCEPT !.T[q] = t]
    BY <1>3 DEF Configure, n
  <2> HIDE DEF t
  <2> QED
    BY <1>3, <1>p, <2>1, <2>2
<1>4. CASE op = "detach"
  <2> DEFINE v == DetachFromPtracer(w, q)
  <2>1. Configure(w, p, op, q) = v
    BY <1>4 DEF Configure
  <2>2. DetachEffect(v, w, q, p)
    BY <1>w, CountedOnes, DetachEffectHolds
  <2> HIDE DEF v
  <2>3. Good(v)
    BY <1>w, <2>2, DetachIsGood
  <2>4. SamePlaces(v, w)
    BY <2>2 DEF DetachEffect, SameStops, SamePlaces
  <2>5. ASSUME NEW x \in Proc
        PROVE  /\ SameSleep(v.T[x], w.T[x]) /\ v.T[x].status = w.T[x].status
               /\ SamePtracee(v.T[x], w.T[x])
               /\ v.T[x].listed = w.T[x].listed /\ v.T[x].parent = w.T[x].parent
               /\ x # p => v.T[x].nb_ptracees = w.T[x].nb_ptracees
               /\ x # q => v.T[x].ptracer = w.T[x].ptracer
    BY <2>2 DEF DetachEffect, SameSleep, SamePtracee
  <2>6. ConfigureEffect(v, w, op, q)
    BY <1>4, <2>2, <2>5 DEF DetachEffect, SameStops, ConfigureEffect, SamePtracee
  <2> QED
    BY <2>1, <2>3, <2>4, <2>5, <2>6 DEF SamePtracee
<1>5. CASE op = "kill"
  <2> DEFINE u == [w EXCEPT !.at[q] = "dead", !.stop[q] = "event", !.void[q] = FALSE,
                            !.poked[q] = FALSE]
  <2>1. Configure(w, p, op, q) = IF w.at[q] \in {"dead", "zombie", "gone"} THEN w ELSE u
    BY <1>5 DEF Configure
  <2>2. Goal(w)
    BY <1>5, <1>w DEF SamePlaces, ConfigureEffect, SameSleep
  <2>3. ASSUME w.at[q] \notin {"dead", "zombie", "gone"}
        PROVE  Goal(u)
    <3>1. /\ u \in WorldType /\ u.T = w.T /\ u.zombies = w.zombies /\ u.tracer = w.tracer
          /\ u.at = [w.at EXCEPT ![q] = "dead"] /\ u.stop = [w.stop EXCEPT ![q] = "event"]
      BY <1>w DEF WorldType, Places
    <3> HIDE DEF u
    <3>2. \A x \in Proc : /\ u.at[x] = IF x = q THEN "dead" ELSE w.at[x]
                          /\ u.stop[x] = IF x = q THEN "event" ELSE w.stop[x]
      BY <1>w, <3>1 DEF WorldType
    <3>3. \A x \in Proc : Steady(u, x)
      BY <3>1, <3>2 DEF Good, Steady, Gone, Live
    <3>4. SamePlaces(u, w)
      BY <1>w, <2>3, <3>2 DEF SamePlaces, Gone
    <3>o. \A x \in Proc : Ordered(u, x)
      BY <3>1, <3>2 DEF Good, Ordered, Inherits
    <3>5. Good(u)
      BY <3>1, <3>3, <3>4, <3>o, MildIsGood DEF Mild, SameLinks, SamePlaces
    <3> QED
      BY <1>5, <3>1, <3>2, <3>4, <3>5 DEF ConfigureEffect, SameSleep
  <2> QED
    BY <2>1, <2>2, <2>3
<1> QED
  BY <1>1, <1>2, <1>3, <1>4, <1>5 DEF Restarts

\* The ptracee a request is allowed to act upon.
LEMMA RequestIsGood ==
    ASSUME NEW w, NEW p \in Proc, NEW q \in Proc, Good(w), Able(w, p),
           NEW op \in Restarts \cup {"options"}
    PROVE  Frame(Request(w, p, op, q), w, p)
<1> DEFINE v == Configure(w, p, op, q)
           u == IF v.T[q].proot THEN HandlePending(v, q) ELSE v
<1>1. CASE w.T[q].ptracer # p \/ w.zombies[q].ptracer = p \/ w.T[q].running
  BY <1>1 DEF Request, Frame, SamePlaces
<1>2. CASE ~(w.T[q].ptracer # p \/ w.zombies[q].ptracer = p \/ w.T[q].running)
  <2>1. Good(v) /\ SamePlaces(v, w) /\ ConfigureEffect(v, w, op, q)
    BY <1>2, ConfigureIsGood
  <2>2. Request(w, p, op, q) = IF op = "options" THEN v ELSE RestartTracee(u, q)
    BY <1>2 DEF Request
  <2>3. w.T[q].listed /\ p # q
    BY <1>2, PtraceAssumption DEF Good, Linked, NoTracee
  <2> HIDE DEF v
  <2>4. Frame(v, w, p)
    BY <2>1, <2>3 DEF ConfigureEffect, Frame
  <2>5. v.T[q].listed
    BY <2>1, <2>3 DEF ConfigureEffect
  <2>6. Frame(v, v, p) /\ Frame(v, v, q)
    BY <2>1 DEF Frame, SamePlaces
  <2>7. Frame(u, v, p) /\ Frame(u, v, q)
    BY <2>1, <2>5, <2>6, PendingIsGood
  <2> HIDE DEF u
  <2>8. Frame(RestartTracee(u, q), u, p)
    BY <2>5, <2>7, RestartIsGood DEF Frame
  <2> QED
    BY <2>2, <2>4, <2>7, <2>8, FrameTrans
<1> QED
  BY <1>1, <1>2

\* The child of a fork is a new process.
Forked(w, x) ==
    w.at[x] = "note" /\ call[x].op = "fork" =>
        /\ call[x].pid \in Proc \ {x}
        /\ w.at[call[x].pid] # "absent"
        /\ father[call[x].pid] = x

\* What an iteration needs of the process whose event it handles: the child of
\* a fork is never given to itself, or to what descends from it, as a ptracee.
ForkSafe(w, p) ==
    /\ \A x \in Proc : Forked(w, x)
    /\ Inherits(w, p) => Elder(w.T[p].ptracer, call[p].pid)

LEMMA ForkSafeStays ==
    ASSUME NEW v, NEW w, NEW p \in Proc, ForkSafe(w, p), SamePlaces(v, w),
           v.T[p].options => w.T[p].options,
           v.T[p].ptracer \in {w.T[p].ptracer, NoProc}
    PROVE  ForkSafe(v, p)
<1>1. ASSUME NEW x \in Proc
      PROVE  Forked(v, x)
  BY DEF ForkSafe, SamePlaces, Forked
<1>2. Inherits(v, p) => Inherits(w, p) /\ v.T[p].ptracer = w.T[p].ptracer
  BY DEF SamePlaces, Inherits
<1> QED
  BY <1>1, <1>2 DEF ForkSafe

CallsTyped == call \in [Proc -> CallType]

CanHandle(w, p) == Good(w) /\ Able(w, p) /\ CallsTyped

LEMMA ExitIsGood ==
    ASSUME NEW w, NEW p \in Proc, NEW first \in Proc, CanHandle(w, p)
    PROVE  Frame(ExitStage(w, p, first), w, p)
<1> DEFINE n == w.T[p]
           t == [n EXCEPT !.status = 0]
           v == [w EXCEPT !.T[p] = t]
           c == call[p]
<1>1. n \in TraceeType /\ n.listed
  BY DEF CanHandle, Good, Able, WorldType
<1> HIDE DEF n
<1>2. t \in TraceeType /\ SameLinks(t, n) /\ t.running = n.running /\ t.options = n.options
  BY <1>1 DEF TraceeType, SameLinks
<1> USE DEF n
<1>3. Frame(v, w, p) /\ v.at = w.at
  BY <1>1, <1>2, PutIsGood, PutTracee DEF CanHandle, Good
<1>4. [w EXCEPT !.T[p].status = 0] = v
  OBVIOUS
<1> HIDE DEF v
<1>5. Good(v) /\ Able(v, p) /\ v.T[p].listed /\ call \in [Proc -> CallType]
  BY <1>1, <1>3 DEF Frame, CanHandle, Able, CallsTyped
<1>6. Frame(v, v, p)
  BY <1>3 DEF Frame, SamePlaces
<1>7. Frame(WaitExit(v, p, first), v, p) /\ Frame(Traceme(v, p), v, p)
  BY <1>5, WaitExitIsGood, TracemeIsGood
<1>8. c.pid \in Proc => Frame(Attach(v, p, c.pid), v, p)
  BY <1>5, AttachRequestIsGood
<1>9. c.op \in Restarts \cup {"options"} /\ c.pid \in Proc => Frame(Request(v, p, c.op, c.pid), v, p)
  BY <1>5, RequestIsGood
<1>10. Frame(ExitStage(w, p, first), v, p)
  <2> DEFINE e == ExitStage(w, p, first)
  <2>1. CASE c.op \in Waits /\ w.T[p].waits_in = "proot"
    <3>1. e = WaitExit(v, p, first)
      BY <1>4, <2>1 DEF ExitStage, Waits, Restarts
    <3> QED
      BY <1>7, <3>1
  <2>2. CASE c.op = "traceme"
    <3>1. e = Traceme(v, p)
      BY <1>4, <2>2 DEF ExitStage, Waits, Restarts
    <3> QED
      BY <1>7, <3>1
  <2>3. CASE c.op = "attach" /\ c.pid \in Proc
    <3>1. e = Attach(v, p, c.pid)
      BY <1>4, <2>3 DEF ExitStage, Waits, Restarts
    <3> QED
      BY <1>8, <2>3, <3>1
  <2>4. CASE c.op \in Restarts \cup {"options"} /\ c.pid \in Proc
    <3>1. e = Request(v, p, c.op, c.pid)
      BY <1>4, <2>4 DEF ExitStage, Waits, Restarts
    <3> QED
      BY <1>9, <2>4, <3>1
  <2>5. CASE /\ ~(c.op \in Waits /\ w.T[p].waits_in = "proot")
             /\ c.op # "traceme" /\ ~(c.op = "attach" /\ c.pid \in Proc)
             /\ ~(c.op \in Restarts \cup {"options"} /\ c.pid \in Proc)
    <3>1. e = v
      BY <1>4, <2>5 DEF ExitStage
    <3> QED
      BY <1>6, <3>1
  <2> QED
    BY <2>1, <2>2, <2>3, <2>4, <2>5
<1> QED
  BY <1>3, <1>10, FrameTrans

\* A structure that is added to the list, or written with a new parent.
LEMMA EnlistIsGood ==
    ASSUME NEW v, NEW w, NEW c \in Proc, Good(w), Only(v, w, c),
           v.T[c].listed, v.T[c].ptracer = w.T[c].ptracer,
           v.T[c].nb_ptracees = w.T[c].nb_ptracees,
           v.at[c] = w.at[c], Steady(v, c), Ordered(v, c),
           \/ v.T[c].parent = w.T[c].parent
           \/ v.T[c].parent \in Proc \ {c} /\ Able(w, v.T[c].parent)
    PROVE  Good(v) /\ SamePlaces(v, w)
<1>1. v \in WorldType /\ w \in WorldType
  BY DEF Good, Only
<1>2. \A x \in Proc : Able(w, x) => Able(v, x)
  BY DEF Able, Only, Kept
<1>3. ASSUME NEW x \in Proc
      PROVE  Linked(v, x)
  <2>1. Linked(w, x) /\ w.T[x].ptracer \in Proc \cup {NoProc}
        /\ w.T[x].parent \in Proc \cup {NoProc} /\ w.zombies[x].ptracer \in Proc \cup {NoProc}
    BY <1>1 DEF Good, WorldType, TraceeType, ZombieType
  <2>2. v.zombies[x] = w.zombies[x] /\ v.at[x] = w.at[x] /\ v.T[x].ptracer = w.T[x].ptracer
    BY DEF Only, Kept
  <2>3. CASE x = c
    BY <1>2, <2>1, <2>2, <2>3, PtraceAssumption DEF Linked
  <2>4. CASE x # c
    BY <1>2, <2>1, <2>2, <2>4 DEF Linked, Only, Kept
  <2> QED
    BY <2>3, <2>4
<1>4. ASSUME NEW x \in Proc
      PROVE  Steady(v, x) /\ Ordered(v, x)
  BY DEF Good, Only, Kept, Steady, Ordered, Inherits
<1>5. \A x \in Proc : PtraceesIn(v, x) = PtraceesIn(w, x) /\ ZombiesIn(v, x) = ZombiesIn(w, x)
  BY DEF PtraceesIn, ZombiesIn, Only, Kept
<1>6. ASSUME NEW x \in Proc
      PROVE  Counted(v, x)
  BY <1>5 DEF Good, Only, Kept, Counted
<1> QED
  BY <1>1, <1>3, <1>4, <1>6 DEF Good, SamePlaces, Only, Kept

\* new_child
NewChildEffect(v, w, p, c) ==
    /\ v.at = w.at /\ v.stop = w.stop /\ v.tracer \in {w.tracer, "crashed"}
    /\ v.zombies = w.zombies
    /\ \A x \in Proc : v.T[x].nb_ptracees \in {w.T[x].nb_ptracees, w.T[x].nb_ptracees + 1}
    /\ \A x \in Proc \ {c} :
         /\ SameSleep(v.T[x], w.T[x]) /\ v.T[x].status = w.T[x].status
         /\ SamePtracee(v.T[x], w.T[x]) /\ v.T[x].ptracer = w.T[x].ptracer
         /\ v.T[x].listed = w.T[x].listed /\ v.T[x].parent = w.T[x].parent
    /\ \/ v.tracer = "crashed" /\ v.T[c] = w.T[c]
       \/ /\ v.tracer = w.tracer /\ v.T[c].listed
          /\ w.T[c].ptracer = NoProc /\ w.T[c].parent = NoProc
          /\ v.T[c].running = w.T[c].running /\ v.T[c].how = w.T[p].how
          /\ v.T[c].status = w.T[c].status /\ v.T[c].wait_pid = w.T[c].wait_pid
          /\ v.T[c].proot => w.T[c].proot
          /\ \/ v.T[c].ptracer = NoProc /\ (v.T[c].untold = w.T[c].untold)
             \/ v.T[c].ptracer # NoProc /\ ~v.T[c].untold

LEMMA NewChildIsGood ==
    ASSUME NEW w, NEW p \in Proc, NEW c \in Proc, CanHandle(w, p),
           ForkSafe(w, p), w.at[p] = "note", call[p].op = "fork", call[p].pid = c
    PROVE  Frame(NewChild(w, p, c), w, p) /\ NewChildEffect(NewChild(w, p, c), w, p, c)
<1> DEFINE n == w.T[c]
           child == IF n.listed THEN n ELSE NewTracee
           t == [child EXCEPT !.parent = p, !.how = w.T[p].how]
           v == [w EXCEPT !.T[c] = t]
           r == w.T[p].ptracer
           a == AttachToPtracer(v, c, r)
           Goal(u) == Frame(u, w, p) /\ NewChildEffect(u, w, p, c)
<1>w. /\ Good(w) /\ Able(w, p) /\ w \in WorldType /\ n \in TraceeType
      /\ w.T[p].how \in BOOLEAN /\ r \in Proc \cup {NoProc}
  BY DEF CanHandle, Good, WorldType, TraceeType
<1>f. /\ c # p /\ w.at[c] # "absent" /\ father[c] = p
      /\ r # NoProc /\ w.T[p].options => Elder(r, c)
  BY DEF ForkSafe, Forked, Inherits
<1>n. ~n.listed => n = NoTracee
  BY <1>w DEF Good, Linked
<1> HIDE DEF n
<1>c. /\ child \in TraceeType /\ child.listed
      /\ child.parent = n.parent /\ child.ptracer = n.ptracer
      /\ child.nb_ptracees = n.nb_ptracees /\ child.running = n.running
      /\ child.status = n.status /\ child.wait_pid = n.wait_pid
      /\ child.proot = n.proot /\ child.untold = n.untold /\ child.options = n.options
  <2>1. CASE n.listed
    BY <1>w, <2>1
  <2>2. CASE ~n.listed
    BY <1>n, <2>2 DEF NewTracee, NoTracee, TraceeType
  <2> QED
    BY <2>1, <2>2
<1> HIDE DEF child
<1>t. /\ t \in TraceeType /\ t.listed /\ t.parent = p /\ t.how = w.T[p].how
      /\ t.ptracer = n.ptracer /\ t.nb_ptracees = n.nb_ptracees /\ t.running = n.running
      /\ t.status = n.status /\ t.wait_pid = n.wait_pid
      /\ t.proot = n.proot /\ t.untold = n.untold /\ t.options = n.options
  BY <1>w, <1>c DEF TraceeType
<1> USE DEF n
<1>v. Only(v, w, c) /\ v.T[c] = t /\ v.at = w.at /\ v.stop = w.stop /\ v.tracer = w.tracer
  BY <1>w, <1>t, PutTracee
<1> HIDE DEF v, t
<1>1. Steady(v, c) /\ Ordered(v, c)
  BY <1>w, <1>t, <1>v, <1>f DEF Good, Steady, Ordered, Inherits
<1>2. Good(v) /\ SamePlaces(v, w)
  BY <1>w, <1>t, <1>v, <1>f, <1>1, EnlistIsGood
<1>3. CASE ~FreshChild(w, c)
  <2> DEFINE u == [w EXCEPT !.tracer = "crashed"]
  <2>1. u \in WorldType /\ u.T = w.T /\ u.at = w.at /\ u.stop = w.stop /\ u.zombies = w.zombies
        /\ u.tracer = "crashed"
    BY <1>w DEF WorldType
  <2>2. NewChild(w, p, c) = u
    BY <1>3 DEF NewChild
  <2> HIDE DEF u
  <2>3. Mild(u, w)
    BY <1>w, <2>1 DEF Good, Mild, SameLinks, Steady, Ordered, Inherits
  <2>4. Good(u)
    BY <1>w, <2>3, MildIsGood
  <2>5. Goal(u)
    BY <2>1, <2>4 DEF Frame, SamePlaces, NewChildEffect, SameSleep, SamePtracee
  <2> QED
    BY <2>2, <2>5
<1>4. CASE FreshChild(w, c) /\ ~(r # NoProc /\ w.T[p].options)
  <2>1. NewChild(w, p, c) = v
    BY <1>4 DEF NewChild, v, t, child
  <2>2. Frame(v, w, p)
    BY <1>2, <1>v, <1>f DEF Frame, Only, Kept
  <2>3. NewChildEffect(v, w, p, c)
    BY <1>4, <1>t, <1>v
    DEF FreshChild, NewChildEffect, Only, Kept, SameSleep, SamePtracee
  <2> QED
    BY <2>1, <2>2, <2>3
<1>5. CASE FreshChild(w, c) /\ r # NoProc /\ w.T[p].options
  <2>1. r \in Proc /\ r # c /\ Able(w, r) /\ r # p
    BY <1>5, <1>f, <1>w DEF Good, Linked, Elder
  <2>2. v \in WorldType /\ v.T[r] = w.T[r] /\ v.at[r] = w.at[r]
    BY <1>v, <2>1 DEF Only, Kept
  <2>3. AttachEffect(a, v, c, r)
    BY <2>1, <2>2, AttachEffectHolds
  <2>4. Able(v, r) /\ v.T[c].listed /\ v.T[c].ptracer = NoProc
    BY <1>5, <1>t, <1>v, <2>1, <2>2 DEF Able, FreshChild
  <2>5. Good(a)
    BY <1>2, <2>1, <2>3, <2>4, AttachIsGood
  <2> DEFINE m == a.T[c]
             s == [m EXCEPT !.options = TRUE]
             u == [a EXCEPT !.T[c] = s]
  <2> HIDE DEF a
  <2>6. m \in TraceeType
    BY <2>5 DEF Good, WorldType
  <2> HIDE DEF m
  <2>7. /\ s \in TraceeType /\ SameLinks(s, m) /\ SameSleep(s, m) /\ s.status = m.status
        /\ s.proot = m.proot /\ s.untold = m.untold
    BY <2>6 DEF TraceeType, SameLinks, SameSleep
  <2> USE DEF m
  <2>9. Only(u, a, c) /\ u.T[c] = s /\ SameStops(u, a)
    BY ZenonT(60), <2>3, <2>7, PutTracee DEF AttachEffect, SameStops
  <2>10. NewChild(w, p, c) = u
    BY <1>5 DEF NewChild, v, t, child, a
  <2> HIDE DEF u, s
  <2>o. Ordered(u, c)
    <3>1. SUFFICES ASSUME w.at[c] = "note", call[c].op = "fork"
                   PROVE  Elder(r, call[c].pid)
      <4>1. u.at[c] = w.at[c] /\ u.T[c].ptracer = r
        BY <1>v, <2>3, <2>7, <2>9 DEF AttachEffect, SameStops, SameLinks
      <4> QED
        BY <4>1 DEF Ordered, Inherits
    <3>2. call[c].pid \in Proc /\ father[call[c].pid] = c
      BY <3>1 DEF ForkSafe, Forked
    <3>3. Elder(r, c)
      BY <1>5, <1>f
    <3> QED
      BY <3>2, <3>3 DEF Elder
  <2>m. Mild(u, a)
    <3>1. ASSUME NEW x \in Proc
          PROVE  SameLinks(u.T[x], a.T[x]) /\ Steady(u, x) /\ Ordered(u, x)
      <4>1. Steady(a, x) /\ Ordered(a, x)
        BY <2>5 DEF Good
      <4>2. CASE x = c
        <5>1. u.at = a.at /\ u.stop = a.stop /\ u.T[c].running = a.T[c].running
              /\ SameLinks(u.T[c], a.T[c])
          BY <2>7, <2>9 DEF SameStops, SameSleep, m
        <5> QED
          BY <2>o, <4>1, <4>2, <5>1 DEF Steady, SameLinks
      <4>3. CASE x # c
        BY <2>9, <4>1, <4>3 DEF Only, Kept, SameLinks, Steady, Ordered, Inherits
      <4> QED
        BY <4>2, <4>3
    <3>2. a.T[c].listed
      BY <2>3, <2>4 DEF AttachEffect
    <3> QED
      BY <2>9, <3>1, <3>2 DEF Only, Kept, SameStops, Mild
  <2>8. Good(u) /\ SamePlaces(u, a)
    BY <2>5, <2>9, <2>m, MildIsGood DEF SamePlaces, SameStops
  <2> HIDE DEF m
  <2>11. ASSUME NEW x \in Proc \ {c}
         PROVE  /\ SameSleep(u.T[x], w.T[x]) /\ u.T[x].status = w.T[x].status
                /\ SamePtracee(u.T[x], w.T[x]) /\ u.T[x].ptracer = w.T[x].ptracer
                /\ u.T[x].listed = w.T[x].listed /\ u.T[x].parent = w.T[x].parent
    <3>1. u.T[x] = a.T[x] /\ v.T[x] = w.T[x]
      BY <1>v, <2>9 DEF Only, Kept
    <3> QED
      BY <2>3, <3>1, AttachKeeps
  <2>12. u.at = w.at /\ u.stop = w.stop /\ u.tracer = w.tracer
    BY <1>v, <2>3, <2>9 DEF AttachEffect, SameStops
  <2>13. Frame(u, w, p)
    BY <1>f, <2>8, <2>11, <2>12 DEF Frame, SamePlaces, SamePtracee
  <2>14. ASSUME NEW x \in Proc
         PROVE  u.T[x].nb_ptracees \in {w.T[x].nb_ptracees, w.T[x].nb_ptracees + 1}
    <3>1. u.T[x].nb_ptracees = a.T[x].nb_ptracees
      BY <2>7, <2>9 DEF Only, Kept, SameLinks, m
    <3>2. v.T[x].nb_ptracees = w.T[x].nb_ptracees
      BY <1>t, <1>v DEF Only, Kept, SameLinks
    <3> QED
      BY ZenonT(40), <2>1, <2>3, <3>1, <3>2 DEF AttachEffect
  <2>15. u.zombies = w.zombies
    BY <1>v, <2>3, <2>9 DEF AttachEffect, Only
  <2>16. NewChildEffect(u, w, p, c)
    <3>1. /\ u.T[c].listed /\ u.T[c].running = w.T[c].running /\ u.T[c].how = w.T[p].how
          /\ u.T[c].status = w.T[c].status /\ u.T[c].wait_pid = w.T[c].wait_pid
          /\ ~u.T[c].proot /\ u.T[c].ptracer = r /\ ~u.T[c].untold
      <4>1. /\ m.listed = t.listed /\ m.running = t.running /\ m.how = t.how
            /\ m.status = t.status /\ m.wait_pid = t.wait_pid
            /\ ~m.proot /\ m.ptracer = r /\ ~m.untold
        BY <1>v, <2>3 DEF AttachEffect, SameSleep, m
      <4> QED
        BY ZenonT(40), <1>t, <2>7, <2>9, <4>1 DEF SameLinks, SameSleep
    <3> QED
      BY <1>5, <2>11, <2>12, <2>14, <2>15, <3>1 DEF FreshChild, NewChildEffect
  <2> QED
    BY <2>10, <2>13, <2>16
<1> QED
  BY <1>3, <1>4, <1>5

\* handle_tracee_event
LEMMA HandleIsGood ==
    ASSUME NEW w, NEW p \in Proc, NEW first \in Proc, CanHandle(w, p), ForkSafe(w, p)
    PROVE  Frame(HandleTraceeEvent(w, p, first), w, p)
<1> DEFINE n == w.T[p]
           t == [n EXCEPT !.how = TRUE]
           v == [w EXCEPT !.T[p] = t]
           u == IF w.at[p] \in {"enter", "exit"}
                  THEN IF w.T[p].status = 0 THEN EnterStage(v, p) ELSE ExitStage(v, p, first)
                ELSE IF w.at[p] = "note" /\ call[p].op = "fork" THEN NewChild(v, p, call[p].pid)
                ELSE v
<1>1. n \in TraceeType /\ n.listed
  BY DEF CanHandle, Good, Able, WorldType
<1> HIDE DEF n
<1>2. /\ t \in TraceeType /\ SameLinks(t, n) /\ t.running = n.running
      /\ t.options = n.options /\ t.ptracer = n.ptracer
  BY <1>1 DEF TraceeType, SameLinks
<1> USE DEF n
<1>3. Frame(v, w, p) /\ v.at = w.at /\ v.T[p] = t
  BY ZenonT(60), <1>1, <1>2, PutIsGood, PutTracee DEF CanHandle, Good
<1>4. HandleTraceeEvent(w, p, first) = [u EXCEPT !.T[p].proot = FALSE]
  BY DEF HandleTraceeEvent
<1> HIDE DEF v, t
<1>5. CanHandle(v, p) /\ Good(v) /\ v.T[p].listed
  BY <1>1, <1>3 DEF Frame, CanHandle, Able
<1>6. Frame(u, v, p)
  <2>0. Frame(v, v, p)
    BY <1>5 DEF Frame, SamePlaces
  <2>1. Frame(EnterStage(v, p), v, p) /\ Frame(ExitStage(v, p, first), v, p)
    BY <1>5, EnterIsGood, ExitIsGood
  <2>2. ASSUME w.at[p] = "note", call[p].op = "fork"
        PROVE  Frame(NewChild(v, p, call[p].pid), v, p)
    <3>1. ForkSafe(v, p) /\ v.at[p] = "note"
      BY <1>2, <1>3, <2>2, ForkSafeStays DEF Frame
    <3>2. call[p].pid \in Proc
      BY <3>1, <2>2 DEF ForkSafe, Forked
    <3> QED
      BY <1>5, <2>2, <3>1, <3>2, NewChildIsGood
  <2> QED
    BY <2>0, <2>1, <2>2
<1> DEFINE m == u.T[p]
           s == [m EXCEPT !.proot = FALSE]
<1> HIDE DEF u
<1>7. m \in TraceeType /\ m.listed
  BY <1>5, <1>6 DEF Frame, Good, WorldType
<1> HIDE DEF m
<1>8. s \in TraceeType /\ SameLinks(s, m) /\ s.running = m.running /\ s.options = m.options
  BY <1>7 DEF TraceeType, SameLinks
<1> USE DEF m
<1>9. Frame([u EXCEPT !.T[p] = s], u, p)
  BY ZenonT(60), <1>6, <1>7, <1>8, PutIsGood DEF Frame
<1>10. [u EXCEPT !.T[p].proot = FALSE] = [u EXCEPT !.T[p] = s]
  OBVIOUS
<1> HIDE DEF s
<1> QED
  BY <1>3, <1>4, <1>6, <1>9, <1>10, FrameTrans

\* The first part of handle_ptracee_event.
LEMMA NotifiedIsGood ==
    ASSUME NEW w, NEW q \in Proc, NEW first \in Proc, CanHandle(w, q), ForkSafe(w, q)
    PROVE  Frame(Notified(w, q, first), w, q)
<1> DEFINE n == w.T[q]
           b == n.tracing_started \/ ~SyscallStop(w, q)
           t == [n EXCEPT !.proot = TRUE, !.tracing_started = b]
           v == [w EXCEPT !.T[q] = t]
           u == IF HandledFirst(w, q) THEN HandleTraceeEvent(v, q, first) ELSE v
<1>1. n \in TraceeType /\ n.listed
  BY DEF CanHandle, Good, Able, WorldType
<1>b. b \in BOOLEAN
  BY <1>1 DEF TraceeType
<1> HIDE DEF n, b
<1>2. /\ t \in TraceeType /\ SameLinks(t, n) /\ t.running = n.running
      /\ t.options = n.options /\ t.ptracer = n.ptracer
  BY <1>1, <1>b DEF TraceeType, SameLinks
<1> USE DEF n
<1>3. Frame(v, w, q) /\ v.at = w.at /\ v.T[q] = t
  BY ZenonT(60), <1>1, <1>2, PutIsGood, PutTracee DEF CanHandle, Good
<1>4. Notified(w, q, first) = [u EXCEPT !.T[q].untold = TRUE]
  <2> DEFINE y == [w EXCEPT !.T[q].proot = TRUE,
                            !.T[q].tracing_started = @ \/ ~SyscallStop(w, q)]
  <2>1. [w EXCEPT !.T[q].proot = TRUE, !.T[q].tracing_started = b] = v
    OBVIOUS
  <2>2. y = v
    BY <2>1 DEF b
  <2>3. Notified(w, q, first)
          = [(IF HandledFirst(w, q) THEN HandleTraceeEvent(y, q, first) ELSE y) EXCEPT
               !.T[q].untold = TRUE]
    BY DEF Notified
  <2> HIDE DEF y, v
  <2> QED
    BY <2>2, <2>3
<1> HIDE DEF v, t
<1>5. CanHandle(v, q) /\ ForkSafe(v, q)
  <2>1. CanHandle(v, q)
    BY <1>1, <1>2, <1>3 DEF Frame, CanHandle, Able
  <2>2. ForkSafe(v, q)
    BY <1>2, <1>3, ForkSafeStays DEF Frame
  <2> QED
    BY <2>1, <2>2
<1>6. Frame(u, v, q)
  BY <1>5, HandleIsGood DEF CanHandle, Frame, SamePlaces
<1> DEFINE m == u.T[q]
           s == [m EXCEPT !.untold = TRUE]
<1> HIDE DEF u
<1>7. m \in TraceeType /\ m.listed
  BY <1>1, <1>3, <1>6 DEF Frame, Good, WorldType
<1> HIDE DEF m
<1>8. s \in TraceeType /\ SameLinks(s, m) /\ s.running = m.running /\ s.options = m.options
  BY <1>7 DEF TraceeType, SameLinks
<1> USE DEF m
<1>9. Frame([u EXCEPT !.T[q] = s], u, q)
  BY ZenonT(60), <1>6, <1>7, <1>8, PutIsGood DEF Frame
<1>10. [u EXCEPT !.T[q].untold = TRUE] = [u EXCEPT !.T[q] = s]
  OBVIOUS
<1> HIDE DEF s
<1> QED
  BY <1>3, <1>4, <1>6, <1>9, <1>10, FrameTrans

\* The second part: the ptracer is told, and no longer sleeps.
WokenEffect(v, w, p, q) ==
    /\ v.stop = w.stop /\ v.poked = w.poked /\ v.tracer = w.tracer
    /\ \A x \in Proc :
         /\ v.T[x].running = w.T[x].running /\ v.T[x].how = w.T[x].how
         /\ v.T[x].status = w.T[x].status /\ v.T[x].proot = w.T[x].proot
         /\ v.T[x].options = w.T[x].options
         /\ v.T[x].listed = w.T[x].listed /\ v.T[x].parent = w.T[x].parent
         /\ v.T[x].untold => w.T[x].untold
         /\ x # p => /\ v.at[x] = w.at[x] /\ v.T[x].wait_pid = w.T[x].wait_pid
                     /\ v.T[x].nb_ptracees = w.T[x].nb_ptracees
         /\ x # q => v.T[x].ptracer = w.T[x].ptracer /\ v.T[x].untold = w.T[x].untold
         /\ v.zombies[x] \in {w.zombies[x], NoZombie}
    /\ v.T[p].wait_pid = NoProc
    /\ v.at[p] \in {w.at[p], "again"} /\ (w.at[p] = "dead" => v.at[p] = "dead")
    /\ v.T[q].ptracer \in {w.T[q].ptracer, NoProc}
    /\ w.at[q] # "dead" => v.T[q].ptracer = w.T[q].ptracer

LEMMA WokenIsGood ==
    ASSUME NEW w, NEW p \in Proc, NEW q \in Proc, Good(w), w.T[q].ptracer = p
    PROVE  LET v == Woken(w, q)
           IN  Good(v) /\ SamePlaces(v, w) /\ WokenEffect(v, w, p, q)
<1> DEFINE u == UpdateWaitStatus(w, p, q)
           m == u.T[p]
           s == [m EXCEPT !.wait_pid = NoProc]
           v == [u EXCEPT !.T[p] = s]
<1>1. p # q /\ Able(w, p) /\ w.T[p].listed
  BY PtraceAssumption DEF Good, Linked, Able
<1>2. Good(u) /\ SamePlaces(u, w) /\ UpdateEffect(u, w, p, q)
  BY <1>1, UpdateIsGood
<1>3. Woken(w, q) = [u EXCEPT !.T[p].wait_pid = NoProc]
  BY DEF Woken
<1> HIDE DEF u
<1>4. m \in TraceeType /\ m.listed
  BY <1>1, <1>2 DEF UpdateEffect, Good, WorldType
<1> HIDE DEF m
<1>5. /\ s \in TraceeType /\ SameLinks(s, m) /\ s.running = m.running /\ s.how = m.how
      /\ SamePtracee(s, m) /\ s.status = m.status /\ s.wait_pid = NoProc
  BY <1>4 DEF TraceeType, SameLinks, SamePtracee
<1> USE DEF m
<1>6. [u EXCEPT !.T[p].wait_pid = NoProc] = v
  OBVIOUS
<1>7. Good(v) /\ SamePlaces(v, u)
  BY <1>2, <1>4, <1>5, PutIsGood DEF SamePtracee
<1>8. Only(v, u, p) /\ v.T[p] = s /\ SameStops(v, u)
  BY <1>2, <1>5, PutTracee DEF Good, SameStops
<1> HIDE DEF v, s
<1>9. SamePlaces(v, w)
  BY <1>2, <1>7 DEF SamePlaces
<1>10. ASSUME NEW x \in Proc
       PROVE  /\ v.T[x].running = u.T[x].running /\ v.T[x].how = u.T[x].how
              /\ v.T[x].status = u.T[x].status /\ SamePtracee(v.T[x], u.T[x])
              /\ SameLinks(v.T[x], u.T[x])
              /\ x # p => v.T[x].wait_pid = u.T[x].wait_pid
  <2>1. CASE x = p
    BY <1>5, <1>8, <2>1
  <2>2. CASE x # p
    BY <1>8, <2>2 DEF Only, Kept, SamePtracee, SameLinks
  <2> QED
    BY <2>1, <2>2
<1>11. /\ v.at = u.at /\ v.stop = u.stop /\ v.poked = u.poked /\ v.tracer = u.tracer
       /\ v.zombies = u.zombies
  BY <1>8 DEF SameStops, Only
<1>12. v.T[p].wait_pid = NoProc
  BY <1>5, <1>8
<1> HIDE DEF m
<1>13. WokenEffect(v, w, p, q)
  BY <1>1, <1>2, <1>10, <1>11, <1>12
  DEF UpdateEffect, WokenEffect, SameLinks, SameSleep, SamePtracee
<1> QED
  BY <1>3, <1>6, <1>7, <1>9, <1>13

-----------------------------------------------------------------------------
(***************************************************************************)
(* remove_tracee.                                                          *)
(***************************************************************************)
\* Would the event kept pending let r run again?
Resumable(w, r) ==
    /\ w.T[r].wait_pid = NoProc /\ w.stop[r] # "no" /\ w.at[r] # "dead"
    /\ w.T[r].proot \/ (w.T[r].untold /\ w.T[r].how)

ReleaseEffect(u, w, r) ==
    /\ Only(u, w, r)
    /\ u.T[r].listed = w.T[r].listed /\ u.T[r].parent = w.T[r].parent
    /\ u.T[r].nb_ptracees = w.T[r].nb_ptracees /\ u.T[r].ptracer = NoProc
    /\ ~u.T[r].proot /\ ~u.T[r].untold /\ ~u.T[r].options
    /\ u.T[r].wait_pid = w.T[r].wait_pid
    /\ u.T[r].status = IF w.T[r].proot /\ w.at[r] \in {"enter", "exit"} THEN 1 ELSE w.T[r].status
    /\ u.poked = w.poked
    /\ Steady(w, r) => Steady(u, r)
    /\ u.at[r] \in Gone <=> w.at[r] \in Gone
    /\ IF Resumable(w, r)
         THEN /\ u.stop[r] = "no" /\ u.tracer = w.tracer
              /\ u.at[r] = IF w.at[r] = "exit" THEN "user" ELSE w.at[r]
              /\ u.T[r].running /\ ~u.T[r].how
         ELSE /\ u.stop = w.stop /\ u.at = w.at
              /\ u.T[r].how = (w.T[r].how \/ w.T[r].proot)
              /\ \/ u.tracer = "traced"
                 \/ u.tracer = w.tracer /\ u.T[r].running = w.T[r].running

LEMMA ReleaseEffectHolds ==
    ASSUME NEW w \in WorldType, NEW r \in Proc
    PROVE  ReleaseEffect(Release(w, r), w, r)
<1> DEFINE n == w.T[r]
           t == [n EXCEPT !.ptracer = NoProc]
           v == [w EXCEPT !.T[r] = t]
           h == HandlePending(v, r)
           u == IF w.T[r].proot THEN RestartTracee(h, r)
                ELSE IF w.T[r].untold THEN RestartTracee(v, r)
                ELSE v
           m == u.T[r]
           s == [m EXCEPT !.proot = FALSE, !.untold = FALSE, !.tracing_started = FALSE,
                          !.ignore_syscalls = FALSE, !.options = FALSE]
           x == [u EXCEPT !.T[r] = s]
<1>n. n \in TraceeType
  BY DEF WorldType
<1> HIDE DEF n
<1>t. /\ t \in TraceeType /\ t.listed = n.listed /\ t.parent = n.parent
      /\ t.nb_ptracees = n.nb_ptracees /\ t.ptracer = NoProc
      /\ SameSleep(t, n) /\ SamePtracee(t, n) /\ t.status = n.status
  BY <1>n DEF TraceeType, SameSleep, SamePtracee
<1> USE DEF n
<1>v. Only(v, w, r) /\ v.T[r] = t /\ SameStops(v, w)
  BY <1>t, PutTracee DEF SameStops
<1>e. Release(w, r) = [u EXCEPT !.T[r].proot = FALSE, !.T[r].untold = FALSE,
                                !.T[r].tracing_started = FALSE,
                                !.T[r].ignore_syscalls = FALSE, !.T[r].options = FALSE]
  <2>1. [w EXCEPT !.T[r].ptracer = NoProc] = v
    OBVIOUS
  <2> QED
    BY <2>1 DEF Release
<1> HIDE DEF v, t
\* Before the flags are cleared.
<1> DEFINE Before(y) ==
      /\ Only(y, w, r)
      /\ y.T[r].listed = n.listed /\ y.T[r].parent = n.parent
      /\ y.T[r].nb_ptracees = n.nb_ptracees /\ y.T[r].ptracer = NoProc
      /\ y.T[r].wait_pid = n.wait_pid
      /\ y.T[r].status = IF n.proot /\ w.at[r] \in {"enter", "exit"} THEN 1 ELSE n.status
      /\ y.poked = w.poked
      /\ Steady(w, r) => Steady(y, r)
      /\ y.at[r] \in Gone <=> w.at[r] \in Gone
      /\ IF Resumable(w, r)
           THEN /\ y.stop[r] = "no" /\ y.tracer = w.tracer
                /\ y.at[r] = IF w.at[r] = "exit" THEN "user" ELSE w.at[r]
                /\ y.T[r].running /\ ~y.T[r].how
           ELSE /\ y.stop = w.stop /\ y.at = w.at
                /\ y.T[r].how = (n.how \/ n.proot)
                /\ \/ y.tracer = "traced"
                   \/ y.tracer = w.tracer /\ y.T[r].running = n.running
<1>0. n.how \in BOOLEAN /\ n.proot \in BOOLEAN /\ n.untold \in BOOLEAN
      /\ n.running \in BOOLEAN /\ n.listed \in BOOLEAN
  BY <1>n DEF TraceeType
<1>1. ASSUME n.proot
      PROVE  Before(u)
  <2> DEFINE k == RestartTracee(h, r)
  <2>1. PendingEffect(h, v, r)
    BY <1>v, HandlePendingEffect DEF Only
  <2>2. RestartEffect(k, h, r)
    BY <2>1, RestartTraceeEffect DEF PendingEffect, Only
  <2>3. u = k
    BY <1>1
  <2> HIDE DEF u, h, k
  <2>4. h \in WorldType /\ h.at = w.at /\ h.stop = w.stop /\ h.poked = w.poked /\ h.tracer = w.tracer
    BY <1>v, <2>1 DEF PendingEffect, SameStops, Only
  <2>5. /\ h.T[r].listed = n.listed /\ h.T[r].parent = n.parent
        /\ h.T[r].nb_ptracees = n.nb_ptracees /\ h.T[r].ptracer = NoProc
        /\ h.T[r].wait_pid = n.wait_pid /\ h.T[r].how /\ h.T[r].running = n.running
        /\ h.T[r].status = IF w.at[r] \in {"enter", "exit"} THEN 1 ELSE n.status
    BY <1>v, <1>t, <2>1 DEF PendingEffect, SameLinks, SameSleep, SameStops
  <2>6. Restartable(h, r) <=> Resumable(w, r)
    BY <1>1, <2>4, <2>5 DEF Restartable, Resumable
  <2>7. Only(k, w, r)
    BY <1>v, <2>1, <2>2 DEF PendingEffect, RestartEffect, Only, Kept
  <2>8. Steady(w, r) => Steady(h, r)
    BY <2>4, <2>5 DEF Steady
  <2>9. /\ Steady(w, r) => Steady(k, r)
        /\ k.at[r] \in Gone <=> w.at[r] \in Gone
    <3>1. k.at[r] \in Gone <=> w.at[r] \in Gone
      BY <2>2, <2>4 DEF RestartEffect, Gone
    <3> QED
      BY <2>2, <2>4, <2>8, <3>1, RestartSteady
  <2>10. Before(k)
    BY ZenonT(60), <1>1, <1>0, <2>2, <2>4, <2>5, <2>6, <2>7, <2>9
    DEF RestartEffect, SameLinks, Resumable, Restartable
  <2> QED
    BY <2>3, <2>10
<1>2. ASSUME ~n.proot, n.untold
      PROVE  Before(u)
  <2> DEFINE k == RestartTracee(v, r)
  <2>2. RestartEffect(k, v, r)
    BY <1>v, RestartTraceeEffect DEF Only
  <2>3. u = k
    BY <1>2
  <2> HIDE DEF u, h, k
  <2>4. v \in WorldType /\ v.at = w.at /\ v.stop = w.stop /\ v.poked = w.poked /\ v.tracer = w.tracer
    BY <1>v DEF SameStops, Only
  <2>5. /\ v.T[r].listed = n.listed /\ v.T[r].parent = n.parent
        /\ v.T[r].nb_ptracees = n.nb_ptracees /\ v.T[r].ptracer = NoProc
        /\ v.T[r].wait_pid = n.wait_pid /\ v.T[r].how = n.how /\ v.T[r].running = n.running
        /\ v.T[r].status = n.status
    BY <1>v, <1>t DEF SameSleep
  <2>6. Restartable(v, r) <=> Resumable(w, r)
    BY <1>2, <2>4, <2>5 DEF Restartable, Resumable
  <2>7. Only(k, w, r)
    BY <1>v, <2>2 DEF RestartEffect, Only, Kept
  <2>8. Steady(w, r) => Steady(v, r)
    BY <2>4, <2>5 DEF Steady
  <2>9. /\ Steady(w, r) => Steady(k, r)
        /\ k.at[r] \in Gone <=> w.at[r] \in Gone
    <3>1. k.at[r] \in Gone <=> w.at[r] \in Gone
      BY <2>2, <2>4 DEF RestartEffect, Gone
    <3> QED
      BY <2>2, <2>4, <2>8, <3>1, RestartSteady
  <2>10. Before(k)
    BY <1>2, <1>0, <2>2, <2>4, <2>5, <2>6, <2>7, <2>9
    DEF RestartEffect, SameLinks, Resumable, Restartable
  <2> QED
    BY <2>3, <2>10
<1>3. ASSUME ~n.proot, ~n.untold
      PROVE  Before(u)
  <2>1. u = v
    BY <1>3
  <2> HIDE DEF u, h
  <2>2. v.at = w.at /\ v.stop = w.stop /\ v.poked = w.poked /\ v.tracer = w.tracer
    BY <1>v DEF SameStops
  <2>3. Before(v)
    BY <1>0, <1>3, <1>t, <1>v, <2>2 DEF SameSleep, Resumable, Steady
  <2> QED
    BY <2>1, <2>3
<1>4. Before(u)
  BY <1>1, <1>2, <1>3
<1> HIDE DEF u, h
<1>5. m \in TraceeType
  BY <1>4 DEF Only, WorldType
<1> HIDE DEF m
<1>6. /\ s \in TraceeType /\ SameLinks(s, m) /\ SameSleep(s, m) /\ s.status = m.status
      /\ ~s.proot /\ ~s.untold /\ ~s.options
  BY <1>5 DEF TraceeType, SameLinks, SameSleep
<1>7. Release(w, r) = x
  <2> DEFINE m1 == [m EXCEPT !.proot = FALSE, !.untold = FALSE, !.tracing_started = FALSE]
             u1 == [u EXCEPT !.T[r] = m1]
  <2>1. [u EXCEPT !.T[r].proot = FALSE, !.T[r].untold = FALSE, !.T[r].tracing_started = FALSE]
          = u1
    BY DEF m
  <2>2. Release(w, r) = [[u EXCEPT !.T[r].proot = FALSE, !.T[r].untold = FALSE,
                                   !.T[r].tracing_started = FALSE] EXCEPT
                           !.T[r].ignore_syscalls = FALSE, !.T[r].options = FALSE]
    BY <1>e
  <2>3. u \in WorldType
    BY <1>4 DEF Only
  <2>5. s = [m1 EXCEPT !.ignore_syscalls = FALSE, !.options = FALSE]
    BY <1>5 DEF TraceeType
  <2> HIDE DEF m1, s
  <2>7. u1.T[r] = m1
    BY <2>3 DEF WorldType
  <2>4. [u1 EXCEPT !.T[r] = s] = x
    BY <2>3 DEF WorldType
  <2> HIDE DEF u1, x
  <2>6. [u1 EXCEPT !.T[r].ignore_syscalls = FALSE, !.T[r].options = FALSE]
          = [u1 EXCEPT !.T[r] = s]
    BY <2>7, <2>5
  <2> QED
    BY <2>1, <2>2, <2>4, <2>6
<1>8. Only(x, u, r) /\ x.T[r] = s /\ SameStops(x, u)
  BY <1>4, <1>6, PutTracee DEF Only, SameStops
<1> HIDE DEF x, s
<1>9. Only(x, w, r)
  BY <1>4, <1>8 DEF Only, Kept
<1>10. /\ x.T[r].listed = n.listed /\ x.T[r].parent = n.parent
       /\ x.T[r].nb_ptracees = n.nb_ptracees /\ x.T[r].ptracer = NoProc
       /\ x.T[r].wait_pid = n.wait_pid /\ x.T[r].status = u.T[r].status
       /\ x.T[r].running = u.T[r].running /\ x.T[r].how = u.T[r].how
  BY <1>4, <1>6, <1>8 DEF SameLinks, SameSleep, m
<1>11. Steady(u, r) => Steady(x, r)
  BY <1>8, <1>10, <1>4 DEF Steady, SameStops
<1> QED
  BY <1>4, <1>6, <1>7, <1>8, <1>9, <1>10, <1>11 DEF ReleaseEffect, SameStops

\* What the death of q does to r, before q leaves its own ptracer.
Orphaned(a, w, q, r) ==
    /\ a.T[r].listed = w.T[r].listed /\ a.T[r].nb_ptracees = w.T[r].nb_ptracees
    /\ a.T[r].ptracer = IF w.T[r].ptracer = q THEN NoProc ELSE w.T[r].ptracer
    /\ a.T[r].parent = IF w.T[r].parent = q THEN NoProc ELSE w.T[r].parent
    /\ a.T[r].wait_pid = w.T[r].wait_pid
    /\ a.zombies[r] = IF w.zombies[r].ptracer = q THEN NoZombie ELSE w.zombies[r]
    /\ w.T[r].ptracer = q =>
         /\ ~a.T[r].proot /\ ~a.T[r].untold /\ ~a.T[r].options
         /\ a.T[r].status = IF w.T[r].proot /\ w.at[r] \in {"enter", "exit"} THEN 1
                            ELSE w.T[r].status
         /\ IF Resumable(w, r)
              THEN /\ a.stop[r] = "no"
                   /\ a.at[r] = IF w.at[r] = "exit" THEN "user" ELSE w.at[r]
                   /\ a.T[r].running /\ ~a.T[r].how
              ELSE /\ a.stop[r] = w.stop[r] /\ a.at[r] = w.at[r]
                   /\ a.T[r].how = (w.T[r].how \/ w.T[r].proot)
                   /\ a.tracer = "traced" \/ a.T[r].running = w.T[r].running
    /\ w.T[r].ptracer # q =>
         /\ SameSleep(a.T[r], w.T[r]) /\ SamePtracee(a.T[r], w.T[r])
         /\ a.T[r].status = w.T[r].status
         /\ a.at[r] = w.at[r] /\ a.stop[r] = w.stop[r]

OrphanedEffect(a, w, q) ==
    /\ a \in WorldType /\ a.poked = w.poked /\ a.tracer \in {w.tracer, "traced"}
    /\ \A r \in Proc : Orphaned(a, w, q, r)

LEMMA ReleaseAllEffect ==
    ASSUME NEW w \in WorldType, NEW q \in Proc
    PROVE  /\ OrphanedEffect(ReleaseAll(w, q), w, q)
           /\ \A r \in Proc :
                /\ Steady(w, r) => Steady(ReleaseAll(w, q), r)
                /\ ReleaseAll(w, q).at[r] \in Gone <=> w.at[r] \in Gone
                /\ w.T[r] = NoTracee => ReleaseAll(w, q).T[r] = NoTracee
<1> DEFINE mine == {r \in Proc : w.T[r].ptracer = q}
           U(r) == Release(w, r)
           Orphan(t) == [t EXCEPT !.parent = IF @ = q THEN NoProc ELSE @]
           Old(r) == IF r \in mine THEN U(r).T[r] ELSE w.T[r]
           a == ReleaseAll(w, q)
<1>1. \A r \in Proc : ReleaseEffect(U(r), w, r) /\ U(r) \in WorldType
  BY ReleaseEffectHolds DEF ReleaseEffect, Only
<1>2. a = [w EXCEPT
             !.T = [r \in Proc |-> Orphan(Old(r))],
             !.at = [r \in Proc |-> IF r \in mine THEN U(r).at[r] ELSE w.at[r]],
             !.stop = [r \in Proc |-> IF r \in mine THEN U(r).stop[r] ELSE w.stop[r]],
             !.void = [r \in Proc |-> IF r \in mine THEN U(r).void[r] ELSE w.void[r]],
             !.zombies = [r \in Proc |-> IF w.zombies[r].ptracer = q THEN NoZombie
                                         ELSE w.zombies[r]],
             !.tracer = IF \E r \in mine : U(r).tracer = "traced" THEN "traced" ELSE w.tracer]
  BY DEF ReleaseAll
<1> HIDE DEF a, U
<1>3. \A r \in Proc : Old(r) \in TraceeType
  BY <1>1 DEF WorldType
<1>o. ASSUME NEW t \in TraceeType
      PROVE  /\ Orphan(t) \in TraceeType
             /\ Orphan(t).listed = t.listed /\ Orphan(t).nb_ptracees = t.nb_ptracees
             /\ Orphan(t).ptracer = t.ptracer
             /\ Orphan(t).parent = IF t.parent = q THEN NoProc ELSE t.parent
             /\ SameSleep(Orphan(t), t) /\ SamePtracee(Orphan(t), t)
             /\ Orphan(t).status = t.status
             /\ t.parent = NoProc => Orphan(t) = t
  BY DEF TraceeType, SameSleep, SamePtracee
<1>4. NoZombie \in ZombieType
  BY DEF NoZombie, ZombieType
<1>5. /\ a.T = [r \in Proc |-> Orphan(Old(r))]
      /\ a.at = [r \in Proc |-> IF r \in mine THEN U(r).at[r] ELSE w.at[r]]
      /\ a.stop = [r \in Proc |-> IF r \in mine THEN U(r).stop[r] ELSE w.stop[r]]
      /\ a.void = [r \in Proc |-> IF r \in mine THEN U(r).void[r] ELSE w.void[r]]
      /\ a.zombies = [r \in Proc |-> IF w.zombies[r].ptracer = q THEN NoZombie
                                     ELSE w.zombies[r]]
      /\ a.poked = w.poked
      /\ a.tracer = IF \E r \in mine : U(r).tracer = "traced" THEN "traced" ELSE w.tracer
      /\ a \in [T : {a.T}, zombies : {a.zombies}, at : {a.at}, stop : {a.stop},
                void : {a.void}, poked : {a.poked}, tracer : {a.tracer}]
  BY <1>2 DEF WorldType
<1> HIDE DEF Orphan, Old
<1>6. a \in WorldType
  <2>1. a.T \in [Proc -> TraceeType]
    BY <1>3, <1>5, <1>o
  <2>2. a.at \in [Proc -> Places] /\ a.stop \in [Proc -> {"no", "event", "taken"}]
        /\ a.void \in [Proc -> BOOLEAN]
    BY <1>1, <1>5 DEF WorldType
  <2>3. a.zombies \in [Proc -> ZombieType]
    BY <1>4, <1>5 DEF WorldType
  <2>4. a.poked \in [Proc -> BOOLEAN] /\ a.tracer \in {"running", "crashed", "traced"}
    BY <1>5 DEF WorldType
  <2>5. a = [T |-> a.T, zombies |-> a.zombies, at |-> a.at, stop |-> a.stop,
             void |-> a.void, poked |-> a.poked, tracer |-> a.tracer]
    BY <1>5
  <2> QED
    BY <2>1, <2>2, <2>3, <2>4, <2>5 DEF WorldType
<1>7. ASSUME NEW r \in Proc, w.T[r].ptracer # q
      PROVE  /\ Orphaned(a, w, q, r)
             /\ Steady(w, r) => Steady(a, r)
             /\ a.at[r] \in Gone <=> w.at[r] \in Gone
             /\ w.T[r] = NoTracee => a.T[r] = NoTracee
  <2>1. a.T[r] = Orphan(w.T[r]) /\ a.at[r] = w.at[r] /\ a.stop[r] = w.stop[r]
        /\ a.zombies[r] = IF w.zombies[r].ptracer = q THEN NoZombie ELSE w.zombies[r]
    BY <1>5, <1>7 DEF Old
  <2>2. w.T[r] \in TraceeType
    BY DEF WorldType
  <2>3. Orphaned(a, w, q, r)
    BY <1>7, <1>o, <2>1, <2>2 DEF Orphaned, SameSleep
  <2>4. Steady(w, r) => Steady(a, r)
    BY <1>o, <2>1, <2>2 DEF Steady, SameSleep
  <2>5. w.T[r] = NoTracee => a.T[r] = NoTracee
    BY <1>o, <2>1, <2>2 DEF NoTracee
  <2> QED
    BY <2>1, <2>3, <2>4, <2>5
<1>8. ASSUME NEW r \in Proc, w.T[r].ptracer = q
      PROVE  /\ Orphaned(a, w, q, r)
             /\ Steady(w, r) => Steady(a, r)
             /\ a.at[r] \in Gone <=> w.at[r] \in Gone
             /\ w.T[r] = NoTracee => a.T[r] = NoTracee
  <2> DEFINE u == U(r)
  <2>1. /\ a.T[r] = Orphan(u.T[r]) /\ a.at[r] = u.at[r] /\ a.stop[r] = u.stop[r]
        /\ a.zombies[r] = (IF w.zombies[r].ptracer = q THEN NoZombie ELSE w.zombies[r])
        /\ u.tracer = "traced" => a.tracer = "traced"
    BY <1>5, <1>8 DEF Old
  <2>2. ReleaseEffect(u, w, r) /\ u.T[r] \in TraceeType
    BY <1>1 DEF WorldType
  <2> HIDE DEF u
  <2>3. /\ a.T[r].listed = u.T[r].listed /\ a.T[r].nb_ptracees = u.T[r].nb_ptracees
        /\ a.T[r].ptracer = u.T[r].ptracer
        /\ a.T[r].parent = IF u.T[r].parent = q THEN NoProc ELSE u.T[r].parent
        /\ SameSleep(a.T[r], u.T[r]) /\ SamePtracee(a.T[r], u.T[r])
        /\ a.T[r].status = u.T[r].status
    BY <1>o, <2>1, <2>2
  <2>4. Orphaned(a, w, q, r)
    BY <1>8, <2>1, <2>2, <2>3 DEF Orphaned, ReleaseEffect, SameSleep, SamePtracee
  <2>5. Steady(w, r) => Steady(a, r)
    BY <2>1, <2>2, <2>3 DEF ReleaseEffect, Steady, SameSleep
  <2>6. w.T[r] # NoTracee
    BY <1>8, PtraceAssumption DEF NoTracee
  <2> QED
    BY <2>1, <2>2, <2>4, <2>5, <2>6 DEF ReleaseEffect
<1> QED
  BY <1>5, <1>6, <1>7, <1>8 DEF a, OrphanedEffect

\* What the ptracer p of the dead q becomes: counted, and woken if q was the
\* last it waited for.
PtracerAfter(l, a, p, q) ==
    /\ l.T[p].listed = a.T[p].listed /\ l.T[p].parent = a.T[p].parent
    /\ l.T[p].ptracer = a.T[p].ptracer /\ l.T[p].status = a.T[p].status
    /\ l.T[p].nb_ptracees = a.T[p].nb_ptracees - (IF a.T[q].untold THEN 0 ELSE 1)
    /\ l.T[p].nb_ptracees = 0 /\ ~a.T[q].untold => l.T[p].wait_pid = NoProc
    /\ SamePtracee(l.T[p], a.T[p])
    /\ \/ SameSleep(l.T[p], a.T[p]) /\ l.at[p] = a.at[p] /\ l.stop[p] = a.stop[p]
       \/ /\ a.T[p].wait_pid # NoProc /\ l.T[p].wait_pid = NoProc
          /\ IF a.T[p].how /\ a.stop[p] # "no" /\ a.at[p] # "dead"
               THEN /\ ~l.T[p].how /\ l.T[p].running /\ l.stop[p] = "no"
                    /\ l.at[p] = IF a.at[p] = "exit" THEN "user" ELSE a.at[p]
               ELSE /\ l.at[p] = a.at[p] /\ l.stop[p] = a.stop[p]
                    /\ l.T[p].how = a.T[p].how
                    /\ l.tracer = "traced" \/ l.T[p].running = a.T[p].running
    /\ Steady(a, p) => Steady(l, p)
    /\ l.at[p] \in Gone <=> a.at[p] \in Gone

LeaveEffect(l, a, p, q) ==
    /\ l \in WorldType /\ l.T[q] = NoTracee /\ l.poked = a.poked
    /\ l.tracer \in {a.tracer, "traced"}
    /\ l.at[q] = a.at[q] /\ l.stop[q] = a.stop[q]
    /\ \A x \in Proc \ {p, q} :
         l.T[x] = a.T[x] /\ l.at[x] = a.at[x] /\ l.stop[x] = a.stop[x]
    /\ p # NoProc => PtracerAfter(l, a, p, q)
    /\ l.zombies = IF p # NoProc /\ a.T[q].untold
                     THEN [a.zombies EXCEPT ![q] = [ptracer |-> p, parent |-> a.T[q].parent]]
                     ELSE a.zombies

LEMMA LeavePtracerEffect ==
    ASSUME NEW a \in WorldType, NEW q \in Proc, NEW p \in Proc \cup {NoProc}, p # q,
           a.T[q].ptracer = p, p # NoProc => a.T[p].nb_ptracees > 0
    PROVE  LeaveEffect(LeavePtracer(a, q), a, p, q)
<1> DEFINE l == LeavePtracer(a, q)
<1>n. NoTracee \in TraceeType
  BY DEF NoTracee, TraceeType
<1>f. ASSUME NEW w \in WorldType
      PROVE  LET f == Free(w, q)
             IN  /\ Only(f, w, q) /\ f.T[q] = NoTracee /\ SameStops(f, w)
  BY <1>n, PutTracee DEF Free, SameStops
<1>1. CASE p = NoProc
  <2> DEFINE f == Free(a, q)
  <2>1. l = f
    BY <1>1 DEF LeavePtracer
  <2>2. Only(f, a, q) /\ f.T[q] = NoTracee /\ SameStops(f, a)
    BY <1>f
  <2> HIDE DEF f
  <2>3. LeaveEffect(f, a, p, q)
    BY <1>1, <2>2 DEF Only, Kept, SameStops, LeaveEffect
  <2> QED
    BY <2>1, <2>3
<1>2. CASE p # NoProc /\ a.T[q].untold
  <2> DEFINE f == Free(a, q)
             b == [ptracer |-> p, parent |-> a.T[q].parent]
             k == [f EXCEPT !.zombies[q] = b]
  <2>1. l = k
    BY <1>2 DEF LeavePtracer
  <2>2. Only(f, a, q) /\ f.T[q] = NoTracee /\ SameStops(f, a)
    BY <1>f
  <2>3. b \in ZombieType
    BY <1>2 DEF WorldType, TraceeType, ZombieType
  <2> HIDE DEF f, b
  <2>4. /\ k \in WorldType /\ k.T = f.T /\ SameStops(k, f)
        /\ k.zombies = [f.zombies EXCEPT ![q] = b]
    BY <2>2, <2>3 DEF Only, WorldType, SameStops
  <2> HIDE DEF k
  <2>5. k.T[p] = a.T[p]
    BY <1>2, <2>2, <2>4 DEF Only, Kept
  <2>6. a.T[p].nb_ptracees - 0 = a.T[p].nb_ptracees
    BY <1>2 DEF WorldType, TraceeType
  <2>7. PtracerAfter(k, a, p, q)
    BY <1>2, <2>2, <2>4, <2>5, <2>6
    DEF PtracerAfter, SameStops, SameSleep, SamePtracee, Steady
  <2>8. LeaveEffect(k, a, p, q)
    BY <1>2, <2>2, <2>4, <2>7 DEF Only, Kept, SameStops, LeaveEffect, b
  <2> QED
    BY <2>1, <2>8
<1>3. CASE p # NoProc /\ ~a.T[q].untold
  <2> DEFINE d == DetachFromPtracer(a, q)
             v == Free(d, q)
             m == v.T[p]
             s == [m EXCEPT !.wait_pid = NoProc]
             k == [v EXCEPT !.T[p] = s]
             r == RestartTracee(k, p)
  <2>1. l = IF v.T[p].nb_ptracees = 0 /\ v.T[p].wait_pid # NoProc THEN r ELSE v
    BY <1>3 DEF LeavePtracer
  <2>2. DetachEffect(d, a, q, p)
    BY <1>3, DetachEffectHolds
  <2> HIDE DEF d
  <2>3. Only(v, d, q) /\ v.T[q] = NoTracee /\ SameStops(v, d)
    BY <1>f, <2>2 DEF DetachEffect
  <2> HIDE DEF v
  <2>4. /\ v \in WorldType /\ SameStops(v, a) /\ v.zombies = a.zombies
        /\ \A x \in Proc \ {p, q} : v.T[x] = a.T[x]
    BY <2>2, <2>3 DEF Only, Kept, DetachEffect, SameStops
  <2>5. /\ m.listed = a.T[p].listed /\ m.parent = a.T[p].parent
        /\ m.ptracer = a.T[p].ptracer /\ m.nb_ptracees = a.T[p].nb_ptracees - 1
        /\ SameSleep(m, a.T[p]) /\ SamePtracee(m, a.T[p]) /\ m.status = a.T[p].status
        /\ m \in TraceeType
    <3>1. v.T[p] = d.T[p]
      BY <1>3, <2>3 DEF Only, Kept
    <3> QED
      BY <1>3, <2>2, <2>4, <3>1 DEF DetachEffect, WorldType
  <2>6. ASSUME ~(v.T[p].nb_ptracees = 0 /\ v.T[p].wait_pid # NoProc)
        PROVE  PtracerAfter(v, a, p, q)
    BY <1>3, <2>4, <2>5, <2>6 DEF PtracerAfter, SameStops, SameSleep, Steady
  <2>7. ASSUME ~(v.T[p].nb_ptracees = 0 /\ v.T[p].wait_pid # NoProc)
        PROVE  LeaveEffect(v, a, p, q)
    BY <2>7,  <1>3, <2>3, <2>4, <2>6 DEF SameStops, LeaveEffect
  <2>8. ASSUME v.T[p].wait_pid # NoProc
        PROVE  LeaveEffect(r, a, p, q)
    <3> HIDE DEF m
    <3>1. /\ s \in TraceeType /\ SameLinks(s, m) /\ s.running = m.running /\ s.how = m.how
          /\ SamePtracee(s, m) /\ s.status = m.status /\ s.wait_pid = NoProc
      BY <2>5 DEF TraceeType, SameLinks, SamePtracee
    <3>2. Only(k, v, p) /\ k.T[p] = s /\ SameStops(k, v)
      BY <1>3, <2>4, <3>1, PutTracee DEF SameStops
    <3> HIDE DEF k
    <3>3. RestartEffect(r, k, p)
      BY <1>3, <3>2, RestartTraceeEffect DEF Only
    <3> HIDE DEF r, s
    <3>4. k \in WorldType /\ k.at = a.at /\ k.stop = a.stop /\ k.poked = a.poked
          /\ k.tracer = a.tracer /\ k.zombies = a.zombies
      BY <2>4, <3>2 DEF Only, SameStops
    <3>5. /\ k.T[p].listed = a.T[p].listed /\ k.T[p].parent = a.T[p].parent
          /\ k.T[p].ptracer = a.T[p].ptracer
          /\ k.T[p].nb_ptracees = a.T[p].nb_ptracees - 1
          /\ k.T[p].running = a.T[p].running /\ k.T[p].how = a.T[p].how
          /\ SamePtracee(k.T[p], a.T[p]) /\ k.T[p].status = a.T[p].status
          /\ k.T[p].wait_pid = NoProc
      BY <2>5, <3>1, <3>2 DEF SameLinks, SameSleep, SamePtracee
    <3>6. Restartable(k, p) <=> a.T[p].how /\ a.stop[p] # "no" /\ a.at[p] # "dead"
      BY <3>4, <3>5 DEF Restartable
    <3>7. Steady(a, p) => Steady(k, p)
      BY <3>4, <3>5 DEF Steady
    <3>8. r.at[p] \in Gone <=> a.at[p] \in Gone
      BY <3>3, <3>4 DEF RestartEffect, Gone
    <3>9. Steady(a, p) => Steady(r, p)
      BY <1>3, <3>3, <3>4, <3>7, RestartSteady
    <3>10. a.T[p].wait_pid # NoProc
      BY <2>5, <2>8 DEF SameSleep, m
    <3>11. PtracerAfter(r, a, p, q)
      BY <1>3, <3>3, <3>4, <3>5, <3>6, <3>8, <3>9, <3>10
      DEF RestartEffect, PtracerAfter, SameLinks, SamePtracee
    <3>12. ASSUME NEW x \in Proc \ {p}
           PROVE  r.T[x] = v.T[x] /\ r.at[x] = a.at[x] /\ r.stop[x] = a.stop[x]
      BY <3>2, <3>3, <3>4 DEF RestartEffect, Only, Kept
    <3>13. r \in WorldType /\ r.zombies = a.zombies /\ r.poked = a.poked
           /\ r.tracer \in {a.tracer, "traced"}
      BY <3>3, <3>4 DEF RestartEffect, Only
    <3> QED
      BY <1>3, <2>3, <2>4, <3>11, <3>12, <3>13 DEF LeaveEffect
  <2> HIDE DEF r
  <2> QED
    BY <2>1, <2>7, <2>8
<1> QED
  BY <1>1, <1>2, <1>3 DEF WorldType, TraceeType

RemoveEffect(z, l) ==
    /\ z \in WorldType /\ z.T = l.T /\ z.zombies = l.zombies
    /\ z.poked = l.poked /\ z.tracer = l.tracer

LEMMA RemoveTraceeEffect ==
    ASSUME NEW w, NEW q \in Proc, Good(w), Able(w, q)
    PROVE  LET p == w.T[q].ptracer
               a == ReleaseAll(w, q)
               l == LeavePtracer(a, q)
               z == RemoveTracee(w, q)
           IN  /\ OrphanedEffect(a, w, q)
               /\ LeaveEffect(l, a, p, q)
               /\ RemoveEffect(z, l)
               /\ z.at = [l.at EXCEPT ![q] = "zombie"] /\ z.stop = [l.stop EXCEPT ![q] = "no"]
<1> DEFINE p == w.T[q].ptracer
           a == ReleaseAll(w, q)
           l == LeavePtracer(a, q)
           z == RemoveTracee(w, q)
<1>1. OrphanedEffect(a, w, q)
  BY ReleaseAllEffect DEF Good
<1>2. p \in Proc \cup {NoProc} /\ p # q
  BY PtraceAssumption DEF Good, WorldType, TraceeType, Linked
<1> HIDE DEF a
<1>3. a \in WorldType /\ a.T[q].ptracer = p
  BY <1>1, <1>2 DEF OrphanedEffect, Orphaned
<1>4. p # NoProc => a.T[p].nb_ptracees > 0
  BY <1>1, <1>2, CountedOnes DEF OrphanedEffect, Orphaned
<1>5. LeaveEffect(l, a, p, q)
  BY <1>2, <1>3, <1>4, LeavePtracerEffect
<1>6. z = [l EXCEPT !.at[q] = "zombie", !.stop[q] = "no"]
  BY DEF RemoveTracee, a
<1> HIDE DEF l, z
<1>7. l \in WorldType
  BY <1>5 DEF LeaveEffect
<1>8. /\ RemoveEffect(z, l)
      /\ z.at = [l.at EXCEPT ![q] = "zombie"] /\ z.stop = [l.stop EXCEPT ![q] = "no"]
  BY <1>6, <1>7 DEF WorldType, RemoveEffect, Places
<1> QED
  BY <1>1, <1>5, <1>8 DEF a, l, z

LEMMA RemoveIsGood ==
    ASSUME NEW w, NEW q \in Proc, Good(w), Able(w, q)
    PROVE  Good(RemoveTracee(w, q))
<1> DEFINE p == w.T[q].ptracer
           a == ReleaseAll(w, q)
           l == LeavePtracer(a, q)
           z == RemoveTracee(w, q)
           told == p # NoProc /\ a.T[q].untold
<1>1. /\ OrphanedEffect(a, w, q)
      /\ LeaveEffect(l, a, p, q)
      /\ RemoveEffect(z, l)
      /\ z.at = [l.at EXCEPT ![q] = "zombie"] /\ z.stop = [l.stop EXCEPT ![q] = "no"]
  BY RemoveTraceeEffect
<1>2. \A r \in Proc :
        /\ Steady(w, r) => Steady(a, r)
        /\ a.at[r] \in Gone <=> w.at[r] \in Gone
        /\ w.T[r] = NoTracee => a.T[r] = NoTracee
  BY ReleaseAllEffect DEF Good
<1> HIDE DEF a, l, z
<1>w. /\ w \in WorldType /\ a \in WorldType /\ l \in WorldType /\ z \in WorldType
      /\ p \in Proc \cup {NoProc} /\ p # q
      /\ w.zombies[q].ptracer = NoProc
      /\ p # NoProc => Able(w, p)
  <2>1. w \in WorldType /\ Linked(w, q) /\ w.at[q] \notin Gone
    BY DEF Good, Able
  <2> QED
    BY <1>1, <2>1, PtraceAssumption
    DEF OrphanedEffect, LeaveEffect, RemoveEffect, Linked, WorldType, TraceeType, ZombieType
<1>3. ASSUME NEW x \in Proc \ {q}
      PROVE  /\ z.T[x].listed = w.T[x].listed
             /\ z.T[x].ptracer = (IF w.T[x].ptracer = q THEN NoProc ELSE w.T[x].ptracer)
             /\ z.T[x].parent = (IF w.T[x].parent = q THEN NoProc ELSE w.T[x].parent)
             /\ z.zombies[x] = (IF w.zombies[x].ptracer = q THEN NoZombie ELSE w.zombies[x])
             /\ z.at[x] \in Gone <=> w.at[x] \in Gone
             /\ Steady(z, x)
             /\ z.T[x].nb_ptracees = IF x # p \/ told THEN w.T[x].nb_ptracees
                                     ELSE w.T[x].nb_ptracees - 1
             /\ ~w.T[x].listed => z.T[x] = NoTracee
  <2>1. Orphaned(a, w, q, x) /\ Steady(w, x) /\ Linked(w, x)
    BY <1>1 DEF OrphanedEffect, Good
  <2>2. /\ z.T[x] = l.T[x] /\ z.at[x] = l.at[x] /\ z.stop[x] = l.stop[x]
        /\ z.zombies[x] = l.zombies[x] /\ l.zombies[x] = a.zombies[x]
    BY <1>1, <1>w DEF RemoveEffect, LeaveEffect, WorldType
  <2>3. Steady(a, x) /\ (a.at[x] \in Gone <=> w.at[x] \in Gone)
        /\ (~w.T[x].listed => a.T[x] = NoTracee)
    BY <1>2, <2>1 DEF Linked
  <2>4. CASE x # p
    <3>1. l.T[x] = a.T[x] /\ l.at[x] = a.at[x] /\ l.stop[x] = a.stop[x]
      BY <1>1, <2>4 DEF LeaveEffect
    <3>2. Steady(z, x)
      BY <2>2, <2>3, <3>1 DEF Steady
    <3> QED
      BY <2>1, <2>2, <2>3, <2>4, <3>1, <3>2 DEF Orphaned
  <2>5. CASE x = p
    <3>1. PtracerAfter(l, a, x, q) /\ w.T[x].listed
      BY <1>1, <1>w, <2>5, PtraceAssumption DEF LeaveEffect, Able
    <3>2. Steady(z, x)
      BY <2>2, <2>3, <3>1 DEF PtracerAfter, Steady
    <3>3. a.T[x].nb_ptracees \in Nat
      BY <1>w DEF WorldType, TraceeType
    <3>4. w.T[x].nb_ptracees \in Nat /\ a.T[x].nb_ptracees = w.T[x].nb_ptracees
      BY <2>1, <3>3 DEF Orphaned
    <3>5. z.T[x].nb_ptracees = IF told THEN w.T[x].nb_ptracees ELSE w.T[x].nb_ptracees - 1
      <4> DEFINE d == IF a.T[q].untold THEN 0 ELSE 1
      <4>1. z.T[x].nb_ptracees = a.T[x].nb_ptracees - d
        BY <2>2, <3>1 DEF PtracerAfter
      <4>2. d = IF told THEN 0 ELSE 1
        BY <1>w, <2>5, PtraceAssumption
      <4> HIDE DEF d, told
      <4> QED
        BY <3>4, <4>1, <4>2
    <3>6. z.at[x] \in Gone <=> w.at[x] \in Gone
      BY <2>2, <2>3, <3>1 DEF PtracerAfter
    <3>7. /\ z.T[x].listed = w.T[x].listed
          /\ z.T[x].ptracer = (IF w.T[x].ptracer = q THEN NoProc ELSE w.T[x].ptracer)
          /\ z.T[x].parent = (IF w.T[x].parent = q THEN NoProc ELSE w.T[x].parent)
          /\ z.zombies[x] = (IF w.zombies[x].ptracer = q THEN NoZombie ELSE w.zombies[x])
      BY <2>1, <2>2, <3>1 DEF Orphaned, PtracerAfter
    <3> HIDE DEF told
    <3> QED
      BY <2>5, <3>1, <3>2, <3>5, <3>6, <3>7
  <2> QED
    BY <2>4, <2>5
<1>4. /\ z.T[q] = NoTracee /\ z.at[q] = "zombie" /\ z.stop[q] = "no"
      /\ z.zombies[q].ptracer = IF told THEN p ELSE NoProc
  <2>1. z.T[q] = NoTracee /\ z.at[q] = "zombie" /\ z.stop[q] = "no"
    BY <1>1, <1>w DEF RemoveEffect, LeaveEffect, WorldType
  <2>2. a.zombies[q] = w.zombies[q] \/ a.zombies[q] = NoZombie
    BY <1>1 DEF OrphanedEffect, Orphaned
  <2>3. z.zombies = IF told THEN [a.zombies EXCEPT ![q] = [ptracer |-> p, parent |-> a.T[q].parent]]
                    ELSE a.zombies
    BY <1>1 DEF RemoveEffect, LeaveEffect
  <2>4. z.zombies[q].ptracer = IF told THEN p ELSE NoProc
    BY <1>w, <2>2, <2>3 DEF WorldType, NoZombie
  <2> QED
    BY <2>1, <2>4
<1> HIDE DEF told
<1>5. \A x \in Proc \ {q} : Able(w, x) => Able(z, x)
  BY <1>3 DEF Able
<1>6. ASSUME NEW x \in Proc
      PROVE  Linked(z, x)
  <2>1. CASE x = q
    <3>1. told => p # NoProc
      BY DEF told
    <3> QED
      BY <1>4, <1>5, <1>w, <2>1, <3>1, PtraceAssumption DEF Linked, NoTracee, Gone
  <2>2. CASE x # q
    <3>1. Linked(w, x)
      BY DEF Good
    <3>2. w.T[x].ptracer \in Proc \cup {NoProc} /\ w.T[x].parent \in Proc \cup {NoProc}
          /\ w.zombies[x].ptracer \in Proc \cup {NoProc}
      BY <1>w DEF WorldType, TraceeType, ZombieType
    <3>3. z.zombies[x].ptracer = IF w.zombies[x].ptracer = q THEN NoProc ELSE w.zombies[x].ptracer
      BY <1>3, <2>2 DEF NoZombie
    <3> HIDE DEF p
    <3> QED
      BY <1>3, <1>5, <2>2, <3>1, <3>2, <3>3, PtraceAssumption DEF Linked
  <2> QED
    BY <2>1, <2>2
<1>7. \A x \in Proc : Steady(z, x)
  BY <1>3, <1>4 DEF Steady, Gone, Live, NoTracee
<1>9. ASSUME NEW x \in Proc
      PROVE  Ordered(z, x)
  <2>1. CASE x = q
    BY <1>4, <2>1 DEF Ordered
  <2>2. CASE x # q
    <3>1. Orphaned(a, w, q, x) /\ Ordered(w, x)
      BY <1>1 DEF OrphanedEffect, Good
    <3>2. z.T[x] = l.T[x] /\ z.at[x] = l.at[x] /\ z.stop[x] = l.stop[x]
      BY <1>1, <1>w, <2>2 DEF RemoveEffect, WorldType
    <3>3. Ordered(a, x)
      <4>1. CASE w.T[x].ptracer = q
        BY <3>1, <4>1 DEF Orphaned, Ordered, Inherits
      <4>2. CASE w.T[x].ptracer # q
        BY <3>1, <4>2 DEF Orphaned, SamePtracee, Ordered, Inherits
      <4> QED
        BY <4>1, <4>2
    <3>4. CASE x # p
      BY <1>1, <2>2, <3>2, <3>3, <3>4 DEF LeaveEffect, Ordered, Inherits
    <3>5. CASE x = p
      <4>1. PtracerAfter(l, a, x, q)
        BY <1>1, <3>5, PtraceAssumption DEF LeaveEffect
      <4>2. l.at[x] = "note" /\ l.stop[x] = "event" => a.at[x] = "note" /\ a.stop[x] = "event"
        BY <4>1 DEF PtracerAfter
      <4> QED
        BY <3>2, <3>3, <4>1, <4>2 DEF PtracerAfter, SamePtracee, Ordered, Inherits
    <3> QED
      BY <3>4, <3>5
  <2> QED
    BY <2>1, <2>2
<1>8. ASSUME NEW x \in Proc
      PROVE  Counted(z, x)
  <2> DEFINE P == PtraceesIn(w, x)
             Z == ZombiesIn(w, x)
  <2>0. P \in SUBSET Proc /\ Z \in SUBSET Proc
    BY DEF PtraceesIn, ZombiesIn
  <2>9. Cardinality(P) \in Nat /\ Cardinality(Z) \in Nat
        /\ w.T[x].nb_ptracees = Cardinality(P) + Cardinality(Z)
    BY <2>0, CountMore DEF Good, Counted
  <2>z. \A y \in Proc \ {q} : z.zombies[y].ptracer
           = IF w.zombies[y].ptracer = q THEN NoProc ELSE w.zombies[y].ptracer
    BY <1>3 DEF NoZombie
  <2>1. CASE x = q
    <3>1. PtraceesIn(z, q) = {} /\ ZombiesIn(z, q) = {}
      BY <1>3, <1>4, <1>w, <2>z, PtraceAssumption DEF PtraceesIn, ZombiesIn, NoTracee
    <3> QED
      BY <1>4, <2>1, <3>1, FS_EmptySet DEF Counted, NoTracee
  <2>2. CASE x = p
    <3>1. PtraceesIn(z, x) = P \ {q} /\ q \in P
      BY <1>3, <1>4, <1>w, <2>2, PtraceAssumption DEF PtraceesIn, NoTracee
    <3>2. Cardinality(PtraceesIn(z, x)) = Cardinality(P) - 1 /\ Cardinality(P) > 0
      BY <2>0, <3>1, CountMore
    <3>3. CASE told
      <4>1. ZombiesIn(z, x) = Z \cup {q} /\ q \notin Z
        BY <1>4, <1>w, <2>2, <2>z, <3>3, PtraceAssumption DEF ZombiesIn
      <4>2. Cardinality(ZombiesIn(z, x)) = Cardinality(Z) + 1
        BY <2>0, <4>1, CountMore
      <4>3. z.T[x].nb_ptracees = w.T[x].nb_ptracees
        BY <1>3, <1>w, <2>2, <3>3
      <4> QED
        BY <2>9, <3>2, <4>2, <4>3 DEF Counted
    <3>4. CASE ~told
      <4>1. ZombiesIn(z, x) = Z
        BY <1>4, <1>w, <2>2, <2>z, <3>4, PtraceAssumption DEF ZombiesIn
      <4>3. z.T[x].nb_ptracees = w.T[x].nb_ptracees - 1
        BY <1>3, <1>w, <2>2, <3>4
      <4> QED
        BY <2>9, <3>2, <4>1, <4>3 DEF Counted
    <3> QED
      BY <3>3, <3>4
  <2>3. CASE x # q /\ x # p
    <3>1. PtraceesIn(z, x) = P
      BY <1>3, <1>4, <1>w, <2>3, PtraceAssumption DEF PtraceesIn, NoTracee
    <3>2. ZombiesIn(z, x) = Z
      BY <1>4, <1>w, <2>3, <2>z, PtraceAssumption DEF ZombiesIn
    <3>3. z.T[x].nb_ptracees = w.T[x].nb_ptracees
      BY <1>3, <2>3
    <3> QED
      BY <2>9, <3>1, <3>2, <3>3 DEF Counted
  <2> QED
    BY <2>1, <2>2, <2>3
<1> QED
  BY <1>w, <1>6, <1>7, <1>8, <1>9 DEF Good, z

\* No process appears, and none comes to the middle of a system call.
Onward(v, w) ==
    \A x \in Proc : /\ v.at[x] = "absent" <=> w.at[x] = "absent"
                    /\ v.at[x] = "note" => w.at[x] = "note"

LEMMA RemoveOnward ==
    ASSUME NEW w, NEW q \in Proc, Good(w), Able(w, q)
    PROVE  Onward(RemoveTracee(w, q), w)
<1> DEFINE p == w.T[q].ptracer
           a == ReleaseAll(w, q)
           l == LeavePtracer(a, q)
           z == RemoveTracee(w, q)
<1>1. /\ OrphanedEffect(a, w, q)
      /\ LeaveEffect(l, a, p, q)
      /\ z.at = [l.at EXCEPT ![q] = "zombie"]
  BY RemoveTraceeEffect
<1> HIDE DEF a, l, z
<1>2. w.at[q] # "absent"
  BY DEF Good, Steady, Able
<1>3. p \in Proc \cup {NoProc} /\ l.at \in [Proc -> Places]
  BY <1>1 DEF Good, WorldType, TraceeType, LeaveEffect
<1>4. ASSUME NEW x \in Proc
      PROVE  /\ z.at[x] = "absent" <=> w.at[x] = "absent"
             /\ z.at[x] = "note" => w.at[x] = "note"
  <2>1. a.at[x] \in {w.at[x], "user"} /\ (a.at[x] # w.at[x] => w.at[x] = "exit")
    BY <1>1 DEF OrphanedEffect, Orphaned
  <2>2. CASE x = q
    BY <1>1, <1>2, <1>3, <2>2
  <2>3. CASE x # q /\ x # p
    BY <1>1, <1>3, <2>1, <2>3 DEF LeaveEffect
  <2>4. CASE x # q /\ x = p
    <3>1. PtracerAfter(l, a, p, q)
      BY <1>1, <2>4, PtraceAssumption DEF LeaveEffect
    <3>2. l.at[x] \in {a.at[x], "user"} /\ (l.at[x] # a.at[x] => a.at[x] = "exit")
      BY <2>4, <3>1 DEF PtracerAfter
    <3> QED
      BY <1>1, <1>3, <2>1, <2>4, <3>2
  <2> QED
    BY <2>2, <2>3, <2>4
<1> QED
  BY <1>4 DEF Onward, z

-----------------------------------------------------------------------------
(***************************************************************************)
(* An iteration of event_loop.                                             *)
(***************************************************************************)
LEMMA TakenIsGood ==
    ASSUME NEW q \in Proc, Good(World), CallsTyped, \A x \in Proc : Forked(World, x), Event(q)
    PROVE  LET v == Taken(q)
           IN  CanHandle(v, q) /\ ForkSafe(v, q) /\ v.T[q].ptracer = T[q].ptracer /\ v.at = at
<1> DEFINE n == T[q]
           t == IF n.listed THEN n ELSE NewTracee
           s == [t EXCEPT !.running = FALSE]
           u == [World EXCEPT !.T[q] = s]
           v == [u EXCEPT !.stop[q] = "taken"]
<1>0. /\ World.T = T /\ World.at = at /\ World.stop = stop /\ World \in WorldType
      /\ n \in TraceeType
  BY DEF World, Good, WorldType
<1>1. /\ at[q] \notin Gone \cup {"absent"} /\ stop[q] = "event"
      /\ ~n.listed => n = NoTracee
  BY <1>0 DEF Event, Good, Steady, Linked
<1>2. Taken(q) = v
  BY <1>0 DEF Taken, WorldType
<1> HIDE DEF n
<1>3. /\ t \in TraceeType /\ t.listed /\ t.parent = n.parent /\ t.ptracer = n.ptracer
      /\ t.nb_ptracees = n.nb_ptracees /\ t.options = n.options
  <2>1. CASE n.listed
    BY <1>0, <2>1
  <2>2. CASE ~n.listed
    BY <1>1, <2>2 DEF TraceeType, NewTracee, NoTracee
  <2> QED
    BY <2>1, <2>2
<1> HIDE DEF t
<1>4. /\ s \in TraceeType /\ s.listed /\ s.parent = n.parent /\ s.ptracer = n.ptracer
      /\ s.nb_ptracees = n.nb_ptracees /\ s.options = n.options
  BY <1>3 DEF TraceeType
<1> HIDE DEF s
<1>5. Only(u, World, q) /\ u.T[q] = s /\ u.at = at /\ u.stop = stop
  BY <1>0, <1>4, PutTracee
<1> HIDE DEF u
<1>6. /\ v \in WorldType /\ v.T = u.T /\ v.at = at /\ v.zombies = u.zombies
      /\ v.poked = u.poked /\ v.stop = [stop EXCEPT ![q] = "taken"]
  BY <1>0, <1>5 DEF Only, WorldType
<1> HIDE DEF v
<1>7. Only(v, World, q)
  BY <1>0, <1>5, <1>6 DEF Only, Kept, WorldType
<1>8. v.T[q] = s /\ v.stop[q] = "taken"
  BY <1>0, <1>5, <1>6 DEF WorldType
<1>9. Steady(v, q) /\ Ordered(v, q)
  BY <1>1, <1>6, <1>8 DEF Steady, Ordered, Live
<1>10. Good(v) /\ SamePlaces(v, World)
  BY <1>0, <1>4, <1>6, <1>7, <1>8, <1>9, EnlistIsGood DEF n
<1>11. CanHandle(v, q)
  BY <1>1, <1>4, <1>6, <1>8, <1>10 DEF CanHandle, Able
<1>12. ForkSafe(World, q)
  BY <1>0, <1>1 DEF Good, Ordered, ForkSafe
<1>13. ForkSafe(v, q)
  BY <1>0, <1>4, <1>8, <1>10, <1>12, ForkSafeStays DEF n
<1> QED
  BY <1>2, <1>4, <1>6, <1>8, <1>11, <1>13 DEF n

LEMMA HandleAndRestartIsGood ==
    ASSUME NEW w, NEW q \in Proc, NEW first \in Proc, CanHandle(w, q), ForkSafe(w, q)
    PROVE  LET v == HandleAndRestart(w, q, first) IN Good(v) /\ Onward(v, w)
<1> DEFINE v == HandleTraceeEvent(w, q, first)
<1>1. Frame(v, w, q)
  BY HandleIsGood
<1> HIDE DEF v
<1>2. Good(v) /\ Able(v, q) /\ v.T[q].listed /\ Onward(v, w)
  BY <1>1 DEF Frame, SamePlaces, Onward, CanHandle, Able
<1>3. CASE w.at[q] = "dead"
  <2>1. HandleAndRestart(w, q, first) = RemoveTracee(v, q)
    BY <1>3 DEF HandleAndRestart, v
  <2> QED
    BY <1>2, <2>1, RemoveIsGood, RemoveOnward DEF Onward
<1>4. CASE w.at[q] # "dead"
  <2>1. HandleAndRestart(w, q, first) = RestartTracee(v, q)
    BY <1>4 DEF HandleAndRestart, v
  <2>2. Frame(RestartTracee(v, q), v, q)
    BY <1>2, RestartIsGood
  <2> QED
    BY <1>2, <2>1, <2>2 DEF Frame, SamePlaces, Onward
<1> QED
  BY <1>3, <1>4

-----------------------------------------------------------------------------
(***************************************************************************)
(* The inductive invariant.  A process that is not there yet is nobody's   *)
(* parent: what a fork makes descends from no one but its maker.           *)
(***************************************************************************)
Parents == \A x \in Proc : father[x] # NoProc => at[father[x]] # "absent"

Sound ==
    /\ menu \in Menus /\ twice \subseteq Proc
    /\ CallsTyped
    /\ father \in [Proc -> Proc \cup {NoProc}]
    /\ Good(World)
    /\ \A x \in Proc : Forked(World, x)
    /\ Parents

LEMMA SoundTyped == Sound => TypeOK
  BY DEF Sound, Good, World, WorldType, CallsTyped, TypeOK

LEMMA SoundCounts == Sound => CountAgrees
  BY DEF Sound, Good, World, Counted, PtraceesIn, ZombiesIn, CountAgrees

LEMMA BecomeIsSound ==
    ASSUME NEW w, Good(w), Onward(w, World), Sound, Become(w), menu' = menu,
           twice' \subseteq Proc
    PROVE  Sound'
<1>1. World' = w /\ father' = father
  BY DEF Become, World, Good, WorldType
<1>2. call' = [x \in Proc |-> IF w.at[x] = "user" THEN NoCall ELSE call[x]]
  BY DEF Become
<1>3. CallsTyped'
  BY <1>2 DEF Sound, CallsTyped, CallType, NoCall
<1>4. \A x \in Proc : w.at[x] = "note" => call'[x] = call[x]
  BY <1>2
<1> HIDE DEF World
<1>5. ASSUME NEW x \in Proc
      PROVE  /\ Linked(World, x)' /\ Steady(World, x)' /\ Counted(World, x)'
             /\ Ordered(World, x)' /\ Forked(World, x)'
  <2>1. Linked(w, x) /\ Steady(w, x) /\ Counted(w, x) /\ Ordered(w, x)
    BY DEF Good
  <2>2. Linked(World, x)' /\ Steady(World, x)'
    BY <1>1, <2>1 DEF Linked, Able, Steady
  <2>3. Counted(World, x)'
    BY <1>1, <2>1 DEF Counted, PtraceesIn, ZombiesIn
  <2>4. Ordered(World, x)'
    BY <1>1, <1>4, <2>1 DEF Ordered, Inherits, Elder
  <2>5. Forked(w, x)
    BY DEF Sound, Forked, Onward
  <2>6. Forked(World, x)'
    BY <1>1, <1>4, <2>5 DEF Forked
  <2> QED
    BY <2>2, <2>3, <2>4, <2>6
<1>6. Good(World)'
  BY <1>1, <1>5 DEF Good
<1>7. Parents'
  <2>1. at' = w.at /\ World.at = at
    BY DEF Become, World
  <2> QED
    BY <1>1, <2>1 DEF Parents, Onward, Sound
<1> QED
  BY <1>1, <1>3, <1>5, <1>6, <1>7 DEF Sound

\* What the kernel does changes no structure.
LEMMA KernelIsSound ==
    ASSUME Sound, T' = T, zombies' = zombies, tracer' = tracer, menu' = menu, twice' = twice,
           at' \in [Proc -> Places], stop' \in [Proc -> {"no", "event", "taken"}],
           call' \in [Proc -> CallType], void' \in [Proc -> BOOLEAN], poked' \in [Proc -> BOOLEAN],
           \A x \in Proc : /\ at'[x] \in Gone <=> at[x] \in Gone
                           /\ Steady(World, x)' /\ Ordered(World, x)' /\ Forked(World, x)',
           father' \in [Proc -> Proc \cup {NoProc}], Parents'
    PROVE  Sound'
<1>1. /\ World.T = T /\ World.zombies = zombies /\ World.at = at
      /\ World'.T = T /\ World'.zombies = zombies /\ World'.at = at'
  BY DEF World
<1>2. World' \in WorldType
  BY DEF World, Sound, Good, WorldType
<1> HIDE DEF World
<1>3. ASSUME NEW x \in Proc
      PROVE  Linked(World, x)' /\ Counted(World, x)'
  <2>1. /\ Linked(World, x) /\ Counted(World, x)
        /\ T[x].ptracer \in Proc \cup {NoProc} /\ T[x].parent \in Proc \cup {NoProc}
        /\ zombies[x].ptracer \in Proc \cup {NoProc}
    BY <1>1 DEF Sound, Good, WorldType, TraceeType, ZombieType
  <2>2. Linked(World, x)'
    BY <1>1, <2>1 DEF Linked, Able
  <2>3. Counted(World, x)'
    BY <1>1, <2>1 DEF Counted, PtraceesIn, ZombiesIn
  <2> QED
    BY <2>2, <2>3
<1>4. Good(World)'
  BY <1>2, <1>3 DEF Good
<1> QED
  BY <1>4 DEF Sound, CallsTyped

LEMMA StopIsSound ==
    ASSUME Sound, NEW p \in Proc, NEW place \in {"user", "enter", "note", "exit", "dead"},
           Stops(p, place), at[p] \notin Gone \cup {"absent"},
           place # "dead" => at[p] \in Live /\ stop[p] = "no",
           T' = T, zombies' = zombies, tracer' = tracer, menu' = menu, twice' = twice,
           father' = father,
           call' \in [Proc -> CallType], \A x \in Proc \ {p} : call'[x] = call[x],
           place = "note" => call'[p].op # "fork",
           void' \in [Proc -> BOOLEAN], poked' \in [Proc -> BOOLEAN]
    PROVE  Sound'
<1>1. /\ World.T = T /\ World.at = at /\ World.stop = stop
      /\ World'.T = T /\ World'.at = at' /\ World'.stop = stop'
  BY DEF World
<1>2. /\ at \in [Proc -> Places] /\ stop \in [Proc -> {"no", "event", "taken"}]
  BY <1>1 DEF Sound, Good, WorldType
<1>3. /\ at' \in [Proc -> Places] /\ stop' \in [Proc -> {"no", "event", "taken"}]
      /\ at'[p] = place /\ stop'[p] = "event"
      /\ \A x \in Proc \ {p} : at'[x] = at[x] /\ stop'[x] = stop[x]
  BY <1>2 DEF Stops, Places
<1> HIDE DEF World
<1>4. ASSUME NEW x \in Proc
      PROVE  /\ at'[x] \in Gone <=> at[x] \in Gone
             /\ at'[x] = "absent" <=> at[x] = "absent"
             /\ Steady(World, x)' /\ Ordered(World, x)'
  <2>1. Steady(World, x) /\ Ordered(World, x)
    BY DEF Sound, Good
  <2>2. CASE x = p
    BY <1>1, <1>3, <2>1, <2>2 DEF Steady, Ordered, Inherits, Live, Gone
  <2>3. CASE x # p
    BY <1>1, <1>3, <2>1, <2>3 DEF Steady, Ordered, Inherits, Elder
  <2> QED
    BY <2>2, <2>3
<1>5. ASSUME NEW x \in Proc
      PROVE  Forked(World, x)'
  <2>1. CASE x = p
    BY <1>1, <1>3, <2>1 DEF Forked
  <2>2. CASE x # p
    BY <1>1, <1>3, <1>4, <2>2 DEF Sound, Forked
  <2> QED
    BY <2>1, <2>2
<1>6. Parents' /\ father' \in [Proc -> Proc \cup {NoProc}]
  BY <1>4 DEF Sound, Parents
<1> QED
  BY <1>3, <1>4, <1>5, <1>6, KernelIsSound

LEMMA CollectIsSound ==
    ASSUME Sound, NEW p \in Proc, NEW q \in Proc, Collect(p, q), menu' = menu
    PROVE  Sound'
<1>1. /\ World.T = T /\ World.at = at /\ World.stop = stop
      /\ World'.T = T' /\ World'.at = at' /\ World'.stop = stop'
      /\ World.void = void /\ World.poked = poked
  BY DEF World
<1>2. /\ at \in [Proc -> Places] /\ stop \in [Proc -> {"no", "event", "taken"}]
      /\ void \in [Proc -> BOOLEAN] /\ poked \in [Proc -> BOOLEAN]
  BY <1>1 DEF Sound, Good, WorldType
<1>3. /\ UNCHANGED <<call, void, poked, father, T, zombies, tracer, twice>>
      /\ stop[p] = "no" /\ at[p] \in {"enter", "note"} /\ at[q] = "zombie" /\ p # q
  BY DEF Collect, InCall, Runs
<1>4. /\ at' \in [Proc -> Places] /\ stop' \in [Proc -> {"no", "event", "taken"}]
      /\ at'[p] = "exit" /\ at'[q] = "gone" /\ stop'[p] = "event" /\ stop'[q] = stop[q]
      /\ \A x \in Proc \ {p, q} : at'[x] = at[x] /\ stop'[x] = stop[x]
  BY <1>2, <1>3 DEF Collect, Places
<1> HIDE DEF World
<1>5. ASSUME NEW x \in Proc
      PROVE  /\ at'[x] \in Gone <=> at[x] \in Gone
             /\ at'[x] = "absent" <=> at[x] = "absent"
             /\ Steady(World, x)' /\ Ordered(World, x)'
  <2>1. Steady(World, x) /\ Ordered(World, x)
    BY DEF Sound, Good
  <2>2. CASE x = p \/ x = q
    BY <1>1, <1>3, <1>4, <2>1, <2>2 DEF Steady, Ordered, Inherits, Live, Gone
  <2>3. CASE x # p /\ x # q
    BY <1>1, <1>3, <1>4, <2>1, <2>3 DEF Steady, Ordered, Inherits, Elder
  <2> QED
    BY <2>2, <2>3
<1>6. ASSUME NEW x \in Proc
      PROVE  Forked(World, x)'
  BY <1>1, <1>3, <1>4, <1>5 DEF Sound, Forked
<1>7. Parents' /\ father' \in [Proc -> Proc \cup {NoProc}]
  BY <1>3, <1>5 DEF Sound, Parents
<1>8. call' \in [Proc -> CallType]
  BY <1>3 DEF Sound, CallsTyped
<1> QED
  BY <1>2, <1>3, <1>4, <1>5, <1>6, <1>7, <1>8, KernelIsSound

\* A new process is apart from every descent that is there.
LEMMA ForkIsSound ==
    ASSUME Sound, NEW p \in Proc, NEW c \in Proc, Fork(p, c), menu' = menu
    PROVE  Sound'
<1>1. /\ World.T = T /\ World.at = at /\ World.stop = stop
      /\ World'.T = T' /\ World'.at = at' /\ World'.stop = stop'
      /\ World.void = void /\ World.poked = poked
  BY DEF World
<1>2. /\ at \in [Proc -> Places] /\ stop \in [Proc -> {"no", "event", "taken"}]
      /\ void \in [Proc -> BOOLEAN] /\ poked \in [Proc -> BOOLEAN]
      /\ call \in [Proc -> CallType] /\ father \in [Proc -> Proc \cup {NoProc}]
  BY <1>1 DEF Sound, Good, WorldType, CallsTyped
<1>3. /\ UNCHANGED <<void, poked, T, zombies, tracer, twice>>
      /\ stop[p] = "no" /\ at[p] = "enter" /\ at[c] = "absent" /\ p # c
  BY DEF Fork, InCall, Runs
<1>4. /\ at' \in [Proc -> Places] /\ stop' \in [Proc -> {"no", "event", "taken"}]
      /\ at'[p] = "note" /\ at'[c] = "user" /\ stop'[p] = "event" /\ stop'[c] = "event"
      /\ \A x \in Proc \ {p, c} : at'[x] = at[x] /\ stop'[x] = stop[x]
  BY <1>2, <1>3 DEF Fork, Places
<1>5. /\ call' \in [Proc -> CallType] /\ call'[p].op = "fork" /\ call'[p].pid = c
      /\ \A x \in Proc \ {p} : call'[x] = call[x]
  BY <1>2 DEF Fork, CallType
<1>6. father' = [father EXCEPT ![c] = p]
  BY DEF Fork
<1>7. father' \in [Proc -> Proc \cup {NoProc}] /\ father'[c] = p
      /\ \A x \in Proc \ {c} : father'[x] = father[x]
  BY <1>2, <1>6
<1>8. \A x \in Proc : father[x] # c
  BY <1>3, PtraceAssumption DEF Sound, Parents
<1> HIDE DEF World
<1>9. ASSUME NEW r \in Proc, r # c
      PROVE  /\ Elder(r, c)'
             /\ \A x \in Proc : Elder(r, x) => Elder(r, x)'
  <2>1. Elder(r, c)'
    <3> DEFINE D == {c}
    <3>1. D \in SUBSET Proc /\ c \in D /\ r \notin D
      BY <1>9
    <3>2. \A y \in Proc : father'[y] \in D => y \in D
      BY <1>3, <1>7, <1>8
    <3> QED
      BY <3>1, <3>2 DEF Elder
  <2>2. ASSUME NEW x \in Proc, Elder(r, x)
        PROVE  Elder(r, x)'
    <3>1. PICK D \in SUBSET Proc : /\ x \in D /\ r \notin D
                                   /\ \A y \in Proc : father[y] \in D => y \in D
      BY <2>2 DEF Elder
    <3> DEFINE E == D \cup {c}
    <3>2. E \in SUBSET Proc /\ x \in E /\ r \notin E
      BY <1>9, <3>1
    <3>3. \A y \in Proc : father'[y] \in E => y \in E
      BY <1>7, <1>8, <3>1
    <3> HIDE DEF E
    <3> QED
      BY <3>2, <3>3 DEF Elder
  <2> QED
    BY <2>1, <2>2
<1>10. ASSUME NEW x \in Proc
       PROVE  /\ at'[x] \in Gone <=> at[x] \in Gone
              /\ at[x] # "absent" => at'[x] # "absent"
              /\ Steady(World, x)'
  <2>1. Steady(World, x)
    BY DEF Sound, Good
  <2>2. CASE x = p \/ x = c
    BY <1>1, <1>3, <1>4, <2>1, <2>2 DEF Steady, Live, Gone
  <2>3. CASE x # p /\ x # c
    BY <1>1, <1>3, <1>4, <2>1, <2>3 DEF Steady
  <2> QED
    BY <2>2, <2>3
<1>11. ASSUME NEW x \in Proc
       PROVE  Forked(World, x)'
  <2>1. CASE x = p
    BY <1>1, <1>3, <1>4, <1>5, <1>7, <2>1 DEF Forked
  <2>2. CASE x # p
    <3>1. Forked(World, x) /\ (at'[x] = "note" => at[x] = "note") /\ call'[x] = call[x]
      BY <1>4, <1>5, <2>2 DEF Sound
    <3>2. at[x] = "note" /\ call[x].op = "fork" =>
            call[x].pid # c
      BY <1>1, <1>3, <3>1 DEF Forked
    <3> QED
      BY <1>1, <1>7, <1>10, <3>1, <3>2 DEF Forked
  <2> QED
    BY <2>1, <2>2
<1>12. ASSUME NEW x \in Proc
       PROVE  Ordered(World, x)'
  <2>1. ASSUME T[x].ptracer # NoProc
        PROVE  T[x].ptracer \in Proc \ {c}
    <3>1. Linked(World, x) /\ Steady(World, c) /\ T[x].ptracer \in Proc \cup {NoProc}
      BY <1>1 DEF Sound, Good, WorldType, TraceeType
    <3> QED
      BY <1>1, <1>3, <2>1, <3>1 DEF Linked, Able, Steady
  <2>2. CASE x = p
    BY <1>1, <1>3, <1>5, <1>9, <2>1, <2>2 DEF Ordered, Inherits
  <2>3. CASE x # p
    <3>1. Ordered(World, x) /\ Forked(World, x) /\ call'[x] = call[x]
          /\ (at'[x] = "note" => at[x] = "note" /\ stop'[x] = stop[x])
      BY <1>4, <1>5, <2>3 DEF Sound, Good
    <3> QED
      BY <1>1, <1>3, <1>9, <2>1, <3>1 DEF Ordered, Inherits, Forked
  <2> QED
    BY <2>2, <2>3
<1>13. Parents'
  <2>1. ASSUME NEW x \in Proc, father'[x] # NoProc
        PROVE  at'[father'[x]] # "absent"
    <3>1. CASE x = c
      BY <1>4, <1>7, <3>1
    <3>2. CASE x # c
      BY <1>2, <1>7, <1>10, <2>1, <3>2 DEF Sound, Parents
    <3> QED
      BY <3>1, <3>2
  <2> QED
    BY <2>1 DEF Parents
<1> QED
  BY <1>2, <1>3, <1>4, <1>5, <1>7, <1>10, <1>11, <1>12, <1>13, KernelIsSound

LEMMA CanHandleStays ==
    ASSUME NEW v, NEW w, NEW q \in Proc, CanHandle(w, q), ForkSafe(w, q), Frame(v, w, q),
           v.T[q].ptracer \in {w.T[q].ptracer, NoProc}
    PROVE  CanHandle(v, q) /\ ForkSafe(v, q)
<1>1. CanHandle(v, q)
  BY DEF Frame, SamePlaces, CanHandle, Able
<1>2. ForkSafe(v, q)
  BY ForkSafeStays DEF Frame
<1> QED
  BY <1>1, <1>2

\* What the three kinds of an iteration make of the world.
LEMMA IterationIsGood ==
    ASSUME Sound, NEW q \in Proc, NEW first \in Proc,
           HandleTracee(q, first) \/ HandlePtracee(q, first) \/ HandleAwaited(q, first)
    PROVE  \E w : Good(w) /\ Onward(w, World) /\ Become(w)
<1> DEFINE t == Taken(q)
           v == Notified(t, q, first)
<1>1. /\ CanHandle(t, q) /\ ForkSafe(t, q) /\ t.T[q].ptracer = T[q].ptracer /\ t.at = World.at
  BY TakenIsGood DEF Sound, HandleTracee, HandlePtracee, HandleAwaited, World
<1>2. \A w : Onward(w, t) => Onward(w, World)
  BY <1>1 DEF Onward
<1>3. CASE HandleTracee(q, first)
  <2> DEFINE w == HandleAndRestart(t, q, first)
  <2>1. Good(w) /\ Onward(w, t)
    BY <1>1, HandleAndRestartIsGood
  <2>2. Become(w)
    BY <1>3 DEF HandleTracee
  <2> HIDE DEF w, t
  <2> QED
    BY <1>2, <2>1, <2>2
<1>4. Frame(v, t, q)
  BY <1>1, NotifiedIsGood
<1>5. ASSUME T[q].ptracer # NoProc
      PROVE  CanHandle(v, q) /\ ForkSafe(v, q) /\ v.T[q].ptracer = T[q].ptracer
  <2> HIDE DEF v, t
  <2> QED
    BY <1>1, <1>4, <1>5, CanHandleStays DEF Frame
<1>6. Onward(v, t)
  BY <1>4 DEF Frame, SamePlaces, Onward
<1>7. CASE HandlePtracee(q, first)
  <2> DEFINE w == IF v.at[q] = "dead" THEN HandleAndRestart(v, q, first) ELSE v
  <2>1. Become(w) /\ T[q].ptracer # NoProc
    BY <1>7 DEF HandlePtracee
  <2> HIDE DEF t
  <2>2. CanHandle(v, q) /\ ForkSafe(v, q)
    BY <1>5, <2>1
  <2> HIDE DEF v
  <2>3. Good(w) /\ Onward(w, v)
    BY <2>2, HandleAndRestartIsGood DEF CanHandle, Onward
  <2> HIDE DEF w
  <2>4. Onward(w, t)
    BY <1>6, <2>3 DEF Onward
  <2> QED
    BY <1>2, <2>1, <2>3, <2>4
<1>8. CASE HandleAwaited(q, first)
  <2> DEFINE p == T[q].ptracer
             u == Woken(v, q)
             x == RestartTracee(u, p)
             w == IF v.at[q] = "dead" \/ ~Restartable(u, p) THEN HandleAndRestart(x, q, first)
                  ELSE x
  <2>1. Become(w) /\ p # NoProc
    BY <1>8 DEF HandleAwaited
  <2> HIDE DEF t
  <2>2. CanHandle(v, q) /\ ForkSafe(v, q) /\ v.T[q].ptracer = p /\ Good(v)
    BY <1>5, <2>1 DEF CanHandle
  <2> HIDE DEF v
  <2>3. p \in Proc /\ p # q /\ v.T[p].listed
    BY <2>1, <2>2 DEF Good, WorldType, TraceeType, Linked, Able
  <2> HIDE DEF p
  <2>4. Good(u) /\ SamePlaces(u, v) /\ WokenEffect(u, v, p, q)
    BY <2>2, <2>3, WokenIsGood
  <2> HIDE DEF u
  <2>5. u.T[p].listed /\ u.T[q].listed = v.T[q].listed /\ u.T[q].options = v.T[q].options
        /\ u.T[q].ptracer \in {v.T[q].ptracer, NoProc}
    BY <2>3, <2>4 DEF WokenEffect
  <2>6. Frame(x, u, q)
    BY <2>3, <2>4, <2>5, RestartIsGood
  <2>7. x.T[q] = u.T[q]
    <3>1. RestartEffect(x, u, p)
      BY <2>3, <2>4, RestartTraceeEffect DEF Good
    <3> QED
      BY <2>3, <3>1 DEF RestartEffect, Only, Kept
  <2> HIDE DEF x
  <2>8. SamePlaces(x, v) /\ Good(x)
    BY <2>4, <2>6 DEF Frame, SamePlaces
  <2>9. CanHandle(x, q) /\ ForkSafe(x, q)
    <3>1. CanHandle(x, q)
      BY <2>2, <2>5, <2>7, <2>8 DEF CanHandle, Able, SamePlaces
    <3>2. ForkSafe(x, q)
      BY <2>2, <2>5, <2>7, <2>8, ForkSafeStays
    <3> QED
      BY <3>1, <3>2
  <2>10. Good(w) /\ Onward(w, x)
    BY <2>8, <2>9, HandleAndRestartIsGood DEF Onward
  <2> HIDE DEF w
  <2>11. Onward(w, t)
    BY <1>6, <2>8, <2>10 DEF Onward, SamePlaces
  <2> QED
    BY <1>2, <2>1, <2>10, <2>11
<1> QED
  BY <1>3, <1>7, <1>8

LEMMA InitIsSound == Init => Sound
<1> SUFFICES ASSUME Init PROVE Sound
  OBVIOUS
<1>0. NewTracee \in TraceeType /\ NoTracee \in TraceeType /\ NoZombie \in ZombieType
      /\ NoCall \in CallType /\ \A f \in Proc \cup {NoProc} :
           [NewTracee EXCEPT !.running = TRUE, !.parent = f] \in TraceeType
  BY DEF NewTracee, NoTracee, TraceeType, NoZombie, ZombieType, NoCall, CallType
<1>1. \A x \in Proc : Father[x] \in Initial \cup {NoProc} /\ Father[x] # x
  BY PtraceAssumption
<1>i. Initial \subseteq Proc /\ NoProc \notin Proc
  BY PtraceAssumption
<1>2. World \in WorldType /\ CallsTyped /\ father \in [Proc -> Proc \cup {NoProc}]
  <2>1. T \in [Proc -> TraceeType]
    BY <1>0, <1>1, <1>i DEF Init
  <2>2. at \in [Proc -> Places] /\ zombies \in [Proc -> ZombieType]
        /\ stop \in [Proc -> {"no", "event", "taken"}] /\ void \in [Proc -> BOOLEAN]
        /\ poked \in [Proc -> BOOLEAN] /\ tracer \in {"running", "crashed", "traced"}
    BY <1>0 DEF Init, Places
  <2>3. CallsTyped /\ father \in [Proc -> Proc \cup {NoProc}]
    BY <1>0, <1>i, PtraceAssumption DEF Init, CallsTyped
  <2> QED
    BY <2>1, <2>2, <2>3 DEF World, WorldType
<1>3. ASSUME NEW x \in Proc
      PROVE  /\ T[x].listed <=> x \in Initial
             /\ x \notin Initial => T[x] = NoTracee
             /\ T[x].running <=> x \in Initial
             /\ T[x].parent \in {NoProc, Father[x]} /\ T[x].ptracer = NoProc
             /\ T[x].nb_ptracees = 0
             /\ zombies[x].ptracer = NoProc /\ stop[x] = "no" /\ call[x].op = "plain"
             /\ at[x] = (IF x \in Initial THEN "user" ELSE "absent")
             /\ father[x] = Father[x]
  <2>1. CASE x \in Initial
    BY <2>1 DEF Init, NewTracee, NoTracee, NoZombie, NoCall
  <2>2. CASE x \notin Initial
    BY <2>2 DEF Init, NoTracee, NoZombie, NoCall
  <2> QED
    BY <2>1, <2>2
<1>4. /\ World.T = T /\ World.at = at /\ World.stop = stop /\ World.zombies = zombies
  BY DEF World
<1> HIDE DEF World
<1>5. ASSUME NEW x \in Proc
      PROVE  /\ Linked(World, x) /\ Steady(World, x) /\ Counted(World, x)
             /\ Ordered(World, x) /\ Forked(World, x)
  <2>1. Linked(World, x)
    BY <1>1, <1>i, <1>3, <1>4 DEF Linked, Able, Gone
  <2>2. Steady(World, x) /\ Ordered(World, x) /\ Forked(World, x)
    BY <1>3, <1>4 DEF Steady, Ordered, Forked, Live, Gone
  <2>3. PtraceesIn(World, x) = {} /\ ZombiesIn(World, x) = {}
    BY <1>i, <1>3, <1>4 DEF PtraceesIn, ZombiesIn
  <2>4. Counted(World, x)
    BY <1>3, <1>4, <2>3, FS_EmptySet DEF Counted
  <2> QED
    BY <2>1, <2>2, <2>4
<1>6. Parents
  BY <1>1, <1>i, <1>3 DEF Parents
<1> QED
  BY <1>2, <1>5, <1>6 DEF Sound, Good, Init

LEMMA NextIsSound == Sound /\ [Next]_vars => Sound'
<1> SUFFICES ASSUME Sound, [Next]_vars PROVE Sound'
  OBVIOUS
<1>0. /\ at \in [Proc -> Places] /\ stop \in [Proc -> {"no", "event", "taken"}]
      /\ void \in [Proc -> BOOLEAN] /\ poked \in [Proc -> BOOLEAN]
      /\ call \in [Proc -> CallType] /\ menu \in [Proc -> SUBSET CallType]
      /\ \A x \in Proc : at[x] \in Live => at[x] \notin Gone \cup {"absent"}
  BY SoundTyped, PtraceAssumption DEF TypeOK, Live, Gone
<1>1. ASSUME NEW p \in Proc, NEW c \in menu[p], Call(p, c), menu' = menu
      PROVE  Sound'
  <2>1. c \in CallType /\ Stops(p, "enter") /\ at[p] \in Live /\ stop[p] = "no"
        /\ call' = [call EXCEPT ![p] = c] /\ void' = [void EXCEPT ![p] = FALSE]
        /\ UNCHANGED <<poked, father, T, zombies, tracer, twice>>
    BY <1>0, <1>1 DEF Call, InUser, Runs, Live
  <2> QED
    BY <1>0, <1>1, <2>1, StopIsSound
<1>2. ASSUME NEW p \in Proc, Again(p), menu' = menu
      PROVE  Sound'
  <2>1. Stops(p, "enter") /\ at[p] \in Live /\ stop[p] = "no"
        /\ void' = [void EXCEPT ![p] = FALSE]
        /\ UNCHANGED <<call, poked, father, T, zombies, tracer, twice>>
    BY <1>2 DEF Again, Runs, Live
  <2> QED
    BY <1>0, <1>2, <2>1, StopIsSound
<1>3. ASSUME NEW p \in Proc, Signal(p), menu' = menu
      PROVE  Sound'
  <2>1. Stops(p, "user") /\ at[p] \in Live /\ stop[p] = "no"
        /\ poked' = [poked EXCEPT ![p] = FALSE]
        /\ UNCHANGED <<call, void, father, T, zombies, tracer, twice>>
    BY <1>3 DEF Signal, InUser, Runs, Live
  <2> QED
    BY <1>0, <1>3, <2>1, StopIsSound
<1>4. ASSUME NEW p \in Proc, Note(p), menu' = menu
      PROVE  Sound'
  <2>1. Stops(p, "note") /\ at[p] \in Live /\ stop[p] = "no" /\ call[p].op # "fork"
        /\ UNCHANGED <<call, void, poked, father, T, zombies, tracer, twice>>
    BY <1>4 DEF Note, InCall, Runs, Live
  <2> QED
    BY <1>0, <1>4, <2>1, StopIsSound
<1>5. ASSUME NEW p \in Proc, Return(p), menu' = menu
      PROVE  Sound'
  <2>1. Stops(p, "exit") /\ at[p] \in Live /\ stop[p] = "no"
        /\ UNCHANGED <<call, void, poked, father, T, zombies, tracer, twice>>
    BY <1>5 DEF Return, InCall, Runs, Live
  <2> QED
    BY <1>0, <1>5, <2>1, StopIsSound
<1>6. ASSUME NEW p \in Proc, Killed(p), menu' = menu
      PROVE  Sound'
  <2>1. Stops(p, "dead") /\ at[p] \notin Gone \cup {"absent"}
        /\ call' = [call EXCEPT ![p] = NoCall] /\ NoCall \in CallType
        /\ void' = [void EXCEPT ![p] = FALSE] /\ poked' = [poked EXCEPT ![p] = FALSE]
        /\ UNCHANGED <<father, T, zombies, tracer, twice>>
    BY <1>6 DEF Killed, Gone, NoCall, CallType
  <2> QED
    BY <1>0, <1>6, <2>1, StopIsSound
<1>7. ASSUME NEW p \in Proc, Kernel(p), menu' = menu
      PROVE  Sound'
  BY <1>1, <1>2, <1>3, <1>4, <1>5, <1>6, <1>7, ForkIsSound, CollectIsSound DEF Kernel
<1>8. ASSUME NEW q \in Proc, Iteration(q), menu' = menu
      PROVE  Sound'
  <2>1. PICK first \in Proc :
          HandleTracee(q, first) \/ HandlePtracee(q, first) \/ HandleAwaited(q, first)
    BY <1>8 DEF Iteration
  <2>2. PICK w : Good(w) /\ Onward(w, World) /\ Become(w)
    BY <2>1, IterationIsGood
  <2>3. twice' \subseteq Proc
    BY <2>1 DEF Sound, HandleTracee, HandlePtracee, HandleAwaited
  <2> QED
    BY <1>8, <2>2, <2>3, BecomeIsSound
<1>9. CASE UNCHANGED vars
  <2>1. UNCHANGED <<at, stop, call, void, poked, father, T, zombies, tracer, menu, twice>>
    BY <1>9 DEF vars
  <2>2. World' = World
    BY <2>1 DEF World
  <2>3. ASSUME NEW x \in Proc
        PROVE  Steady(World, x)' /\ Ordered(World, x)' /\ Forked(World, x)'
    <3>1. Steady(World, x) /\ Ordered(World, x) /\ Forked(World, x)
      BY DEF Sound, Good
    <3> HIDE DEF World
    <3> QED
      BY <2>1, <2>2, <3>1 DEF Steady, Ordered, Inherits, Elder, Forked
  <2>4. Parents' /\ father' \in [Proc -> Proc \cup {NoProc}]
    BY <2>1 DEF Sound, Parents
  <2> QED
    BY <1>0, <2>1, <2>3, <2>4, KernelIsSound
<1> QED
  BY <1>7, <1>8, <1>9 DEF Next

(***************************************************************************)
(* The structures keep their type: no count goes below zero, and no place  *)
(* or pointer is one the handlers do not know.                             *)
(***************************************************************************)
THEOREM SpecSound == Spec => []Sound
  BY InitIsSound, NextIsSound, PTL DEF Spec

THEOREM PtraceTypeOK == Spec => []TypeOK
  BY SpecSound, SoundTyped, PTL

(***************************************************************************)
(* as_ptracer.nb_ptracees counts the ptracees and the zombies of a tracer  *)
(* through every attach_to_ptracer and detach_from_ptracer: TRACEME,       *)
(* ATTACH, DETACH, new_child, update_wait_status, remove_tracee.           *)
(***************************************************************************)
THEOREM CountsAgree == Spec => []CountAgrees
  BY SpecSound, SoundCounts, PTL

-----------------------------------------------------------------------------
(***************************************************************************)
(* The stages.                                                             *)
(*                                                                         *)
(* What the structure t of a process holds while the process is at the     *)
(* place a, with the stop s. An event that is kept for the ptracer (proot) *)
(* is an entry that was not handled, or one that has no stage; who sleeps  *)
(* in a wait is stopped at the exit of it; and a ptracee that runs, or has *)
(* an event to report, with news that its ptracer was not told of, has no  *)
(* way to be restarted: so its ptracer's death cannot make it run.         *)
(***************************************************************************)
StageOf(t, a, s) ==
    /\ ~t.listed => a = "user" /\ s = "event"
    /\ a \in {"user", "again"} => t.status = 0
    /\ a = "note" => t.status = 1
    /\ a = "enter" => t.status = (IF s = "event" \/ t.proot THEN 0 ELSE 1)
    /\ a = "exit" => s # "no" /\ t.status = (IF s = "event" THEN 1 ELSE 0)
    /\ a = "again" => s # "event"
    /\ t.proot => s = "taken" /\ a # "exit" /\ t.ptracer # NoProc
    /\ t.wait_pid # NoProc => a = "exit" /\ s = "taken"
    /\ t.ptracer # NoProc /\ t.untold /\ s # "taken" => ~t.how

InStage(w, x) == w.at[x] \in Live => StageOf(w.T[x], w.at[x], w.stop[x])

\* The event of p was taken and not handled, and was handled.
Ready(w, p) ==
    w.at[p] \in Live =>
        /\ w.T[p].listed /\ w.stop[p] = "taken" /\ w.at[p] # "again"
        /\ w.T[p].status = (IF w.at[p] \in {"exit", "note"} THEN 1 ELSE 0)
        /\ w.T[p].wait_pid = NoProc

Done(w, p) ==
    w.at[p] \in Live =>
        /\ w.T[p].listed /\ w.stop[p] = "taken"
        /\ w.T[p].status = (IF w.at[p] \in {"enter", "note"} THEN 1 ELSE 0)
        /\ w.T[p].wait_pid # NoProc => w.at[p] = "exit"

LEMMA DoneInStage ==
    ASSUME NEW w, NEW p, Done(w, p), ~w.T[p].proot
    PROVE  InStage(w, p)
  BY DEF Done, InStage, StageOf, Live

LEMMA KeptInStage ==
    ASSUME NEW v, NEW w, NEW x, Kept(v, w, x), InStage(w, x)
    PROVE  InStage(v, x)
  BY DEF Kept, InStage

\* restart_tracee, when the event was handled, or was the first of a process.
LEMMA RestartInStage ==
    ASSUME NEW w \in WorldType, NEW p \in Proc, NEW x \in Proc, InStage(w, x),
           x = p => w.T[p].listed /\ ~w.T[p].proot /\ (w.stop[p] # "event" \/ w.at[p] = "user")
    PROVE  InStage(RestartTracee(w, p), x)
<1> DEFINE v == RestartTracee(w, p)
<1>1. RestartEffect(v, w, p)
  BY RestartTraceeEffect
<1> HIDE DEF v
<1>2. CASE x # p
  <2>1. Kept(v, w, x)
    BY <1>1, <1>2 DEF RestartEffect, Only
  <2> QED
    BY <2>1, KeptInStage DEF v
<1>3. CASE x = p
  <2> DEFINE t == w.T[p]
             u == v.T[p]
  <2>1. /\ u.listed = t.listed /\ u.ptracer = t.ptracer /\ u.proot = t.proot
        /\ u.untold = t.untold /\ u.status = t.status /\ u.wait_pid = t.wait_pid
    BY <1>1 DEF RestartEffect, SameLinks, SamePtracee
  <2>2. CASE Restartable(w, p)
    <3>1. ~u.how /\ v.stop[p] = "no" /\ v.at[p] = (IF w.at[p] = "exit" THEN "user" ELSE w.at[p])
      BY <1>1, <2>2 DEF RestartEffect
    <3>2. t.listed /\ t.wait_pid = NoProc /\ w.stop[p] \in {"event", "taken"} /\ ~t.proot
          /\ (w.stop[p] = "event" => w.at[p] = "user")
      BY <1>3, <2>2 DEF Restartable, WorldType
    <3>3. ASSUME w.at[p] \in Live, StageOf(t, w.at[p], w.stop[p])
          PROVE  StageOf(u, v.at[p], "no")
      <4> HIDE DEF t, u
      <4> QED
        BY <2>1, <3>1, <3>2, <3>3 DEF StageOf, Live
    <3>4. v.at[p] \in Live => w.at[p] \in Live
      BY <3>1 DEF Live
    <3> QED
      BY <1>3, <3>1, <3>3, <3>4 DEF InStage, v
  <2>3. CASE ~Restartable(w, p)
    <3>1. v.at[p] = w.at[p] /\ v.stop[p] = w.stop[p] /\ u.how = t.how
      BY <1>1, <2>3 DEF RestartEffect
    <3>2. ASSUME StageOf(t, w.at[p], w.stop[p])
          PROVE  StageOf(u, w.at[p], w.stop[p])
      <4> HIDE DEF t, u
      <4> QED
        BY <2>1, <3>1, <3>2 DEF StageOf
    <3> QED
      BY <1>3, <3>1, <3>2 DEF InStage, v
  <2> QED
    BY <2>2, <2>3
<1> QED
  BY <1>2, <1>3

\* Nothing changes that decides about the stage of x.
StaysInStage(v, w, x) ==
    /\ v.at[x] = w.at[x] /\ v.stop[x] = w.stop[x]
    /\ v.T[x].listed = w.T[x].listed /\ v.T[x].status = w.T[x].status
    /\ v.T[x].proot = w.T[x].proot /\ v.T[x].wait_pid = w.T[x].wait_pid
    /\ v.T[x].how = w.T[x].how
    /\ v.T[x].untold => w.T[x].untold
    /\ w.at[x] \in Live => v.T[x].ptracer = w.T[x].ptracer

LEMMA StaysThere ==
    ASSUME NEW v, NEW w, NEW x, StaysInStage(v, w, x), InStage(w, x)
    PROVE  InStage(v, x)
<1> SUFFICES ASSUME w.at[x] \in Live, StageOf(w.T[x], w.at[x], w.stop[x])
             PROVE  StageOf(v.T[x], w.at[x], w.stop[x])
  BY DEF StaysInStage, InStage
<1> DEFINE t == w.T[x]
           u == v.T[x]
<1>1. /\ u.listed = t.listed /\ u.status = t.status /\ u.proot = t.proot
      /\ u.wait_pid = t.wait_pid /\ u.how = t.how /\ (u.untold => t.untold)
      /\ u.ptracer = t.ptracer /\ StageOf(t, w.at[x], w.stop[x])
  BY DEF StaysInStage
<1> HIDE DEF t, u
<1>2. StageOf(u, w.at[x], w.stop[x])
  BY <1>1 DEF StageOf
<1> QED
  BY <1>2 DEF u

\* A structure that is attached has no event kept for another.
LEMMA AttachedInStage ==
    ASSUME NEW v, NEW w, NEW x \in Proc, NEW q \in Proc, BecomesPtracee(v, w, q), InStage(w, x)
    PROVE  InStage(v, x)
<1>1. /\ v.at = w.at /\ v.stop = w.stop
      /\ SameSleep(v.T[x], w.T[x]) /\ v.T[x].status = w.T[x].status
      /\ v.T[x].listed = w.T[x].listed
  BY DEF BecomesPtracee
<1>2. CASE SamePtracee(v.T[x], w.T[x]) /\ v.T[x].ptracer = w.T[x].ptracer
  BY <1>1, <1>2, StaysThere DEF StaysInStage, SameSleep, SamePtracee
<1>3. CASE w.T[x].ptracer = NoProc /\ ~v.T[x].proot /\ ~v.T[x].untold
  <2> DEFINE t == w.T[x]
             u == v.T[x]
  <2>1. /\ t.ptracer = NoProc /\ ~u.proot /\ ~u.untold
        /\ u.listed = t.listed /\ u.status = t.status
        /\ u.wait_pid = t.wait_pid
    BY <1>1, <1>3 DEF SameSleep
  <2>2. ASSUME StageOf(t, w.at[x], w.stop[x])
        PROVE  StageOf(u, w.at[x], w.stop[x])
    <3> HIDE DEF t, u
    <3> QED
      BY <2>1, <2>2 DEF StageOf
  <2> QED
    BY <1>1, <2>2 DEF InStage
<1> QED
  BY <1>2, <1>3 DEF BecomesPtracee

LEMMA WaitInStage ==
    ASSUME NEW v, NEW w, NEW p, NEW x \in Proc \ {p}, WaitEffect(v, w, p), InStage(w, x)
    PROVE  InStage(v, x)
<1>1. StaysInStage(v, w, x)
  BY DEF WaitEffect, StaysInStage, Live
<1> QED
  BY <1>1, StaysThere

LEMMA WokenInStage ==
    ASSUME NEW v, NEW w, NEW p, NEW q, NEW x \in Proc \ {p}, WokenEffect(v, w, p, q), InStage(w, x)
    PROVE  InStage(v, x)
<1>1. StaysInStage(v, w, x)
  BY DEF WokenEffect, StaysInStage, Live
<1> QED
  BY <1>1, StaysThere

\* The ptracer that is woken sleeps no more.
LEMMA SleeperInStage ==
    ASSUME NEW v, NEW w \in WorldType, NEW p \in Proc, NEW q, WokenEffect(v, w, p, q),
           SamePlaces(v, w), InStage(w, p), w.T[p].wait_pid # NoProc
    PROVE  /\ InStage(v, p)
           /\ v.at[p] \in Live => v.T[p].listed /\ ~v.T[p].proot /\ v.stop[p] = "taken"
<1>0. v.at[p] \in Live => w.at[p] \in Live
  <2>1. w.at[p] \in Places
    BY DEF WorldType
  <2>2. /\ w.at[p] \in Gone => v.at[p] \in Gone
        /\ w.at[p] = "absent" => v.at[p] = "absent"
        /\ w.at[p] = "dead" => v.at[p] = "dead"
    BY DEF SamePlaces, WokenEffect
  <2> QED
    BY <2>1, <2>2 DEF Places, Live, Gone
<1>1. /\ v.stop[p] = w.stop[p] /\ v.T[p].wait_pid = NoProc
      /\ v.T[p].status = w.T[p].status /\ v.T[p].proot = w.T[p].proot
      /\ v.T[p].listed = w.T[p].listed /\ v.at[p] \in {w.at[p], "again"}
  BY DEF WokenEffect
<1>2. w.at[p] \in Live =>
        /\ w.T[p].listed /\ ~w.T[p].proot /\ w.stop[p] = "taken" /\ w.at[p] = "exit"
        /\ w.T[p].status = 0
  BY DEF InStage, StageOf
<1>3. v.at[p] \in Live => StageOf(v.T[p], v.at[p], v.stop[p])
  BY <1>0, <1>1, <1>2 DEF StageOf
<1> QED
  BY <1>0, <1>1, <1>2, <1>3 DEF InStage


\* A request on q by p: an event kept pending is handled before q runs again.
LEMMA RequestInStage ==
    ASSUME NEW w, NEW p \in Proc, NEW q \in Proc, NEW x \in Proc, Good(w), Able(w, p),
           NEW op \in Restarts \cup {"options"}, InStage(w, x)
    PROVE  InStage(Request(w, p, op, q), x)
<1> DEFINE v == Configure(w, p, op, q)
           u == IF v.T[q].proot THEN HandlePending(v, q) ELSE v
<1>1. CASE w.T[q].ptracer # p \/ w.zombies[q].ptracer = p \/ w.T[q].running
  BY <1>1 DEF Request
<1>2. CASE ~(w.T[q].ptracer # p \/ w.zombies[q].ptracer = p \/ w.T[q].running)
  <2>1. Good(v) /\ ConfigureEffect(v, w, op, q)
    BY <1>2, ConfigureIsGood
  <2>2. Request(w, p, op, q) = IF op = "options" THEN v ELSE RestartTracee(u, q)
    BY <1>2 DEF Request
  <2>3. w.T[q].listed /\ p # q /\ w.T[q].ptracer = p /\ Steady(w, q) /\ w.stop[q] \in {"no", "event", "taken"}
    BY <1>2, PtraceAssumption DEF Good, Linked, NoTracee, WorldType
  <2>4. v \in WorldType
    BY <2>1 DEF Good
  <2> HIDE DEF v
  <2>5. PendingEffect(HandlePending(v, q), v, q)
    BY <2>4, HandlePendingEffect
  <2>6. u \in WorldType
    BY <2>4, <2>5 DEF PendingEffect, Only
  <2>7. CASE x # q
    <3>1. StaysInStage(v, w, x)
      BY <2>1, <2>7 DEF ConfigureEffect, StaysInStage, SameSleep
    <3>2. InStage(v, x)
      BY <3>1, StaysThere
    <3>3. InStage(u, x)
      <4>1. Kept(HandlePending(v, q), v, x)
        BY <2>5, <2>7 DEF PendingEffect, Only
      <4> QED
        BY <3>2, <4>1, KeptInStage
    <3> HIDE DEF u
    <3> QED
      BY <2>2, <2>6, <2>7, <3>2, <3>3, RestartInStage
  <2>8. CASE x = q
    <3>1. CASE v.at[q] = w.at[q] /\ v.stop[q] = w.stop[q]
      <4>1. CASE op = "options"
        <5>1. StaysInStage(v, w, q)
          BY <2>1, <3>1, <4>1 DEF ConfigureEffect, StaysInStage, SameSleep
        <5> QED
          BY <2>2, <2>8, <4>1, <5>1, StaysThere
      <4>2. CASE op # "options"
        <5> DEFINE t == w.T[q]
                   r == v.T[q]
                   s == u.T[q]
        <5>1. /\ r.listed /\ r.status = t.status /\ r.proot = t.proot /\ r.wait_pid = t.wait_pid
              /\ r.how = t.how /\ r.untold = t.untold /\ r.ptracer \in {t.ptracer, NoProc}
              /\ t.ptracer # NoProc
          BY <2>1, <2>3, PtraceAssumption DEF ConfigureEffect, SameSleep
        <5>2. /\ u.at[q] = w.at[q] /\ u.stop[q] = w.stop[q]
              /\ s.listed /\ ~s.proot /\ s.wait_pid = t.wait_pid /\ s.untold = t.untold
              /\ s.ptracer = r.ptracer
              /\ IF r.proot THEN s.status = IF w.at[q] \in {"enter", "exit"} THEN 1 ELSE r.status
                 ELSE s.status = r.status /\ s.how = r.how
          <6>1. CASE r.proot
            <7>1. u = HandlePending(v, q)
              BY <6>1
            <7> HIDE DEF u
            <7> QED
              BY <2>5, <3>1, <5>1, <6>1, <7>1 DEF PendingEffect, SameLinks
          <6>2. CASE ~r.proot
            BY <3>1, <5>1, <6>2
          <6> QED
            BY <6>1, <6>2
        <5>3. ASSUME w.at[q] \in Live
              PROVE  /\ StageOf(t, w.at[q], w.stop[q])
                     /\ w.stop[q] # "no" /\ (w.stop[q] = "event" => w.at[q] = "user")
          <6>1. StageOf(t, w.at[q], w.stop[q])
            BY <2>8, <5>3 DEF InStage
          <6> QED
            BY <1>2, <2>3, <5>3, <6>1 DEF Steady, StageOf, Live
        <5> HIDE DEF u, t, r, s
        <5>4. ASSUME w.at[q] \in Live
              PROVE  StageOf(s, w.at[q], w.stop[q])
          BY <5>1, <5>2, <5>3, <5>4 DEF StageOf
        <5>5. InStage(u, q)
          BY <5>2, <5>4 DEF InStage, s
        <5>6. CASE w.at[q] \in Live
          <6>1. u.stop[q] # "event" \/ u.at[q] = "user"
            BY <5>2, <5>3, <5>6
          <6>2. u.T[q].listed /\ ~u.T[q].proot
            BY <5>2 DEF s
          <6>3. InStage(RestartTracee(u, q), q)
            BY <2>6, <5>5, <6>1, <6>2, RestartInStage
          <6> QED
            BY <2>2, <2>8, <4>2, <6>3
        <5>7. CASE w.at[q] \notin Live
          <6>1. u.at[q] \notin Live
            BY <5>2, <5>7
          <6>2. RestartTracee(u, q).at[q] \notin Live
            <7>1. RestartEffect(RestartTracee(u, q), u, q)
              BY <2>6, RestartTraceeEffect
            <7> QED
              BY <6>1, <7>1 DEF RestartEffect, Live
          <6> QED
            BY <2>2, <2>8, <4>2, <6>2 DEF InStage
        <5> QED
          BY <5>6, <5>7
      <4> QED
        BY <4>1, <4>2
    <3>2. CASE v.at[q] = "dead"
      <4>1. u.at[q] = "dead"
        <5>1. HandlePending(v, q).at = v.at
          BY <2>5 DEF PendingEffect
        <5> QED
          BY <3>2, <5>1
      <4> HIDE DEF u
      <4>2. RestartTracee(u, q).at[q] = "dead"
        <5>1. RestartEffect(RestartTracee(u, q), u, q)
          BY <2>6, RestartTraceeEffect
        <5> QED
          BY <4>1, <5>1 DEF RestartEffect
      <4> QED
        BY <2>2, <2>8, <3>2, <4>2 DEF InStage, Live
    <3> QED
      BY <2>1, <3>1, <3>2 DEF ConfigureEffect
  <2> QED
    BY <2>7, <2>8
<1> QED
  BY <1>1, <1>2


\* Nothing changes that decides whether p was handled.
StaysDone(v, w, p) ==
    /\ v.at[p] = w.at[p] /\ v.stop[p] = w.stop[p]
    /\ v.T[p].listed = w.T[p].listed /\ v.T[p].status = w.T[p].status
    /\ v.T[p].wait_pid = w.T[p].wait_pid

LEMMA RequestStaysDone ==
    ASSUME NEW w, NEW p \in Proc, NEW q \in Proc, Good(w), Able(w, p),
           NEW op \in Restarts \cup {"options"}
    PROVE  StaysDone(Request(w, p, op, q), w, p)
<1> DEFINE v == Configure(w, p, op, q)
           u == IF v.T[q].proot THEN HandlePending(v, q) ELSE v
<1>1. CASE w.T[q].ptracer # p \/ w.zombies[q].ptracer = p \/ w.T[q].running
  BY <1>1 DEF Request, StaysDone
<1>2. CASE ~(w.T[q].ptracer # p \/ w.zombies[q].ptracer = p \/ w.T[q].running)
  <2>1. Good(v) /\ ConfigureEffect(v, w, op, q)
    BY <1>2, ConfigureIsGood
  <2>2. Request(w, p, op, q) = IF op = "options" THEN v ELSE RestartTracee(u, q)
    BY <1>2 DEF Request
  <2>3. p # q
    BY <1>2, PtraceAssumption DEF Good, Linked
  <2>4. v \in WorldType
    BY <2>1 DEF Good
  <2> HIDE DEF v
  <2>5. StaysDone(v, w, p)
    BY <2>1, <2>3 DEF ConfigureEffect, StaysDone, SameSleep
  <2>6. u \in WorldType /\ Kept(u, v, p)
    <3>1. PendingEffect(HandlePending(v, q), v, q)
      BY <2>4, HandlePendingEffect
    <3> QED
      BY <2>3, <2>4, <3>1 DEF PendingEffect, Only, Kept
  <2> HIDE DEF u
  <2>7. Kept(RestartTracee(u, q), u, p)
    <3>1. RestartEffect(RestartTracee(u, q), u, q)
      BY <2>6, RestartTraceeEffect
    <3> QED
      BY <2>3, <3>1 DEF RestartEffect, Only
  <2> QED
    BY <2>2, <2>5, <2>6, <2>7 DEF StaysDone, Kept
<1> QED
  BY <1>1, <1>2

\* The exit stage of p.
LEMMA ExitInStage ==
    ASSUME NEW w, NEW p \in Proc, NEW first \in Proc, NEW x \in Proc, CanHandle(w, p)
    PROVE  LET e == ExitStage(w, p, first)
           IN  /\ x # p /\ InStage(w, x) => InStage(e, x)
               /\ w.at[p] = "exit" /\ Ready(w, p) => Done(e, p)
<1> DEFINE n == w.T[p]
           t == [n EXCEPT !.status = 0]
           v == [w EXCEPT !.T[p] = t]
           c == call[p]
           e == ExitStage(w, p, first)
           Goal(u) == /\ x # p /\ InStage(v, x) => InStage(u, x)
                      /\ w.at[p] = "exit" /\ Ready(w, p) => Done(u, p)
<1>1. w \in WorldType /\ n \in TraceeType /\ n.listed
  BY DEF CanHandle, Good, Able, WorldType
<1> HIDE DEF n
<1>2. /\ t \in TraceeType /\ SameLinks(t, n) /\ t.running = n.running /\ t.options = n.options
      /\ t.status = 0 /\ t.wait_pid = n.wait_pid
  BY <1>1 DEF TraceeType, SameLinks
<1> USE DEF n
<1>3. /\ Frame(v, w, p) /\ Only(v, w, p)
      /\ v.T[p] = t /\ v.at = w.at /\ v.stop = w.stop
  <2>1. Frame(v, w, p)
    BY <1>1, <1>2, PutIsGood DEF CanHandle
  <2>2. Only(v, w, p) /\ v.T[p] = t /\ v.at = w.at /\ v.stop = w.stop
    BY <1>1, <1>2, PutTracee
  <2> QED
    BY <2>1, <2>2
<1>4. [w EXCEPT !.T[p].status = 0] = v
  OBVIOUS
<1> HIDE DEF v, t
<1>5. Good(v) /\ Able(v, p) /\ v.T[p].listed /\ call \in [Proc -> CallType]
  BY <1>1, <1>3 DEF Frame, CanHandle, Able, CallsTyped
<1>6. x # p /\ InStage(w, x) => InStage(v, x)
  BY <1>3, KeptInStage DEF Only
<1>7. w.at[p] = "exit" /\ Ready(w, p) =>
        /\ v.at[p] = "exit" /\ v.stop[p] = "taken"
        /\ v.T[p].listed /\ v.T[p].status = 0 /\ v.T[p].wait_pid = NoProc
  BY <1>2, <1>3, <1>5 DEF Ready, Live
<1>8. CASE c.op \in Waits /\ w.T[p].waits_in = "proot"
  <2>1. e = WaitExit(v, p, first)
    BY <1>4, <1>8 DEF ExitStage, Waits, Restarts
  <2>2. WaitEffect(e, v, p)
    BY <1>5, <2>1, WaitExitIsGood
  <2> HIDE DEF e
  <2>3. x # p /\ InStage(v, x) => InStage(e, x)
    BY <2>2, WaitInStage
  <2>4. w.at[p] = "exit" /\ Ready(w, p) => Done(e, p)
    BY <1>7, <2>2 DEF WaitEffect, Done
  <2> QED
    BY <1>6, <2>3, <2>4 DEF e
<1>b. ASSUME NEW q \in Proc, BecomesPtracee(e, v, q)
      PROVE  Goal(e)
  <2> HIDE DEF e
  <2>1. InStage(v, x) => InStage(e, x)
    BY <1>b, AttachedInStage
  <2>2. w.at[p] = "exit" /\ Ready(w, p) => Done(e, p)
    BY <1>7, <1>b DEF BecomesPtracee, SameSleep, Done
  <2> QED
    BY <2>1, <2>2
<1>9. CASE c.op = "traceme"
  <2>1. e = Traceme(v, p)
    BY <1>4, <1>9 DEF ExitStage, Waits, Restarts
  <2>2. BecomesPtracee(e, v, p)
    BY <1>5, <2>1, TracemeIsGood
  <2> QED
    BY <1>6, <1>b, <2>2
<1>10. CASE c.op = "attach" /\ c.pid \in Proc
  <2>1. e = Attach(v, p, c.pid)
    BY <1>4, <1>10 DEF ExitStage, Waits, Restarts
  <2>2. BecomesPtracee(e, v, c.pid)
    BY <1>5, <1>10, <2>1, AttachRequestIsGood
  <2> QED
    BY <1>6, <1>10, <1>b, <2>2
<1>11. CASE c.op \in Restarts \cup {"options"} /\ c.pid \in Proc
  <2>1. e = Request(v, p, c.op, c.pid)
    BY <1>4, <1>11 DEF ExitStage, Waits, Restarts
  <2>2. StaysDone(e, v, p)
    BY <1>5, <1>11, <2>1, RequestStaysDone
  <2>3. InStage(v, x) => InStage(e, x)
    BY <1>5, <1>11, <2>1, RequestInStage
  <2> HIDE DEF e
  <2>4. w.at[p] = "exit" /\ Ready(w, p) => Done(e, p)
    BY <1>7, <2>2 DEF StaysDone, Done
  <2> QED
    BY <1>6, <2>3, <2>4 DEF e
<1>12. CASE /\ ~(c.op \in Waits /\ w.T[p].waits_in = "proot")
            /\ c.op # "traceme" /\ ~(c.op = "attach" /\ c.pid \in Proc)
            /\ ~(c.op \in Restarts \cup {"options"} /\ c.pid \in Proc)
  <2>1. e = v
    BY <1>4, <1>12 DEF ExitStage
  <2> HIDE DEF e
  <2> QED
    BY <1>6, <1>7, <2>1 DEF Done, e
<1> QED
  BY <1>8, <1>9, <1>10, <1>11, <1>12

\* The child of a fork is no ptracee until then, and p was handled before it.
LEMMA NewChildInStage ==
    ASSUME NEW v, NEW w, NEW p \in Proc, NEW c \in Proc \ {p}, NEW x \in Proc,
           NewChildEffect(v, w, p, c)
    PROVE  /\ InStage(w, x) => InStage(v, x)
           /\ StaysDone(v, w, p)
<1>1. StaysDone(v, w, p)
  BY DEF NewChildEffect, StaysDone, SameSleep
<1>2. CASE x # c
  <2>1. StaysInStage(v, w, x)
    BY <1>2 DEF NewChildEffect, StaysInStage, SameSleep, SamePtracee
  <2> QED
    BY <1>1, <2>1, StaysThere
<1>3. CASE x = c
  <2>1. v.at[c] = w.at[c] /\ v.stop[c] = w.stop[c]
    BY DEF NewChildEffect
  <2>2. CASE v.T[c] = w.T[c]
    BY <1>1, <1>3, <2>1, <2>2 DEF InStage
  <2>3. CASE v.T[c] # w.T[c]
    <3> DEFINE t == w.T[c]
               u == v.T[c]
    <3>1. /\ u.listed /\ t.ptracer = NoProc /\ u.status = t.status /\ u.wait_pid = t.wait_pid
          /\ (u.proot => t.proot) /\ (u.ptracer # NoProc => ~u.untold)
      BY <2>3 DEF NewChildEffect
    <3>2. ASSUME StageOf(t, w.at[c], w.stop[c])
          PROVE  StageOf(u, w.at[c], w.stop[c])
      <4> HIDE DEF t, u
      <4> QED
        BY <3>1, <3>2 DEF StageOf
    <3> QED
      BY <1>1, <1>3, <2>1, <3>2 DEF InStage
  <2> QED
    BY <2>2, <2>3
<1> QED
  BY <1>2, <1>3

\* handle_tracee_event, for p.
LEMMA HandleInStage ==
    ASSUME NEW w, NEW p \in Proc, NEW first \in Proc, NEW x \in Proc,
           CanHandle(w, p), ForkSafe(w, p)
    PROVE  LET h == HandleTraceeEvent(w, p, first)
           IN  /\ x # p /\ InStage(w, x) => InStage(h, x)
               /\ Ready(w, p) => Done(h, p)
               /\ ~h.T[p].proot
<1> DEFINE n == w.T[p]
           t == [n EXCEPT !.how = TRUE]
           v == [w EXCEPT !.T[p] = t]
           u == IF w.at[p] \in {"enter", "exit"}
                  THEN IF w.T[p].status = 0 THEN EnterStage(v, p) ELSE ExitStage(v, p, first)
                ELSE IF w.at[p] = "note" /\ call[p].op = "fork" THEN NewChild(v, p, call[p].pid)
                ELSE v
           h == HandleTraceeEvent(w, p, first)
<1>1. n \in TraceeType /\ n.listed /\ w \in WorldType
  BY DEF CanHandle, Good, Able, WorldType
<1> HIDE DEF n
<1>2. /\ t \in TraceeType /\ SameLinks(t, n) /\ t.running = n.running
      /\ t.options = n.options /\ t.ptracer = n.ptracer
      /\ t.listed /\ t.status = n.status /\ t.wait_pid = n.wait_pid
  BY <1>1 DEF TraceeType, SameLinks
<1> USE DEF n
<1>3. Frame(v, w, p)
  BY <1>1, <1>2, PutIsGood DEF CanHandle
<1>4. h = [u EXCEPT !.T[p].proot = FALSE]
  BY DEF HandleTraceeEvent
<1> HIDE DEF t
<1>o. Only(v, w, p) /\ v.T[p] = t /\ v.at = w.at /\ v.stop = w.stop
  BY <1>1, <1>2, PutTracee
<1> HIDE DEF v, t
<1>5. CanHandle(v, p) /\ Good(v) /\ v.T[p].listed
  BY <1>1, <1>3, <1>o DEF Frame, CanHandle, Able
<1>6. /\ x # p /\ InStage(w, x) => InStage(v, x)
      /\ Ready(w, p) => Ready(v, p)
  <2>1. Ready(w, p) => Ready(v, p)
    BY <1>2, <1>o DEF Ready
  <2> QED
    BY <1>o, <2>1, KeptInStage DEF Only
<1>7. /\ u \in WorldType
      /\ x # p /\ InStage(v, x) => InStage(u, x)
      /\ Ready(v, p) => Done(u, p)
  <2>1. CASE w.at[p] \in {"enter", "exit"} /\ w.T[p].status = 0
    <3>1. u = EnterStage(v, p)
      BY <2>1
    <3>2. EnterEffect(u, v, p)
      BY <1>5, <3>1, EnterStageEffect DEF Good
    <3> HIDE DEF u
    <3>3. x # p /\ InStage(v, x) => InStage(u, x)
      BY <3>2, KeptInStage DEF EnterEffect, Only
    <3>4. v.at[p] = w.at[p] /\ v.T[p].status = 0
      BY <1>2, <1>o, <2>1
    <3>5. Ready(v, p) => Done(u, p)
      BY <2>1, <3>2, <3>4 DEF EnterEffect, SameLinks, SameSleep, Ready, Done, Live
    <3> QED
      BY <3>2, <3>3, <3>5 DEF EnterEffect, Only
  <2>2. CASE w.at[p] \in {"enter", "exit"} /\ w.T[p].status # 0
    <3>1. u = ExitStage(v, p, first)
      BY <2>2
    <3>2. u \in WorldType
      BY <1>5, <3>1, ExitIsGood DEF Frame, Good
    <3>3. /\ x # p /\ InStage(v, x) => InStage(u, x)
          /\ v.at[p] = "exit" /\ Ready(v, p) => Done(u, p)
      BY <1>5, <3>1, ExitInStage
    <3>4. v.at[p] = w.at[p] /\ v.T[p].status # 0
      BY <1>2, <1>o, <2>2
    <3>5. Ready(v, p) => v.at[p] = "exit"
      BY <2>2, <3>4 DEF Ready, Live
    <3> HIDE DEF u
    <3> QED
      BY <3>2, <3>3, <3>5
  <2>3. CASE w.at[p] = "note" /\ call[p].op = "fork"
    <3>0. u = NewChild(v, p, call[p].pid)
      BY <2>3
    <3>1. ForkSafe(v, p) /\ v.at[p] = "note"
      BY <1>2, <1>o, <1>3, <2>3, ForkSafeStays DEF Frame
    <3>2. call[p].pid \in Proc \ {p}
      BY <3>1, <2>3 DEF ForkSafe, Forked
    <3>3. Frame(u, v, p) /\ NewChildEffect(u, v, p, call[p].pid)
      BY <1>5, <2>3, <3>0, <3>1, <3>2, NewChildIsGood
    <3> HIDE DEF u
    <3>4. /\ InStage(v, x) => InStage(u, x)
          /\ StaysDone(u, v, p)
      BY <3>2, <3>3, NewChildInStage
    <3>5. Ready(v, p) => Done(u, p)
      BY <3>1, <3>4 DEF StaysDone, Ready, Done
    <3> QED
      BY <3>3, <3>4, <3>5 DEF Frame, Good
  <2>4. CASE w.at[p] \notin {"enter", "exit"} /\ ~(w.at[p] = "note" /\ call[p].op = "fork")
    <3>1. u = v
      BY <2>4
    <3> HIDE DEF u
    <3>2. Ready(v, p) => Done(v, p)
      BY <1>o, <2>4 DEF Ready, Done
    <3> QED
      BY <1>5, <3>1, <3>2 DEF Good
  <2> QED
    BY <2>1, <2>2, <2>3, <2>4
<1> DEFINE m == u.T[p]
           s == [m EXCEPT !.proot = FALSE]
<1> HIDE DEF u
<1>8. m \in TraceeType
  BY <1>7 DEF WorldType
<1> HIDE DEF m
<1>9. /\ s \in TraceeType /\ ~s.proot /\ s.listed = m.listed /\ s.status = m.status
      /\ s.wait_pid = m.wait_pid
  BY <1>8 DEF TraceeType
<1> USE DEF m
<1>10. [u EXCEPT !.T[p].proot = FALSE] = [u EXCEPT !.T[p] = s]
  OBVIOUS
<1>11. Only(h, u, p) /\ h.T[p] = s /\ h.at = u.at /\ h.stop = u.stop
  <2>1. h = [u EXCEPT !.T[p] = s]
    BY <1>4, <1>10
  <2> HIDE DEF h, s
  <2> QED
    BY <1>7, <1>9, <2>1, PutTracee
<1> HIDE DEF h, s
<1>12. x # p /\ InStage(u, x) => InStage(h, x)
  BY <1>11, KeptInStage DEF Only
<1>13. Done(u, p) => Done(h, p)
  BY <1>9, <1>11 DEF Done
<1> QED
  BY <1>6, <1>7, <1>9, <1>11, <1>12, <1>13 DEF h

\* The first part of handle_ptracee_event, for q. An event that is not handled
\* there is kept for the ptracer, and may be handled as that of any tracee.
LEMMA NotifiedInStage ==
    ASSUME NEW w, NEW q \in Proc, NEW first \in Proc, NEW x \in Proc,
           CanHandle(w, q), ForkSafe(w, q)
    PROVE  LET k == Notified(w, q, first)
           IN  /\ x # q /\ InStage(w, x) => InStage(k, x)
               /\ Ready(w, q) /\ w.T[q].ptracer # NoProc => InStage(k, q)
               /\ Ready(w, q) /\ ~HandledFirst(w, q) => Ready(k, q)
<1> DEFINE n == w.T[q]
           b == n.tracing_started \/ ~SyscallStop(w, q)
           t == [n EXCEPT !.proot = TRUE, !.tracing_started = b]
           v == [w EXCEPT !.T[q] = t]
           u == IF HandledFirst(w, q) THEN HandleTraceeEvent(v, q, first) ELSE v
           k == Notified(w, q, first)
<1>1. n \in TraceeType /\ n.listed /\ w \in WorldType
  BY DEF CanHandle, Good, Able, WorldType
<1>b. b \in BOOLEAN
  BY <1>1 DEF TraceeType
<1> HIDE DEF n, b
<1>2. /\ t \in TraceeType /\ SameLinks(t, n) /\ t.running = n.running
      /\ t.options = n.options /\ t.ptracer = n.ptracer /\ t.listed
      /\ t.status = n.status /\ t.wait_pid = n.wait_pid /\ t.proot
  BY <1>1, <1>b DEF TraceeType, SameLinks
<1> USE DEF n
<1>3. Frame(v, w, q)
  BY <1>1, <1>2, PutIsGood DEF CanHandle
<1>o. Only(v, w, q) /\ v.T[q] = t /\ v.at = w.at /\ v.stop = w.stop
  <2> HIDE DEF t
  <2> QED
    BY <1>1, <1>2, PutTracee
<1>4. k = [u EXCEPT !.T[q].untold = TRUE]
  <2> DEFINE y == [w EXCEPT !.T[q].proot = TRUE,
                            !.T[q].tracing_started = @ \/ ~SyscallStop(w, q)]
  <2>1. [w EXCEPT !.T[q].proot = TRUE, !.T[q].tracing_started = b] = v
    OBVIOUS
  <2>2. y = v
    BY <2>1 DEF b
  <2>3. k = [(IF HandledFirst(w, q) THEN HandleTraceeEvent(y, q, first) ELSE y) EXCEPT
               !.T[q].untold = TRUE]
    BY DEF Notified
  <2> HIDE DEF y, v, k
  <2> QED
    BY <2>2, <2>3
<1> HIDE DEF v, t, k
<1>5. CanHandle(v, q) /\ ForkSafe(v, q)
  <2>1. CanHandle(v, q)
    BY <1>1, <1>2, <1>3, <1>o DEF Frame, CanHandle, Able
  <2>2. ForkSafe(v, q)
    BY <1>2, <1>3, <1>o, ForkSafeStays DEF Frame
  <2> QED
    BY <2>1, <2>2
<1>6. u \in WorldType
  BY <1>5, HandleIsGood DEF CanHandle, Frame, Good
<1>7. x # q /\ InStage(w, x) => InStage(u, x)
  <2>1. x # q /\ InStage(w, x) => InStage(v, x)
    BY <1>o, KeptInStage DEF Only
  <2>2. x # q /\ InStage(v, x) => InStage(HandleTraceeEvent(v, q, first), x)
    BY <1>5, HandleInStage
  <2> QED
    BY <2>1, <2>2
<1>8. ASSUME HandledFirst(w, q), Ready(w, q)
      PROVE  Done(u, q) /\ ~u.T[q].proot
  <2>1. u = HandleTraceeEvent(v, q, first)
    BY <1>8
  <2>2. Ready(v, q)
    BY <1>2, <1>8, <1>o DEF Ready
  <2> QED
    BY <1>5, <2>1, <2>2, HandleInStage
<1>9. ASSUME ~HandledFirst(w, q), Ready(w, q)
      PROVE  /\ Ready(u, q) /\ u.T[q].ptracer = w.T[q].ptracer
             /\ u.at[q] \in Live => u.at[q] \in {"user", "enter"}
  <2>1. u = v
    BY <1>9
  <2> HIDE DEF u
  <2>2. Ready(v, q) /\ v.T[q].ptracer = w.T[q].ptracer
    BY <1>2, <1>9, <1>o DEF Ready
  <2>3. w.at[q] \in Live => w.at[q] \in {"user", "enter"}
    BY <1>9 DEF Ready, HandledFirst, SyscallStop, Live
  <2> QED
    BY <1>o, <2>1, <2>2, <2>3
<1> DEFINE m == u.T[q]
           s == [m EXCEPT !.untold = TRUE]
<1> HIDE DEF u
<1>10. m \in TraceeType
  BY <1>6 DEF WorldType
<1> HIDE DEF m
<1>11. /\ s \in TraceeType /\ s.listed = m.listed /\ s.status = m.status
       /\ s.wait_pid = m.wait_pid /\ s.proot = m.proot /\ s.ptracer = m.ptracer
  BY <1>10 DEF TraceeType
<1> USE DEF m
<1>12. [u EXCEPT !.T[q].untold = TRUE] = [u EXCEPT !.T[q] = s]
  OBVIOUS
<1>13. Only(k, u, q) /\ k.T[q] = s /\ k.at = u.at /\ k.stop = u.stop
  <2>1. k = [u EXCEPT !.T[q] = s]
    BY <1>4, <1>12
  <2> HIDE DEF s
  <2> QED
    BY <1>6, <1>11, <2>1, PutTracee
<1> HIDE DEF s
<1>14. x # q /\ InStage(w, x) => InStage(k, x)
  BY <1>7, <1>13, KeptInStage DEF Only
<1>15. Ready(w, q) /\ ~HandledFirst(w, q) => Ready(k, q)
  BY <1>9, <1>11, <1>13 DEF Ready
<1>16. ASSUME Ready(w, q), w.T[q].ptracer # NoProc
       PROVE  InStage(k, q)
  <2>1. CASE HandledFirst(w, q)
    <3>1. Done(k, q) /\ ~k.T[q].proot
      BY <1>8, <1>11, <1>13, <1>16, <2>1 DEF Done
    <3> QED
      BY <3>1, DoneInStage
  <2>2. CASE ~HandledFirst(w, q)
    <3>1. /\ Ready(k, q) /\ k.T[q].ptracer # NoProc
          /\ k.at[q] \in Live => k.at[q] \in {"user", "enter"}
      BY <1>9, <1>11, <1>13, <1>15, <1>16, <2>2
    <3>2. CASE k.T[q].proot
      BY <3>1, <3>2 DEF Ready, InStage, StageOf
    <3>3. CASE ~k.T[q].proot
      <4>1. u.T[q].proot
        BY <1>2, <1>o, <2>2 DEF u
      <4> QED
        BY <1>11, <1>13, <3>3, <4>1
    <3> QED
      BY <3>2, <3>3
  <2> QED
    BY <2>1, <2>2
<1> QED
  BY <1>14, <1>15, <1>16 DEF k

\* A ptracee released by the death of q: the event kept for q is handled first.
LEMMA OrphanedInStage ==
    ASSUME NEW a, NEW w, NEW q \in Proc, NEW r \in Proc, Good(w), Orphaned(a, w, q, r),
           InStage(w, r)
    PROVE  InStage(a, r)
<1>1. CASE w.T[r].ptracer # q
  <2>1. StaysInStage(a, w, r)
    BY <1>1 DEF Orphaned, StaysInStage, SameSleep, SamePtracee
  <2> QED
    BY <2>1, StaysThere
<1>2. CASE w.T[r].ptracer = q
  <2> DEFINE t == w.T[r]
             u == a.T[r]
             s == w.stop[r]
  <2>1. t.listed /\ t.ptracer # NoProc
    BY <1>2, PtraceAssumption DEF Good, Linked, NoTracee
  <2>2. /\ u.listed = t.listed /\ u.ptracer = NoProc /\ u.wait_pid = t.wait_pid
        /\ ~u.proot /\ ~u.untold
        /\ u.status = IF t.proot /\ w.at[r] \in {"enter", "exit"} THEN 1 ELSE t.status
    BY <1>2 DEF Orphaned
  <2>3. CASE Resumable(w, r)
    <3>1. /\ t.wait_pid = NoProc /\ s # "no" /\ (t.proot \/ (t.untold /\ t.how))
      BY <2>3 DEF Resumable
    <3>2. a.stop[r] = "no" /\ a.at[r] = IF w.at[r] = "exit" THEN "user" ELSE w.at[r]
      BY <1>2, <2>3 DEF Orphaned
    <3>3. ASSUME StageOf(t, w.at[r], s), w.at[r] \in Live
          PROVE  StageOf(u, a.at[r], "no")
      <4> HIDE DEF t, u, s
      <4> QED
        BY <2>1, <2>2, <3>1, <3>2, <3>3 DEF StageOf, Live
    <3>4. a.at[r] \in Live => w.at[r] \in Live
      BY <3>2 DEF Live
    <3> QED
      BY <3>2, <3>3, <3>4 DEF InStage
  <2>4. CASE ~Resumable(w, r)
    <3>1. a.stop[r] = s /\ a.at[r] = w.at[r]
      BY <1>2, <2>4 DEF Orphaned
    <3>2. w.at[r] \in Live => (t.wait_pid # NoProc \/ s = "no" \/ ~t.proot)
      BY <2>4 DEF Resumable, Live
    <3>3. ASSUME StageOf(t, w.at[r], s), w.at[r] \in Live
          PROVE  StageOf(u, w.at[r], s)
      <4> HIDE DEF t, u, s
      <4> QED
        BY <2>1, <2>2, <3>2, <3>3 DEF StageOf, Live
    <3> QED
      BY <3>1, <3>3 DEF InStage
  <2> QED
    BY <2>3, <2>4
<1> QED
  BY <1>1, <1>2

\* The ptracer of the dead, if it is woken from its wait.
LEMMA PtracerInStage ==
    ASSUME NEW l, NEW a, NEW p, NEW q, PtracerAfter(l, a, p, q), InStage(a, p)
    PROVE  InStage(l, p)
<1> DEFINE t == a.T[p]
           u == l.T[p]
<1>1. CASE SameSleep(u, t) /\ l.at[p] = a.at[p] /\ l.stop[p] = a.stop[p]
  <2>1. StaysInStage(l, a, p)
    BY <1>1 DEF PtracerAfter, StaysInStage, SameSleep, SamePtracee
  <2> QED
    BY <2>1, StaysThere
<1>2. CASE ~(SameSleep(u, t) /\ l.at[p] = a.at[p] /\ l.stop[p] = a.stop[p])
  <2>1. /\ u.listed = t.listed /\ u.ptracer = t.ptracer /\ u.status = t.status
        /\ u.proot = t.proot /\ u.untold = t.untold
        /\ t.wait_pid # NoProc /\ u.wait_pid = NoProc
    BY <1>2 DEF PtracerAfter, SamePtracee
  <2>2. IF t.how /\ a.stop[p] # "no" /\ a.at[p] # "dead"
          THEN /\ ~u.how /\ l.stop[p] = "no"
               /\ l.at[p] = IF a.at[p] = "exit" THEN "user" ELSE a.at[p]
          ELSE l.at[p] = a.at[p] /\ l.stop[p] = a.stop[p] /\ u.how = t.how
    BY <1>2 DEF PtracerAfter
  <2>3. ASSUME StageOf(t, a.at[p], a.stop[p])
        PROVE  StageOf(u, l.at[p], l.stop[p])
    <3> HIDE DEF t, u
    <3> QED
      BY <2>1, <2>2, <2>3 DEF StageOf
  <2>4. l.at[p] \in Live => a.at[p] \in Live
    BY <2>2 DEF Live
  <2> QED
    BY <2>3, <2>4 DEF InStage
<1> QED
  BY <1>1, <1>2

LEMMA RemoveInStage ==
    ASSUME NEW w, NEW q \in Proc, NEW x \in Proc, Good(w), Able(w, q),
           x # q => InStage(w, x)
    PROVE  InStage(RemoveTracee(w, q), x)
<1> DEFINE p == w.T[q].ptracer
           a == ReleaseAll(w, q)
           l == LeavePtracer(a, q)
           z == RemoveTracee(w, q)
<1>1. /\ OrphanedEffect(a, w, q)
      /\ LeaveEffect(l, a, p, q)
      /\ RemoveEffect(z, l)
      /\ z.at = [l.at EXCEPT ![q] = "zombie"] /\ z.stop = [l.stop EXCEPT ![q] = "no"]
  BY RemoveTraceeEffect
<1> HIDE DEF a, l, z
<1>2. l.at \in [Proc -> Places] /\ l.stop \in [Proc -> {"no", "event", "taken"}]
  BY <1>1 DEF LeaveEffect, WorldType
<1>3. CASE x = q
  <2>1. z.at[q] = "zombie"
    BY <1>1, <1>2
  <2> HIDE DEF p
  <2> QED
    BY <1>3, <2>1 DEF InStage, Live, z
<1>4. CASE x # q
  <2>1. InStage(a, x)
    BY <1>1, <1>4, OrphanedInStage DEF OrphanedEffect
  <2>2. InStage(l, x)
    <3>1. CASE x = p
      <4>1. PtracerAfter(l, a, p, q)
        BY <1>1, <3>1, PtraceAssumption DEF LeaveEffect
      <4> QED
        BY <2>1, <3>1, <4>1, PtracerInStage
    <3>2. CASE x # p
      <4>1. l.T[x] = a.T[x] /\ l.at[x] = a.at[x] /\ l.stop[x] = a.stop[x]
        BY <1>1, <1>4, <3>2 DEF LeaveEffect
      <4> QED
        BY <2>1, <4>1 DEF InStage
    <3> QED
      BY <3>1, <3>2
  <2>3. z.T[x] = l.T[x] /\ z.at[x] = l.at[x] /\ z.stop[x] = l.stop[x]
    BY <1>1, <1>2, <1>4 DEF RemoveEffect
  <2> QED
    BY <2>2, <2>3 DEF InStage, z
<1> QED
  BY <1>3, <1>4

\* The common end of an iteration.
LEMMA HandleAndRestartInStage ==
    ASSUME NEW w, NEW q \in Proc, NEW first \in Proc, NEW x \in Proc,
           CanHandle(w, q), ForkSafe(w, q), x # q => InStage(w, x), x = q => Ready(w, q)
    PROVE  InStage(HandleAndRestart(w, q, first), x)
<1> DEFINE v == HandleTraceeEvent(w, q, first)
<1>1. Frame(v, w, q)
  BY HandleIsGood
<1>2. /\ x # q /\ InStage(w, x) => InStage(v, x)
      /\ Ready(w, q) => Done(v, q)
      /\ ~v.T[q].proot
  BY HandleInStage
<1> HIDE DEF v
<1>3. Good(v) /\ Able(v, q) /\ v.T[q].listed
  BY <1>1 DEF Frame, SamePlaces, CanHandle, Able
<1>4. CASE w.at[q] = "dead"
  <2>1. HandleAndRestart(w, q, first) = RemoveTracee(v, q)
    BY <1>4 DEF HandleAndRestart, v
  <2> QED
    BY <1>2, <1>3, <2>1, RemoveInStage
<1>5. CASE w.at[q] # "dead"
  <2>1. HandleAndRestart(w, q, first) = RestartTracee(v, q)
    BY <1>5 DEF HandleAndRestart, v
  <2>2. CASE x # q
    BY <1>2, <1>3, <2>1, <2>2, RestartInStage DEF Good
  <2>3. CASE x = q /\ v.at[q] \in Live
    <3>1. InStage(v, q)
      BY <1>2, <2>3, DoneInStage
    <3>2. v.stop[q] # "event"
      BY <1>2, <2>3 DEF Done
    <3> QED
      BY <1>2, <1>3, <2>1, <2>3, <3>1, <3>2, RestartInStage DEF Good
  <2>4. CASE x = q /\ v.at[q] \notin Live
    <3>1. RestartEffect(RestartTracee(v, q), v, q)
      BY <1>3, RestartTraceeEffect DEF Good
    <3>2. RestartTracee(v, q).at[q] \notin Live
      BY <2>4, <3>1 DEF RestartEffect, Live
    <3> QED
      BY <2>1, <2>4, <3>2 DEF InStage
  <2> QED
    BY <2>2, <2>3, <2>4
<1> QED
  BY <1>4, <1>5

\* What waitpid returned.
LEMMA TakenInStage ==
    ASSUME NEW q \in Proc, NEW x \in Proc, Good(World), Event(q), InStage(World, x)
    PROVE  /\ x # q => InStage(Taken(q), x)
           /\ x = q => Ready(Taken(q), q)
           /\ Taken(q).T[q].status = T[q].status
<1> DEFINE n == T[q]
           t == IF n.listed THEN n ELSE NewTracee
           s == [t EXCEPT !.running = FALSE]
           v == [World EXCEPT !.T[q] = s, !.stop[q] = "taken"]
<1>0. /\ World.T = T /\ World.at = at /\ World.stop = stop /\ World \in WorldType
      /\ n \in TraceeType /\ stop[q] = "event"
  BY DEF World, Good, WorldType, Event
<1>1. Taken(q) = v
  BY <1>0 DEF Taken, WorldType
<1>2. /\ v.at = at /\ v.stop[q] = "taken" /\ v.T[q] = s
      /\ \A y \in Proc \ {q} : v.T[y] = T[y] /\ v.stop[y] = stop[y]
  BY <1>0 DEF WorldType
<1> HIDE DEF v
<1>3. ~n.listed => n = NoTracee
  BY <1>0 DEF Good, Linked
<1> HIDE DEF n
<1>4. s.listed /\ s.status = n.status /\ s.wait_pid = n.wait_pid
  <2>1. t \in TraceeType /\ t.listed /\ t.status = n.status /\ t.wait_pid = n.wait_pid
    <3>1. CASE n.listed
      BY <1>0, <3>1
    <3>2. CASE ~n.listed
      BY <1>3, <3>2 DEF TraceeType, NewTracee, NoTracee
    <3> QED
      BY <3>1, <3>2
  <2> HIDE DEF t
  <2> QED
    BY <2>1 DEF TraceeType
<1> HIDE DEF s
<1>s. Taken(q).T[q].status = T[q].status
  BY <1>1, <1>2, <1>4 DEF n
<1>5. CASE x # q
  BY <1>0, <1>1, <1>2, <1>s, <1>5 DEF InStage
<1>6. CASE x = q
  <2>1. ASSUME at[q] \in Live
        PROVE  /\ n.wait_pid = NoProc /\ at[q] # "again"
               /\ n.status = (IF at[q] \in {"exit", "note"} THEN 1 ELSE 0)
    <3>1. StageOf(n, at[q], "event")
      BY <1>0, <1>6, <2>1 DEF InStage, n
    <3> QED
      BY <2>1, <3>1 DEF StageOf, Live
  <2> QED
    BY <1>1, <1>2, <1>4, <1>s, <1>6, <2>1 DEF Ready
<1> QED
  BY <1>5, <1>6

\* restart_tracee, for the ptracer p, which no longer sleeps.
LEMMA RestartPtracerInStage ==
    ASSUME NEW u, NEW w, NEW p \in Proc, NEW q \in Proc \ {p}, NEW x \in Proc, Good(w), Good(u),
           w.T[p].wait_pid # NoProc, WokenEffect(u, w, p, q), SamePlaces(u, w), InStage(w, x)
    PROVE  InStage(RestartTracee(u, p), x)
<1>1. w \in WorldType /\ u \in WorldType
  BY DEF Good
<1>2. CASE x # p
  <2>1. InStage(u, x)
    BY <1>2, WokenInStage
  <2> QED
    BY <1>1, <1>2, <2>1, RestartInStage
<1>3. CASE x = p
  <2>1. /\ InStage(u, p)
        /\ u.at[p] \in Live => u.T[p].listed /\ ~u.T[p].proot /\ u.stop[p] = "taken"
    BY <1>1, <1>3, SleeperInStage
  <2>2. CASE u.at[p] \in Live
    <3>1. u.T[p].listed /\ ~u.T[p].proot /\ u.stop[p] # "event"
      BY <2>1, <2>2
    <3> QED
      BY <1>1, <1>3, <2>1, <3>1, RestartInStage
  <2>3. CASE u.at[p] \notin Live
    <3>1. RestartEffect(RestartTracee(u, p), u, p)
      BY <1>1, RestartTraceeEffect
    <3>2. RestartTracee(u, p).at[p] \notin Live
      BY <2>3, <3>1 DEF RestartEffect, Live
    <3> QED
      BY <1>3, <3>2 DEF InStage
  <2> QED
    BY <2>2, <2>3
<1> QED
  BY <1>2, <1>3

\* An iteration of event_loop, for one process x: the one whose event it
\* handles, unless this is done twice, its ptracer, or any other.
LEMMA IterationInStage ==
    ASSUME Sound, NEW q \in Proc, NEW first \in Proc, NEW x \in Proc,
           HandleTracee(q, first) \/ HandlePtracee(q, first) \/ HandleAwaited(q, first),
           InStage(World, x), x \notin twice'
    PROVE  \E w : Good(w) /\ Become(w) /\ InStage(w, x)
<1> DEFINE t == Taken(q)
           v == Notified(t, q, first)
<1>0. Event(q) /\ Good(World) /\ CallsTyped /\ \A y \in Proc : Forked(World, y)
  BY DEF Sound, HandleTracee, HandlePtracee, HandleAwaited
<1>1. /\ CanHandle(t, q) /\ ForkSafe(t, q) /\ t.T[q].ptracer = T[q].ptracer /\ t.at = World.at
  BY <1>0, TakenIsGood DEF World
<1>2. /\ x # q => InStage(t, x)
      /\ x = q => Ready(t, q)
      /\ t.T[q].status = World.T[q].status
  BY <1>0, TakenInStage DEF World
<1>3. CASE HandleTracee(q, first)
  <2> DEFINE w == HandleAndRestart(t, q, first)
  <2>1. Good(w)
    BY <1>1, HandleAndRestartIsGood
  <2>2. Become(w)
    BY <1>3 DEF HandleTracee
  <2> HIDE DEF t
  <2>3. InStage(w, x)
    BY <1>1, <1>2, HandleAndRestartInStage
  <2> HIDE DEF w
  <2> QED
    BY <2>1, <2>2, <2>3
<1>4. Frame(v, t, q)
  BY <1>1, NotifiedIsGood
<1>5. ASSUME T[q].ptracer # NoProc
      PROVE  CanHandle(v, q) /\ ForkSafe(v, q) /\ v.T[q].ptracer = T[q].ptracer
  <2> HIDE DEF v, t
  <2> QED
    BY <1>1, <1>4, <1>5, CanHandleStays DEF Frame
<1>6. ASSUME T[q].ptracer # NoProc
      PROVE  InStage(v, x)
  <2> HIDE DEF t
  <2>1. /\ x # q /\ InStage(t, x) => InStage(v, x)
        /\ Ready(t, q) /\ t.T[q].ptracer # NoProc => InStage(v, q)
    BY <1>1, NotifiedInStage
  <2> HIDE DEF v
  <2> QED
    BY <1>1, <1>2, <1>6, <2>1
<1>7. ASSUME x = q, v.at[q] = "dead" \/ ~HandledFirst(World, q)
      PROVE  Ready(v, q)
  <2>1. CASE v.at[q] = "dead"
    <3> HIDE DEF v
    <3> QED
      BY <2>1 DEF Ready, Live
  <2>2. CASE ~HandledFirst(World, q)
    <3>1. ~HandledFirst(t, q)
      <4> HIDE DEF t
      <4> QED
        BY <1>1, <1>2, <2>2 DEF HandledFirst, SyscallStop
    <3> HIDE DEF t
    <3> QED
      BY <1>1, <1>2, <1>7, <3>1, NotifiedInStage
  <2> QED
    BY <1>7, <2>1, <2>2
<1>8. CASE HandlePtracee(q, first)
  <2> DEFINE w == IF v.at[q] = "dead" THEN HandleAndRestart(v, q, first) ELSE v
  <2>1. Become(w) /\ T[q].ptracer # NoProc
    BY <1>8 DEF HandlePtracee
  <2> HIDE DEF t
  <2>2. CanHandle(v, q) /\ ForkSafe(v, q) /\ InStage(v, x)
    BY <1>5, <1>6, <2>1
  <2>3. x = q /\ v.at[q] = "dead" => Ready(v, q)
    BY <1>7
  <2> HIDE DEF v
  <2>4. Good(w)
    BY <2>2, HandleAndRestartIsGood DEF CanHandle
  <2>5. InStage(w, x)
    BY <2>2, <2>3, HandleAndRestartInStage
  <2> HIDE DEF w
  <2> QED
    BY <2>1, <2>4, <2>5
<1>9. CASE HandleAwaited(q, first)
  <2> DEFINE p == T[q].ptracer
             u == Woken(v, q)
             y == RestartTracee(u, p)
             w == IF v.at[q] = "dead" \/ ~Restartable(u, p) THEN HandleAndRestart(y, q, first)
                  ELSE y
  <2>1. /\ Become(w) /\ p # NoProc /\ Awaited(v, q)
        /\ x = q => ~HandledFirst(World, q) \/ Restartable(u, p)
    BY <1>9 DEF HandleAwaited
  <2> HIDE DEF t
  <2>2. /\ CanHandle(v, q) /\ ForkSafe(v, q) /\ v.T[q].ptracer = p /\ Good(v)
        /\ InStage(v, x)
        /\ x = q /\ (v.at[q] = "dead" \/ ~Restartable(u, p)) => Ready(v, q)
    <3>1. CanHandle(v, q) /\ ForkSafe(v, q) /\ v.T[q].ptracer = p /\ InStage(v, x)
      BY <1>5, <1>6, <2>1
    <3>2. x = q /\ (v.at[q] = "dead" \/ ~Restartable(u, p)) => Ready(v, q)
      <4> HIDE DEF v, p
      <4> QED
        BY <1>7, <2>1
    <3> HIDE DEF v, u, p
    <3> QED
      BY <3>1, <3>2 DEF CanHandle
  <2> HIDE DEF v
  <2>3. p \in Proc /\ p # q /\ v.T[p].listed /\ v.T[p].wait_pid # NoProc
    <3>1. p \in Proc /\ p # q /\ v.T[p].listed
      BY <2>1, <2>2 DEF Good, WorldType, TraceeType, Linked, Able
    <3>2. v.T[p].wait_pid \in {AnyPid, q}
      BY <2>1, <2>2 DEF Awaited
    <3> QED
      BY <3>1, <3>2, PtraceAssumption
  <2> HIDE DEF p
  <2>4. Good(u) /\ SamePlaces(u, v) /\ WokenEffect(u, v, p, q)
    BY <2>2, <2>3, WokenIsGood
  <2> HIDE DEF u
  <2>5. InStage(y, x)
    BY <2>2, <2>3, <2>4, RestartPtracerInStage
  <2>6. u.T[p].listed /\ u.T[q].listed = v.T[q].listed /\ u.T[q].options = v.T[q].options
        /\ u.T[q].ptracer \in {v.T[q].ptracer, NoProc}
    BY <2>3, <2>4 DEF WokenEffect
  <2>7. Frame(y, u, q)
    BY <2>3, <2>4, <2>6, RestartIsGood
  <2>8. Kept(y, u, q)
    <3>1. RestartEffect(y, u, p)
      BY <2>3, <2>4, RestartTraceeEffect DEF Good
    <3> QED
      BY <2>3, <3>1 DEF RestartEffect, Only
  <2> HIDE DEF y
  <2>9. SamePlaces(y, v) /\ Good(y)
    BY <2>4, <2>7 DEF Frame, SamePlaces
  <2>10. CanHandle(y, q) /\ ForkSafe(y, q)
    <3>1. CanHandle(y, q)
      BY <2>2, <2>6, <2>8, <2>9 DEF CanHandle, Able, SamePlaces, Kept
    <3>2. ForkSafe(y, q)
      BY <2>2, <2>6, <2>8, <2>9, ForkSafeStays DEF Kept
    <3> QED
      BY <3>1, <3>2
  <2>11. Ready(v, q) => Ready(y, q)
    BY <2>3, <2>4, <2>8 DEF WokenEffect, Kept, Ready
  <2>12. Good(w)
    BY <2>9, <2>10, HandleAndRestartIsGood
  <2>13. InStage(w, x)
    BY <2>2, <2>5, <2>10, <2>11, HandleAndRestartInStage
  <2> HIDE DEF w
  <2> QED
    BY <2>1, <2>12, <2>13
<1> QED
  BY <1>3, <1>8, <1>9

\* A process that runs stops with an event to report.
LEMMA StopStage ==
    ASSUME NEW t, NEW a, NEW b, StageOf(t, a, "no"),
           \/ a \in {"user", "again"} /\ b = "enter"
           \/ a = "user" /\ b = "user"
           \/ a \in {"enter", "note"} /\ b \in {"note", "exit"}
    PROVE  StageOf(t, b, "event")
  BY DEF StageOf

LEMMA StopInStage ==
    ASSUME Sound, NEW p \in Proc, NEW place \in {"user", "enter", "note", "exit", "dead"},
           Stops(p, place), T' = T,
           place = "dead" \/ /\ stop[p] = "no"
                             /\ \/ at[p] \in {"user", "again"} /\ place = "enter"
                                \/ at[p] = "user" /\ place = "user"
                                \/ at[p] \in {"enter", "note"} /\ place \in {"note", "exit"},
           NEW x \in Proc, InStage(World, x)
    PROVE  InStage(World, x)'
<1>1. /\ World.T = T /\ World.at = at /\ World.stop = stop
      /\ World'.T = T /\ World'.at = at' /\ World'.stop = stop'
  BY DEF World
<1>2. /\ at \in [Proc -> Places] /\ stop \in [Proc -> {"no", "event", "taken"}]
  BY <1>1 DEF Sound, Good, WorldType
<1> HIDE DEF World
<1>3. CASE x # p
  BY <1>1, <1>2, <1>3 DEF Stops, InStage
<1>4. CASE x = p
  <2>1. at'[p] = place /\ stop'[p] = "event"
    BY <1>2 DEF Stops
  <2>2. CASE place = "dead"
    BY <1>1, <1>4, <2>1, <2>2 DEF InStage, Live
  <2>3. CASE place # "dead"
    <3>1. StageOf(T[p], at[p], "no")
      BY <1>1, <1>4, <2>3 DEF InStage, Live
    <3>2. StageOf(T[p], place, "event")
      BY <2>3, <3>1, StopStage
    <3> QED
      BY <1>1, <1>4, <2>1, <3>2 DEF InStage
  <2> QED
    BY <2>2, <2>3
<1> QED
  BY <1>3, <1>4

\* The parent of the dead is stopped at the exit of its wait.
LEMMA CollectInStage ==
    ASSUME Sound, NEW p \in Proc, NEW q \in Proc, Collect(p, q), NEW x \in Proc, InStage(World, x)
    PROVE  InStage(World, x)'
<1>1. /\ World.T = T /\ World.at = at /\ World.stop = stop
      /\ World'.T = T' /\ World'.at = at' /\ World'.stop = stop' /\ T' = T
  BY DEF World, Collect
<1>2. /\ at \in [Proc -> Places] /\ stop \in [Proc -> {"no", "event", "taken"}]
  BY <1>1 DEF Sound, Good, WorldType
<1>3. stop[p] = "no" /\ at[p] \in {"enter", "note"} /\ at[q] = "zombie" /\ p # q
  BY DEF Collect, InCall, Runs
<1>4. /\ at'[p] = "exit" /\ at'[q] = "gone" /\ stop'[p] = "event"
      /\ \A y \in Proc \ {p, q} : at'[y] = at[y] /\ stop'[y] = stop[y]
  BY <1>2, <1>3 DEF Collect
<1> HIDE DEF World
<1>5. CASE x = p
  <2>1. StageOf(T[p], at[p], "no")
    BY <1>1, <1>3, <1>5 DEF InStage, Live
  <2>2. StageOf(T[p], "exit", "event")
    BY <1>3, <2>1, StopStage
  <2> QED
    BY <1>1, <1>4, <1>5, <2>2 DEF InStage
<1>6. CASE x = q
  BY <1>1, <1>4, <1>6 DEF InStage, Live
<1>7. CASE x # p /\ x # q
  BY <1>1, <1>4, <1>7 DEF InStage
<1> QED
  BY <1>5, <1>6, <1>7

\* The child of a fork is not known to the tracer before its first stop.
LEMMA ForkInStage ==
    ASSUME Sound, NEW p \in Proc, NEW c \in Proc, Fork(p, c), NEW x \in Proc, InStage(World, x)
    PROVE  InStage(World, x)'
<1>1. /\ World.T = T /\ World.at = at /\ World.stop = stop
      /\ World'.T = T' /\ World'.at = at' /\ World'.stop = stop' /\ T' = T
  BY DEF World, Fork
<1>2. /\ at \in [Proc -> Places] /\ stop \in [Proc -> {"no", "event", "taken"}]
  BY <1>1 DEF Sound, Good, WorldType
<1>3. stop[p] = "no" /\ at[p] = "enter" /\ at[c] = "absent" /\ p # c
  BY DEF Fork, InCall, Runs
<1>4. /\ at'[p] = "note" /\ at'[c] = "user" /\ stop'[p] = "event" /\ stop'[c] = "event"
      /\ \A y \in Proc \ {p, c} : at'[y] = at[y] /\ stop'[y] = stop[y]
  BY <1>2, <1>3 DEF Fork
<1> HIDE DEF World
<1>5. CASE x = p
  <2>1. StageOf(T[p], "enter", "no")
    BY <1>1, <1>3, <1>5 DEF InStage, Live
  <2>2. StageOf(T[p], "note", "event")
    BY <2>1, StopStage
  <2> QED
    BY <1>1, <1>4, <1>5, <2>2 DEF InStage
<1>6. CASE x = c
  <2>1. T[c] = NoTracee
    BY <1>1, <1>3 DEF Sound, Good, Steady, Linked
  <2>2. StageOf(NoTracee, "user", "event")
    BY DEF NoTracee, StageOf
  <2> QED
    BY <1>1, <1>4, <1>6, <2>1, <2>2 DEF InStage
<1>7. CASE x # p /\ x # c
  BY <1>1, <1>4, <1>7 DEF InStage
<1> QED
  BY <1>5, <1>6, <1>7

LEMMA KernelInStage ==
    ASSUME Sound, NEW p \in Proc, Kernel(p), NEW x \in Proc, InStage(World, x)
    PROVE  InStage(World, x)'
<1>1. ASSUME NEW c \in menu[p], Call(p, c)
      PROVE  InStage(World, x)'
  BY <1>1, StopInStage DEF Call, InUser, Runs
<1>2. CASE Again(p)
  BY <1>2, StopInStage DEF Again, Runs
<1>3. CASE Signal(p)
  BY <1>3, StopInStage DEF Signal, InUser, Runs
<1>4. CASE Note(p)
  BY <1>4, StopInStage DEF Note, InCall, Runs
<1>5. CASE Return(p)
  BY <1>5, StopInStage DEF Return, InCall, Runs
<1>6. CASE Killed(p)
  BY <1>6, StopInStage DEF Killed
<1> QED
  BY <1>1, <1>2, <1>3, <1>4, <1>5, <1>6, ForkInStage, CollectInStage DEF Kernel

Staged == Sound /\ \A x \in Proc \ twice : InStage(World, x)

LEMMA InitIsStaged == Init => Staged
<1> SUFFICES ASSUME Init PROVE Staged
  OBVIOUS
<1>1. ASSUME NEW x \in Proc
      PROVE  InStage(World, x)
  <2>1. World.T = T /\ World.at = at /\ World.stop = stop
    BY DEF World
  <2>2. CASE x \in Initial
    <3>1. /\ at[x] = "user" /\ stop[x] = "no"
          /\ T[x].listed /\ T[x].status = 0 /\ ~T[x].proot /\ T[x].wait_pid = NoProc
          /\ T[x].ptracer = NoProc
      BY <2>2 DEF Init, NewTracee, NoTracee
    <3> QED
      BY <2>1, <3>1 DEF InStage, StageOf
  <2>3. CASE x \notin Initial
    <3>1. at[x] = "absent"
      BY <2>3 DEF Init
    <3> QED
      BY <2>1, <3>1 DEF InStage, Live
  <2> QED
    BY <2>2, <2>3
<1> QED
  BY <1>1, InitIsSound DEF Staged

LEMMA NextIsStaged == Staged /\ [Next]_vars => Staged'
<1> SUFFICES ASSUME Staged, [Next]_vars PROVE Staged'
  OBVIOUS
<1>1. Sound /\ Sound'
  BY NextIsSound DEF Staged
<1>2. ASSUME NEW x \in Proc \ twice'
      PROVE  InStage(World, x)'
  <2>1. ASSUME NEW p \in Proc, Kernel(p)
        PROVE  InStage(World, x)'
    <3>1. twice' = twice
      BY <2>1 DEF Kernel, Call, Again, Signal, Note, Fork, Collect, Return, Killed
    <3> QED
      BY <1>1, <1>2, <2>1, <3>1, KernelInStage DEF Staged
  <2>2. ASSUME NEW q \in Proc, Iteration(q)
        PROVE  InStage(World, x)'
    <3>1. PICK first \in Proc :
            HandleTracee(q, first) \/ HandlePtracee(q, first) \/ HandleAwaited(q, first)
      BY <2>2 DEF Iteration
    <3>2. twice \subseteq twice'
      BY <3>1 DEF HandleTracee, HandlePtracee, HandleAwaited
    <3>3. PICK w : Good(w) /\ Become(w) /\ InStage(w, x)
      BY <1>1, <1>2, <3>1, <3>2, IterationInStage DEF Staged
    <3>4. World' = w
      BY <3>3 DEF Become, World, Good, WorldType
    <3> QED
      BY <3>3, <3>4 DEF InStage
  <2>3. CASE UNCHANGED vars
    <3>1. World' = World /\ twice' = twice
      BY <2>3 DEF vars, World
    <3> HIDE DEF World
    <3> QED
      BY <1>2, <3>1 DEF Staged, InStage
  <2> QED
    BY <2>1, <2>2, <2>3 DEF Next
<1> QED
  BY <1>1, <1>2 DEF Staged

LEMMA StagedStages == Staged => StagesKept
  BY DEF Staged, InStage, StageOf, Live, World, StagesKept

(***************************************************************************)
(* The status that handle_tracee_event reads to tell the enter from the    *)
(* exit stage is that of the system call the process is in, also when the  *)
(* event is handled late: by a ptrace call of the ptracer, by its death,   *)
(* or by the iteration that woke it.                                       *)
(***************************************************************************)
THEOREM StagesAreKept == Spec => []StagesKept
<1>1. Spec => []Staged
  BY InitIsStaged, NextIsStaged, PTL DEF Spec
<1> QED
  BY <1>1, StagedStages, PTL

-----------------------------------------------------------------------------
(***************************************************************************)
(* What holds a stopped ptracee.                                           *)
(*                                                                         *)
(* While the event of r is handled, another process q that is stopped, and *)
(* sleeps in no wait, is restarted by nothing but a request that r makes   *)
(* as its ptracer, or the death of r: every handler keeps it either dead,  *)
(* and then no restart is made, or a ptracee of the same p.                *)
(***************************************************************************)
Held(w, q, p) ==
    /\ w.stop[q] # "no"
    /\ w.at[q] = "dead" \/ (w.T[q].wait_pid = NoProc /\ w.T[q].ptracer = p)

\* r asks that q, of which it may be the ptracer, runs again.
Orders(r, q) == call[r].op \in Restarts /\ call[r].pid = q

\* Nothing changes that holds q.
StaysHeld(v, w, q) ==
    /\ v.at[q] = w.at[q] /\ v.stop[q] = w.stop[q]
    /\ v.T[q].wait_pid = w.T[q].wait_pid
    /\ w.at[q] # "dead" => v.T[q].ptracer = w.T[q].ptracer

LEMMA HeldStays ==
    ASSUME NEW v, NEW w, NEW q, NEW p, StaysHeld(v, w, q), Held(w, q, p)
    PROVE  Held(v, q, p)
  BY DEF StaysHeld, Held

LEMMA KeptStays ==
    ASSUME NEW v, NEW w, NEW q, NEW p, Kept(v, w, q), Held(w, q, p)
    PROVE  Held(v, q, p)
  BY DEF Kept, Held

\* The dead are not restarted.
LEMMA RestartHolds ==
    ASSUME NEW w \in WorldType, NEW z \in Proc, NEW q \in Proc, NEW p, Held(w, q, p),
           z = q => w.at[q] = "dead"
    PROVE  Held(RestartTracee(w, z), q, p)
<1> DEFINE v == RestartTracee(w, z)
<1>1. RestartEffect(v, w, z)
  BY RestartTraceeEffect
<1> HIDE DEF v
<1>2. CASE z # q
  <2>1. Kept(v, w, q)
    BY <1>1, <1>2 DEF RestartEffect, Only
  <2> QED
    BY <2>1, KeptStays DEF v
<1>3. CASE z = q
  <2>1. ~Restartable(w, q)
    BY <1>3 DEF Restartable
  <2>2. v.at[q] = "dead" /\ v.stop[q] = w.stop[q]
    BY <1>1, <1>3, <2>1 DEF RestartEffect
  <2> QED
    BY <2>2 DEF Held, v
<1> QED
  BY <1>2, <1>3

\* A request of r upon y.
LEMMA RequestHolds ==
    ASSUME NEW w, NEW r \in Proc, NEW y \in Proc, NEW q \in Proc, NEW p, Good(w), Able(w, r),
           NEW op \in Restarts \cup {"options"}, Held(w, q, p),
           ~(p = r /\ y = q /\ op \in Restarts)
    PROVE  Held(Request(w, r, op, y), q, p)
<1> DEFINE v == Configure(w, r, op, y)
           u == IF v.T[y].proot THEN HandlePending(v, y) ELSE v
<1>1. CASE w.T[y].ptracer # r \/ w.zombies[y].ptracer = r \/ w.T[y].running
  BY <1>1 DEF Request
<1>2. CASE ~(w.T[y].ptracer # r \/ w.zombies[y].ptracer = r \/ w.T[y].running)
  <2>1. Good(v) /\ ConfigureEffect(v, w, op, y)
    BY <1>2, ConfigureIsGood
  <2>2. Request(w, r, op, y) = IF op = "options" THEN v ELSE RestartTracee(u, y)
    BY <1>2 DEF Request
  <2>3. v \in WorldType
    BY <2>1 DEF Good
  <2> HIDE DEF v
  <2>4. PendingEffect(HandlePending(v, y), v, y)
    BY <2>3, HandlePendingEffect
  <2>5. u \in WorldType /\ u.at = v.at /\ u.stop = v.stop
        /\ \A x \in Proc \ {y} : u.T[x] = v.T[x]
    BY <2>3, <2>4 DEF PendingEffect, Only, Kept
  <2> HIDE DEF u
  <2>6. CASE y # q
    <3>1. Held(v, q, p)
      BY <2>1, <2>6 DEF ConfigureEffect, SameSleep, Held
    <3>2. Held(u, q, p)
      BY <2>5, <2>6, <3>1 DEF Held
    <3> QED
      BY <2>2, <2>5, <2>6, <3>1, <3>2, RestartHolds
  <2>7. CASE y = q /\ op = "options"
    <3>1. Held(v, q, p)
      BY <2>1, <2>7 DEF ConfigureEffect, SameSleep, Held
    <3> QED
      BY <2>2, <2>7, <3>1
  <2>8. CASE y = q /\ op # "options"
    <3>1. w.at[q] = "dead"
      BY <1>2, <2>8 DEF Held
    <3>2. v.at[q] = "dead" /\ v.stop[q] # "no"
      BY <2>1, <2>8, <3>1 DEF ConfigureEffect, Held
    <3>3. Held(u, q, p) /\ u.at[q] = "dead"
      BY <2>5, <3>2 DEF Held
    <3> QED
      BY <2>2, <2>5, <2>8, <3>3, RestartHolds
  <2> QED
    BY <2>6, <2>7, <2>8
<1> QED
  BY <1>1, <1>2

LEMMA AttachHolds ==
    ASSUME NEW v, NEW w, NEW y \in Proc, NEW q \in Proc, NEW p, p # NoProc,
           BecomesPtracee(v, w, y), Held(w, q, p)
    PROVE  Held(v, q, p)
<1>1. v.at = w.at /\ v.stop = w.stop /\ SameSleep(v.T[q], w.T[q])
  BY DEF BecomesPtracee
<1>2. v.T[q].ptracer = w.T[q].ptracer \/ w.T[q].ptracer = NoProc
  BY DEF BecomesPtracee
<1> QED
  BY <1>1, <1>2 DEF SameSleep, Held

\* The exit stage of r.
LEMMA ExitHolds ==
    ASSUME NEW w, NEW r \in Proc, NEW first \in Proc, NEW q \in Proc \ {r}, NEW p,
           p # NoProc, CanHandle(w, r), Held(w, q, p), ~(p = r /\ Orders(r, q))
    PROVE  LET e == ExitStage(w, r, first)
           IN  Held(e, q, p) /\ (e.at[r] = "dead" => w.at[r] = "dead")
<1> DEFINE n == w.T[r]
           t == [n EXCEPT !.status = 0]
           v == [w EXCEPT !.T[r] = t]
           c == call[r]
           e == ExitStage(w, r, first)
           Goal(u) == Held(u, q, p) /\ (u.at[r] = "dead" => w.at[r] = "dead")
<1>1. w \in WorldType /\ n \in TraceeType /\ n.listed
  BY DEF CanHandle, Good, Able, WorldType
<1> HIDE DEF n
<1>2. /\ t \in TraceeType /\ SameLinks(t, n) /\ t.running = n.running /\ t.options = n.options
  BY <1>1 DEF TraceeType, SameLinks
<1> USE DEF n
<1>3. Frame(v, w, r)
  BY <1>1, <1>2, PutIsGood DEF CanHandle
<1>4. Only(v, w, r) /\ v.at = w.at /\ v.stop = w.stop
  BY <1>1, <1>2, PutTracee
<1>5. [w EXCEPT !.T[r].status = 0] = v
  OBVIOUS
<1> HIDE DEF v, t
<1>6. Good(v) /\ Able(v, r) /\ v.T[r].listed /\ call \in [Proc -> CallType]
  BY <1>1, <1>3, <1>4 DEF Frame, CanHandle, Able, CallsTyped
<1>7. Held(v, q, p)
  BY <1>4, KeptStays DEF Only
<1>8. CASE c.op \in Waits /\ w.T[r].waits_in = "proot"
  <2>1. e = WaitExit(v, r, first)
    BY <1>5, <1>8 DEF ExitStage, Waits, Restarts
  <2>2. WaitEffect(e, v, r)
    BY <1>6, <2>1, WaitExitIsGood
  <2> HIDE DEF e
  <2>3. StaysHeld(e, v, q)
    BY <2>2 DEF WaitEffect, StaysHeld
  <2>4. e.at[r] \in {v.at[r], "again"}
    BY <2>2 DEF WaitEffect
  <2> QED
    BY <1>4, <1>7, <2>3, <2>4, HeldStays DEF e
<1>b. ASSUME NEW y \in Proc, BecomesPtracee(e, v, y)
      PROVE  Goal(e)
  <2> HIDE DEF e
  <2>1. Held(e, q, p)
    BY <1>7, <1>b, AttachHolds
  <2>2. e.at = v.at
    BY <1>b DEF BecomesPtracee
  <2> QED
    BY <1>4, <2>1, <2>2
<1>9. CASE c.op = "traceme"
  <2>1. e = Traceme(v, r)
    BY <1>5, <1>9 DEF ExitStage, Waits, Restarts
  <2>2. BecomesPtracee(e, v, r)
    BY <1>6, <2>1, TracemeIsGood
  <2> QED
    BY <1>b, <2>2
<1>10. CASE c.op = "attach" /\ c.pid \in Proc
  <2>1. e = Attach(v, r, c.pid)
    BY <1>5, <1>10 DEF ExitStage, Waits, Restarts
  <2>2. BecomesPtracee(e, v, c.pid)
    BY <1>6, <1>10, <2>1, AttachRequestIsGood
  <2> QED
    BY <1>10, <1>b, <2>2
<1>11. CASE c.op \in Restarts \cup {"options"} /\ c.pid \in Proc
  <2>1. e = Request(v, r, c.op, c.pid)
    BY <1>5, <1>11 DEF ExitStage, Waits, Restarts
  <2>2. StaysDone(e, v, r)
    BY <1>6, <1>11, <2>1, RequestStaysDone
  <2>3. ~(p = r /\ c.pid = q /\ c.op \in Restarts)
    BY DEF Orders
  <2>4. Held(e, q, p)
    BY <1>6, <1>7, <1>11, <2>1, <2>3, RequestHolds
  <2> HIDE DEF e
  <2> QED
    BY <1>4, <2>2, <2>4 DEF StaysDone, e
<1>12. CASE /\ ~(c.op \in Waits /\ w.T[r].waits_in = "proot")
            /\ c.op # "traceme" /\ ~(c.op = "attach" /\ c.pid \in Proc)
            /\ ~(c.op \in Restarts \cup {"options"} /\ c.pid \in Proc)
  <2>1. e = v
    BY <1>5, <1>12 DEF ExitStage
  <2> HIDE DEF e
  <2> QED
    BY <1>4, <1>7, <2>1 DEF e
<1> QED
  BY <1>8, <1>9, <1>10, <1>11, <1>12

LEMMA HandleHolds ==
    ASSUME NEW w, NEW r \in Proc, NEW first \in Proc, NEW q \in Proc \ {r}, NEW p,
           p # NoProc, CanHandle(w, r), ForkSafe(w, r), Held(w, q, p), ~(p = r /\ Orders(r, q))
    PROVE  LET h == HandleTraceeEvent(w, r, first)
           IN  Held(h, q, p) /\ (h.at[r] = "dead" => w.at[r] = "dead")
<1> DEFINE n == w.T[r]
           t == [n EXCEPT !.how = TRUE]
           v == [w EXCEPT !.T[r] = t]
           u == IF w.at[r] \in {"enter", "exit"}
                  THEN IF w.T[r].status = 0 THEN EnterStage(v, r) ELSE ExitStage(v, r, first)
                ELSE IF w.at[r] = "note" /\ call[r].op = "fork" THEN NewChild(v, r, call[r].pid)
                ELSE v
           h == HandleTraceeEvent(w, r, first)
           Goal(y) == Held(y, q, p) /\ (y.at[r] = "dead" => w.at[r] = "dead")
<1>1. n \in TraceeType /\ n.listed /\ w \in WorldType
  BY DEF CanHandle, Good, Able, WorldType
<1> HIDE DEF n
<1>2. /\ t \in TraceeType /\ SameLinks(t, n) /\ t.running = n.running
      /\ t.options = n.options /\ t.ptracer = n.ptracer
  BY <1>1 DEF TraceeType, SameLinks
<1> USE DEF n
<1>3. Frame(v, w, r)
  BY <1>1, <1>2, PutIsGood DEF CanHandle
<1>o. Only(v, w, r) /\ v.T[r] = t /\ v.at = w.at /\ v.stop = w.stop
  <2> HIDE DEF t
  <2> QED
    BY <1>1, <1>2, PutTracee
<1>4. h = [u EXCEPT !.T[r].proot = FALSE]
  BY DEF HandleTraceeEvent
<1> HIDE DEF v, t
<1>5. CanHandle(v, r) /\ Good(v) /\ v.T[r].listed
  BY <1>1, <1>3, <1>o DEF Frame, CanHandle, Able
<1>6. Goal(v)
  BY <1>o, KeptStays DEF Only
<1>7. u \in WorldType /\ Goal(u)
  <2>1. CASE w.at[r] \in {"enter", "exit"} /\ w.T[r].status = 0
    <3>1. u = EnterStage(v, r)
      BY <2>1
    <3>2. EnterEffect(u, v, r)
      BY <1>5, <3>1, EnterStageEffect DEF Good
    <3> HIDE DEF u
    <3>3. Held(u, q, p)
      BY <1>6, <3>2, KeptStays DEF EnterEffect, Only
    <3> QED
      BY <1>o, <3>2, <3>3 DEF EnterEffect, Only
  <2>2. CASE w.at[r] \in {"enter", "exit"} /\ w.T[r].status # 0
    <3>1. u = ExitStage(v, r, first)
      BY <2>2
    <3>2. u \in WorldType
      BY <1>5, <3>1, ExitIsGood DEF Frame, Good
    <3>3. Held(u, q, p) /\ (u.at[r] = "dead" => v.at[r] = "dead")
      BY <1>5, <1>6, <3>1, ExitHolds
    <3> HIDE DEF u
    <3> QED
      BY <1>o, <3>2, <3>3
  <2>3. CASE w.at[r] = "note" /\ call[r].op = "fork"
    <3>0. u = NewChild(v, r, call[r].pid)
      BY <2>3
    <3>1. ForkSafe(v, r) /\ v.at[r] = "note"
      BY <1>2, <1>o, <1>3, <2>3, ForkSafeStays DEF Frame
    <3>2. call[r].pid \in Proc \ {r}
      BY <3>1, <2>3 DEF ForkSafe, Forked
    <3>3. Frame(u, v, r) /\ NewChildEffect(u, v, r, call[r].pid)
      BY <1>5, <2>3, <3>0, <3>1, <3>2, NewChildIsGood
    <3> HIDE DEF u
    <3>4. u.at = v.at /\ u.stop = v.stop
      BY <3>3 DEF NewChildEffect
    <3>5. CASE q # call[r].pid
      <4>1. u.T[q].wait_pid = v.T[q].wait_pid /\ u.T[q].ptracer = v.T[q].ptracer
        BY <3>3, <3>5 DEF NewChildEffect, SameSleep
      <4> QED
        BY <1>o, <1>6, <3>3, <3>4, <4>1 DEF Held, Frame, Good
    <3>6. CASE q = call[r].pid
      <4>1. \/ u.T[q] = v.T[q]
            \/ v.T[q].ptracer = NoProc
        BY <3>3, <3>6 DEF NewChildEffect
      <4> QED
        BY <1>o, <1>6, <3>3, <3>4, <4>1 DEF Held, Frame, Good
    <3> QED
      BY <3>5, <3>6
  <2>4. CASE w.at[r] \notin {"enter", "exit"} /\ ~(w.at[r] = "note" /\ call[r].op = "fork")
    <3>1. u = v
      BY <2>4
    <3> HIDE DEF u
    <3> QED
      BY <1>5, <1>6, <3>1 DEF Good
  <2> QED
    BY <2>1, <2>2, <2>3, <2>4
<1> DEFINE m == u.T[r]
           s == [m EXCEPT !.proot = FALSE]
<1> HIDE DEF u
<1>8. m \in TraceeType
  BY <1>7 DEF WorldType
<1> HIDE DEF m
<1>9. s \in TraceeType
  BY <1>8 DEF TraceeType
<1> USE DEF m
<1>10. [u EXCEPT !.T[r].proot = FALSE] = [u EXCEPT !.T[r] = s]
  OBVIOUS
<1>11. Only(h, u, r) /\ h.at = u.at
  <2>1. h = [u EXCEPT !.T[r] = s]
    BY <1>4, <1>10
  <2> HIDE DEF h, s
  <2> QED
    BY <1>7, <1>9, <2>1, PutTracee
<1> HIDE DEF h, s
<1>12. Held(h, q, p)
  BY <1>7, <1>11, KeptStays DEF Only
<1> QED
  BY <1>7, <1>11, <1>12 DEF h

LEMMA NotifiedHolds ==
    ASSUME NEW w, NEW r \in Proc, NEW first \in Proc, NEW q \in Proc \ {r}, NEW p,
           p # NoProc, CanHandle(w, r), ForkSafe(w, r), Held(w, q, p), ~(p = r /\ Orders(r, q))
    PROVE  LET k == Notified(w, r, first)
           IN  Held(k, q, p) /\ (k.at[r] = "dead" => w.at[r] = "dead")
<1> DEFINE n == w.T[r]
           b == n.tracing_started \/ ~SyscallStop(w, r)
           t == [n EXCEPT !.proot = TRUE, !.tracing_started = b]
           v == [w EXCEPT !.T[r] = t]
           u == IF HandledFirst(w, r) THEN HandleTraceeEvent(v, r, first) ELSE v
           k == Notified(w, r, first)
<1>1. n \in TraceeType /\ n.listed /\ w \in WorldType
  BY DEF CanHandle, Good, Able, WorldType
<1>b. b \in BOOLEAN
  BY <1>1 DEF TraceeType
<1> HIDE DEF n, b
<1>2. /\ t \in TraceeType /\ SameLinks(t, n) /\ t.running = n.running
      /\ t.options = n.options /\ t.ptracer = n.ptracer
  BY <1>1, <1>b DEF TraceeType, SameLinks
<1> USE DEF n
<1>3. Frame(v, w, r)
  BY <1>1, <1>2, PutIsGood DEF CanHandle
<1>o. Only(v, w, r) /\ v.T[r] = t /\ v.at = w.at /\ v.stop = w.stop
  <2> HIDE DEF t
  <2> QED
    BY <1>1, <1>2, PutTracee
<1>4. k = [u EXCEPT !.T[r].untold = TRUE]
  <2> DEFINE y == [w EXCEPT !.T[r].proot = TRUE,
                            !.T[r].tracing_started = @ \/ ~SyscallStop(w, r)]
  <2>1. [w EXCEPT !.T[r].proot = TRUE, !.T[r].tracing_started = b] = v
    OBVIOUS
  <2>2. y = v
    BY <2>1 DEF b
  <2>3. k = [(IF HandledFirst(w, r) THEN HandleTraceeEvent(y, r, first) ELSE y) EXCEPT
               !.T[r].untold = TRUE]
    BY DEF Notified
  <2> HIDE DEF y, v, k
  <2> QED
    BY <2>2, <2>3
<1> HIDE DEF v, t, k
<1>5. CanHandle(v, r) /\ ForkSafe(v, r)
  <2>1. CanHandle(v, r)
    BY <1>1, <1>2, <1>3, <1>o DEF Frame, CanHandle, Able
  <2>2. ForkSafe(v, r)
    BY <1>2, <1>3, <1>o, ForkSafeStays DEF Frame
  <2> QED
    BY <2>1, <2>2
<1>6. u \in WorldType
  BY <1>5, HandleIsGood DEF CanHandle, Frame, Good
<1>7. Held(u, q, p) /\ (u.at[r] = "dead" => w.at[r] = "dead")
  <2>1. Held(v, q, p)
    BY <1>o, KeptStays DEF Only
  <2>2. LET h == HandleTraceeEvent(v, r, first)
        IN  Held(h, q, p) /\ (h.at[r] = "dead" => v.at[r] = "dead")
    BY <1>5, <2>1, HandleHolds
  <2> QED
    BY <1>o, <2>1, <2>2
<1> DEFINE m == u.T[r]
           s == [m EXCEPT !.untold = TRUE]
<1> HIDE DEF u
<1>8. m \in TraceeType
  BY <1>6 DEF WorldType
<1> HIDE DEF m
<1>9. s \in TraceeType
  BY <1>8 DEF TraceeType
<1> USE DEF m
<1>10. [u EXCEPT !.T[r].untold = TRUE] = [u EXCEPT !.T[r] = s]
  OBVIOUS
<1>11. Only(k, u, r) /\ k.at = u.at
  <2>1. k = [u EXCEPT !.T[r] = s]
    BY <1>4, <1>10
  <2> HIDE DEF s
  <2> QED
    BY <1>6, <1>9, <2>1, PutTracee
<1> HIDE DEF s
<1>12. Held(k, q, p)
  BY <1>7, <1>11, KeptStays DEF Only
<1> QED
  BY <1>7, <1>11, <1>12 DEF k

\* The death of r, which is not the ptracer of q.
LEMMA RemoveHolds ==
    ASSUME NEW w, NEW r \in Proc, NEW q \in Proc \ {r}, NEW p, Good(w), Able(w, r),
           Held(w, q, p), p # r
    PROVE  Held(RemoveTracee(w, r), q, p)
<1> DEFINE o == w.T[r].ptracer
           a == ReleaseAll(w, r)
           l == LeavePtracer(a, r)
           z == RemoveTracee(w, r)
<1>1. /\ OrphanedEffect(a, w, r)
      /\ LeaveEffect(l, a, o, r)
      /\ RemoveEffect(z, l)
      /\ z.at = [l.at EXCEPT ![r] = "zombie"] /\ z.stop = [l.stop EXCEPT ![r] = "no"]
  BY RemoveTraceeEffect
<1> HIDE DEF a, l, z
<1>2. Held(a, q, p)
  <2>1. Orphaned(a, w, r, q)
    BY <1>1 DEF OrphanedEffect
  <2>2. CASE w.T[q].ptracer # r
    BY <2>1, <2>2 DEF Orphaned, SameSleep, Held
  <2>3. CASE w.T[q].ptracer = r
    <3>1. w.at[q] = "dead"
      BY <2>3 DEF Held
    <3>2. ~Resumable(w, q)
      BY <3>1 DEF Resumable
    <3> QED
      BY <2>1, <2>3, <3>1, <3>2 DEF Orphaned, Held
  <2> QED
    BY <2>2, <2>3
<1>3. Held(l, q, p)
  <2>1. CASE q = o
    <3>1. PtracerAfter(l, a, o, r)
      BY <1>1, <2>1, PtraceAssumption DEF LeaveEffect
    <3>2. CASE SameSleep(l.T[o], a.T[o]) /\ l.at[o] = a.at[o] /\ l.stop[o] = a.stop[o]
      BY <1>2, <2>1, <3>1, <3>2 DEF PtracerAfter, SameSleep, Held
    <3>3. CASE ~(SameSleep(l.T[o], a.T[o]) /\ l.at[o] = a.at[o] /\ l.stop[o] = a.stop[o])
      <4>1. a.at[q] = "dead"
        BY <1>2, <2>1, <3>1, <3>3 DEF PtracerAfter, Held
      <4> QED
        BY <1>2, <2>1, <3>1, <3>3, <4>1 DEF PtracerAfter, Held
    <3> QED
      BY <3>2, <3>3
  <2>2. CASE q # o
    <3>1. l.T[q] = a.T[q] /\ l.at[q] = a.at[q] /\ l.stop[q] = a.stop[q]
      BY <1>1, <2>2 DEF LeaveEffect
    <3> QED
      BY <1>2, <3>1 DEF Held
  <2> QED
    BY <2>1, <2>2
<1>4. z.T[q] = l.T[q] /\ z.at[q] = l.at[q] /\ z.stop[q] = l.stop[q]
  <2>1. l.at \in [Proc -> Places] /\ l.stop \in [Proc -> {"no", "event", "taken"}]
    BY <1>1 DEF LeaveEffect, WorldType
  <2> QED
    BY <1>1, <2>1 DEF RemoveEffect
<1> QED
  BY <1>3, <1>4 DEF Held, z

LEMMA HandleAndRestartHolds ==
    ASSUME NEW w, NEW r \in Proc, NEW first \in Proc, NEW q \in Proc \ {r}, NEW p,
           p # NoProc, CanHandle(w, r), ForkSafe(w, r), Held(w, q, p),
           ~(p = r /\ (Orders(r, q) \/ w.at[r] = "dead"))
    PROVE  Held(HandleAndRestart(w, r, first), q, p)
<1> DEFINE v == HandleTraceeEvent(w, r, first)
<1>1. Frame(v, w, r)
  BY HandleIsGood
<1>2. Held(v, q, p)
  BY HandleHolds
<1> HIDE DEF v
<1>3. Good(v) /\ Able(v, r)
  BY <1>1 DEF Frame, SamePlaces, CanHandle, Able
<1>4. CASE w.at[r] = "dead"
  <2>1. HandleAndRestart(w, r, first) = RemoveTracee(v, r)
    BY <1>4 DEF HandleAndRestart, v
  <2> QED
    BY <1>2, <1>3, <1>4, <2>1, RemoveHolds
<1>5. CASE w.at[r] # "dead"
  <2>1. HandleAndRestart(w, r, first) = RestartTracee(v, r)
    BY <1>5 DEF HandleAndRestart, v
  <2> QED
    BY <1>2, <1>3, <2>1, RestartHolds DEF Good
<1> QED
  BY <1>4, <1>5

\* An iteration of event_loop, for a process q whose event it does not handle.
LEMMA IterationHolds ==
    ASSUME Sound, NEW r \in Proc, NEW first \in Proc, NEW q \in Proc \ {r}, NEW p,
           HandleTracee(r, first) \/ HandlePtracee(r, first) \/ HandleAwaited(r, first),
           p # NoProc, Held(World, q, p), ~(p = r /\ (Orders(r, q) \/ at[r] = "dead"))
    PROVE  \E w : Good(w) /\ Become(w) /\ Held(w, q, p)
<1> DEFINE t == Taken(r)
           v == Notified(t, r, first)
           Spared(y) == ~(p = r /\ (Orders(r, q) \/ y.at[r] = "dead"))
<1>0. Event(r) /\ Good(World) /\ CallsTyped /\ \A y \in Proc : Forked(World, y)
  BY DEF Sound, HandleTracee, HandlePtracee, HandleAwaited
<1>1. /\ CanHandle(t, r) /\ ForkSafe(t, r) /\ t.T[r].ptracer = T[r].ptracer /\ t.at = at
  BY <1>0, TakenIsGood
<1>2. Held(t, q, p)
  <2>1. /\ World.T = T /\ World.at = at /\ World.stop = stop
    BY DEF World
  <2>2. Held(World, q, p)
    OBVIOUS
  <2>3. t.T[q] = T[q] /\ t.stop[q] = stop[q]
    <3>1. \A d : [World EXCEPT !.T[r] = d, !.stop[r] = "taken"].T[q] = World.T[q]
      BY <1>0 DEF Good, WorldType
    <3>2. \A d : [World EXCEPT !.T[r] = d, !.stop[r] = "taken"].stop[q] = World.stop[q]
      BY <1>0 DEF Good, WorldType
    <3> HIDE DEF World
    <3> QED
      BY <2>1, <3>1, <3>2 DEF Taken
  <2> HIDE DEF World, t
  <2> QED
    BY <1>1, <2>1, <2>2, <2>3 DEF Held
<1>3. CASE HandleTracee(r, first)
  <2> DEFINE w == HandleAndRestart(t, r, first)
  <2>1. Good(w)
    BY <1>1, HandleAndRestartIsGood
  <2>2. Become(w)
    BY <1>3 DEF HandleTracee
  <2> HIDE DEF t
  <2>3. Held(w, q, p)
    BY <1>1, <1>2, HandleAndRestartHolds
  <2> HIDE DEF w
  <2> QED
    BY <2>1, <2>2, <2>3
<1>4. Frame(v, t, r)
  BY <1>1, NotifiedIsGood
<1>5. ASSUME T[r].ptracer # NoProc
      PROVE  CanHandle(v, r) /\ ForkSafe(v, r) /\ v.T[r].ptracer = T[r].ptracer
  <2> HIDE DEF v, t
  <2> QED
    BY <1>1, <1>4, <1>5, CanHandleStays DEF Frame
<1>6. Held(v, q, p) /\ Spared(v)
  <2> HIDE DEF t
  <2>1. Held(v, q, p) /\ (v.at[r] = "dead" => t.at[r] = "dead")
    BY <1>1, <1>2, NotifiedHolds
  <2> HIDE DEF v
  <2> QED
    BY <1>1, <2>1
<1> HIDE DEF Spared
<1>7. CASE HandlePtracee(r, first)
  <2> DEFINE w == IF v.at[r] = "dead" THEN HandleAndRestart(v, r, first) ELSE v
  <2>1. Become(w) /\ T[r].ptracer # NoProc
    BY <1>7 DEF HandlePtracee
  <2> HIDE DEF t
  <2>2. CanHandle(v, r) /\ ForkSafe(v, r)
    BY <1>5, <2>1
  <2> HIDE DEF v
  <2>3. Good(w)
    BY <2>2, HandleAndRestartIsGood DEF CanHandle
  <2>4. Held(w, q, p)
    BY <1>6, <2>2, HandleAndRestartHolds DEF Spared
  <2> HIDE DEF w
  <2> QED
    BY <2>1, <2>3, <2>4
<1>8. CASE HandleAwaited(r, first)
  <2> DEFINE o == T[r].ptracer
             u == Woken(v, r)
             y == RestartTracee(u, o)
             w == IF v.at[r] = "dead" \/ ~Restartable(u, o) THEN HandleAndRestart(y, r, first)
                  ELSE y
  <2>1. Become(w) /\ o # NoProc /\ Awaited(v, r)
    BY <1>8 DEF HandleAwaited
  <2> HIDE DEF t
  <2>2. /\ CanHandle(v, r) /\ ForkSafe(v, r) /\ v.T[r].ptracer = o /\ Good(v)
    BY <1>5, <2>1 DEF CanHandle
  <2> HIDE DEF v
  <2>3. o \in Proc /\ o # r /\ v.T[o].listed /\ v.T[o].wait_pid # NoProc
    <3> HIDE DEF o
    <3>0. Linked(v, r) /\ v.T[r] \in TraceeType
      BY <2>2 DEF Good, WorldType
    <3>1. o \in Proc /\ o # r /\ v.T[o].listed
      <4>1. o \in Proc \cup {NoProc}
        BY <2>2, <3>0 DEF TraceeType
      <4>2. Able(v, o) /\ o # r
        BY <2>1, <2>2, <3>0 DEF Linked
      <4> QED
        BY <2>1, <4>1, <4>2 DEF Able
    <3>2. v.T[o].wait_pid \in {AnyPid, r}
      BY <2>1, <2>2 DEF Awaited
    <3> QED
      BY <3>1, <3>2, PtraceAssumption
  <2> HIDE DEF o
  <2>4. Good(u) /\ SamePlaces(u, v) /\ WokenEffect(u, v, o, r)
    BY <2>2, <2>3, WokenIsGood
  <2> HIDE DEF u
  <2>5. Held(u, q, p) /\ (q = o => u.at[q] = "dead")
    <3>1. CASE q = o
      <4>1. v.at[q] = "dead"
        BY <1>6, <2>3, <3>1 DEF Held
      <4> QED
        BY <1>6, <2>4, <3>1, <4>1 DEF WokenEffect, Held
    <3>2. CASE q # o
      <4>1. StaysHeld(u, v, q)
        BY <2>4, <3>2 DEF WokenEffect, StaysHeld
      <4> QED
        BY <1>6, <3>2, <4>1, HeldStays
    <3> QED
      BY <3>1, <3>2
  <2>6. Held(y, q, p)
    BY <2>3, <2>4, <2>5, RestartHolds DEF Good
  <2>7. u.T[o].listed /\ u.T[r].listed = v.T[r].listed /\ u.T[r].options = v.T[r].options
        /\ u.T[r].ptracer \in {v.T[r].ptracer, NoProc} /\ u.at[r] = v.at[r]
    BY <2>3, <2>4 DEF WokenEffect
  <2>8. Frame(y, u, r)
    BY <2>3, <2>4, <2>7, RestartIsGood
  <2>9. Kept(y, u, r)
    <3>1. RestartEffect(y, u, o)
      BY <2>3, <2>4, RestartTraceeEffect DEF Good
    <3> QED
      BY <2>3, <3>1 DEF RestartEffect, Only
  <2> HIDE DEF y
  <2>10. SamePlaces(y, v) /\ Good(y)
    BY <2>4, <2>8 DEF Frame, SamePlaces
  <2>11. CanHandle(y, r) /\ ForkSafe(y, r)
    <3>1. CanHandle(y, r)
      BY <2>2, <2>7, <2>9, <2>10 DEF CanHandle, Able, SamePlaces, Kept
    <3>2. ForkSafe(y, r)
      BY <2>2, <2>7, <2>9, <2>10, ForkSafeStays DEF Kept
    <3> QED
      BY <3>1, <3>2
  <2>12. y.at[r] = v.at[r]
    BY <2>7, <2>9 DEF Kept
  <2>13. Good(w)
    BY <2>10, <2>11, HandleAndRestartIsGood
  <2>14. Held(w, q, p)
    BY <1>6, <2>6, <2>11, <2>12, HandleAndRestartHolds DEF Spared
  <2> HIDE DEF w
  <2> QED
    BY <2>1, <2>13, <2>14
<1> QED
  BY <1>3, <1>7, <1>8

LEMMA KernelHolds ==
    ASSUME NEW p \in Proc, Kernel(p), NEW q \in Proc, stop[q] # "no", Sound
    PROVE  stop'[q] # "no"
<1>1. stop \in [Proc -> {"no", "event", "taken"}]
  BY SoundTyped DEF TypeOK
<1> QED
  BY <1>1 DEF Kernel, Call, Again, Signal, Note, Fork, Collect, Return, Killed, Stops

(***************************************************************************)
(* A ptracee that handle_ptracee_event keeps stopped stays so until its    *)
(* own ptracer makes a request that restarts it, or dies: neither the      *)
(* event of another process, nor the wait, the request or the death of     *)
(* another one makes restart_tracee run for it.                            *)
(***************************************************************************)
THEOREM ResumedByItsPtracer == Spec => ResumedByPtracer
<1> DEFINE Step == \A q \in Proc :
                     LET p == T[q].ptracer
                     IN  KeptStopped(q) /\ stop'[q] = "no" /\ p # NoProc /\ at[q] # "dead" =>
                             \/ at[p] = "dead"
                             \/ stop[p] = "event" /\ call[p].op \in Restarts /\ call[p].pid = q
<1>1. Sound /\ [Next]_vars => [Step]_vars
  <2> SUFFICES ASSUME Sound, Next,
                      NEW q \in Proc, KeptStopped(q), stop'[q] = "no",
                      T[q].ptracer # NoProc, at[q] # "dead"
               PROVE  LET p == T[q].ptracer
                      IN  \/ at[p] = "dead"
                          \/ stop[p] = "event" /\ call[p].op \in Restarts /\ call[p].pid = q
    BY DEF Step
  <2> DEFINE p == T[q].ptracer
  <2>1. stop[q] = "taken" /\ Held(World, q, p)
    BY DEF KeptStopped, Held, World
  <2>2. ~\E r \in Proc : Kernel(r)
    BY <2>1, KernelHolds
  <2>3. PICK r \in Proc, first \in Proc :
          HandleTracee(r, first) \/ HandlePtracee(r, first) \/ HandleAwaited(r, first)
    BY <2>2 DEF Next, Iteration
  <2>4. stop[r] = "event" /\ q # r
    BY <2>1, <2>3 DEF HandleTracee, HandlePtracee, HandleAwaited, Event
  <2>5. CASE p = r /\ (Orders(r, q) \/ at[r] = "dead")
    BY <2>4, <2>5 DEF Orders
  <2>6. CASE ~(p = r /\ (Orders(r, q) \/ at[r] = "dead"))
    <3> HIDE DEF p
    <3>1. PICK w : Good(w) /\ Become(w) /\ Held(w, q, p)
      BY <2>1, <2>3, <2>4, <2>6, IterationHolds DEF p
    <3>2. stop'[q] # "no"
      BY <3>1 DEF Become, Held
    <3> QED
      BY <3>2
  <2> QED
    BY <2>5, <2>6
<1> QED
  BY <1>1, SpecSound, PTL DEF Spec, ResumedByPtracer


-----------------------------------------------------------------------------
(***************************************************************************)
(* No ptracer sleeps over its news.                                        *)
(*                                                                         *)
(* A process that sleeps in an emulated wait has something left to wait    *)
(* for, and, unless it is dead, is stopped and can be restarted (Asleep).  *)
(* Nobody sleeps over y, and a dead y has still to be reported (Calm):     *)
(* the latter is why a dead ptracer, which cannot be restarted when it is  *)
(* woken, is no news that its own ptracer would have missed.               *)
(***************************************************************************)
Asleep(w, x) ==
    w.T[x].wait_pid # NoProc =>
        /\ w.T[x].nb_ptracees > 0
        /\ w.at[x] \in Live => w.T[x].how /\ w.stop[x] = "taken"

\* y is kept, dead or stopped, for its ptracer x.
KeptFor(w, y, x) ==
    \/ w.zombies[y].ptracer = x
    \/ /\ w.T[y].ptracer = x /\ ~w.T[y].running /\ w.T[y].untold
       /\ w.stop[y] = "taken" /\ w.T[y].wait_pid = NoProc

SleepsOver(w, x, y) ==
    w.T[x].wait_pid # NoProc /\ Matches(w.T[x].wait_pid, y) /\ KeptFor(w, y, x)

Calm(w, y) ==
    /\ w.at[y] = "dead" => w.stop[y] = "event"
    /\ \A x \in Proc : ~SleepsOver(w, x, y)

\* The event of r is being handled.
Rest(w, r) == /\ \A x \in Proc : Asleep(w, x)
              /\ \A y \in Proc \ {r} : Calm(w, y)

AllRest(w) == \A x \in Proc : Asleep(w, x) /\ Calm(w, x)

\* r, whose event is handled, stays stopped, and wakes nobody.
Turn(v, w, r) ==
    /\ v.stop[r] = w.stop[r]
    /\ w.T[r].how => v.T[r].how
    /\ \A x \in Proc \ {r} : v.T[x].wait_pid = w.T[x].wait_pid

LEMMA TurnTrans ==
    ASSUME NEW u, NEW v, NEW w, NEW r, Turn(u, v, r), Turn(v, w, r)
    PROVE  Turn(u, w, r)
  BY DEF Turn

\* A step that does not put x to sleep, and leaves it what it sleeps for.
Quiet(v, w, x) ==
    /\ v.T[x].wait_pid \in {w.T[x].wait_pid, NoProc}
    /\ v.T[x].wait_pid # NoProc =>
         /\ v.T[x].nb_ptracees \in {w.T[x].nb_ptracees, w.T[x].nb_ptracees + 1}
         /\ v.at[x] \in Live => /\ w.at[x] \in Live
                                /\ v.stop[x] = w.stop[x]
                                /\ w.T[x].how => v.T[x].how

\* A step that gives no ptracer of y a reason to be woken.
Unnewsed(v, w, y) ==
    /\ v.zombies[y] \in {w.zombies[y], NoZombie}
    /\ v.at[y] = "dead" => v.stop[y] = "event" \/ (w.at[y] = "dead" /\ v.stop[y] = w.stop[y])
    /\ \/ v.T[y].ptracer = NoProc \/ ~v.T[y].untold \/ v.stop[y] # "taken"
       \/ /\ v.T[y].ptracer = w.T[y].ptracer /\ v.stop[y] = w.stop[y]
          /\ w.T[y].running => v.T[y].running
          /\ v.T[y].untold => w.T[y].untold
          /\ v.T[y].wait_pid = w.T[y].wait_pid

\* As it slept before, or because it has found nothing now.
SleepsWell(v, w, x, r) ==
    \/ Quiet(v, w, x)
    \/ Asleep(v, x) /\ \A y \in Proc \ {r} : ~SleepsOver(v, x, y)

LEMMA RestsBut ==
    ASSUME NEW v, NEW w \in WorldType, NEW r, Rest(w, r),
           \A y \in Proc \ {r} : Unnewsed(v, w, y),
           \A x \in Proc : SleepsWell(v, w, x, r)
    PROVE  Rest(v, r)
<1>1. ASSUME NEW x \in Proc
      PROVE  Asleep(v, x)
  <2>1. Asleep(w, x) /\ w.T[x].nb_ptracees \in Nat
    BY DEF Rest, WorldType, TraceeType
  <2> QED
    BY <2>1 DEF Asleep, Quiet, SleepsWell
<1>2. ASSUME NEW y \in Proc \ {r}
      PROVE  Calm(v, y)
  <2>1. Calm(w, y) /\ Unnewsed(v, w, y)
    BY DEF Rest
  <2>2. v.at[y] = "dead" => v.stop[y] = "event"
    BY <2>1 DEF Calm, Unnewsed
  <2>3. ASSUME NEW x \in Proc, SleepsOver(v, x, y)
        PROVE  FALSE
    <3>0. Quiet(v, w, x)
      BY <2>3 DEF SleepsWell
    <3>1. v.T[x].wait_pid = w.T[x].wait_pid /\ x # NoProc
      BY <2>3, <3>0, PtraceAssumption DEF SleepsOver, Quiet
    <3>2. KeptFor(w, y, x)
      BY <2>1, <2>3, <3>1 DEF SleepsOver, KeptFor, Unnewsed, NoZombie
    <3>3. SleepsOver(w, x, y)
      BY <2>3, <3>1, <3>2 DEF SleepsOver
    <3> QED
      BY <2>1, <3>3 DEF Calm
  <2> QED
    BY <2>2, <2>3 DEF Calm
<1> QED
  BY <1>1, <1>2 DEF Rest

LEMMA QuietRests ==
    ASSUME NEW v, NEW w \in WorldType, NEW r, Rest(w, r),
           \A y \in Proc \ {r} : Unnewsed(v, w, y), \A x \in Proc : Quiet(v, w, x)
    PROVE  Rest(v, r)
<1>1. \A x \in Proc : SleepsWell(v, w, x, r)
  BY DEF SleepsWell
<1> QED
  BY <1>1, RestsBut

\* Only the structure of z changes, but for its pointers and its sleep.
LEMMA PutRests ==
    ASSUME NEW v, NEW w \in WorldType, NEW r, NEW z \in Proc, Rest(w, r), Only(v, w, z),
           SameLinks(v.T[z], w.T[z]), v.T[z].wait_pid = w.T[z].wait_pid,
           w.T[z].how => v.T[z].how, w.T[z].running => v.T[z].running,
           z = r \/ (v.T[z].untold => w.T[z].untold),
           v.at[z] = w.at[z], v.stop[z] = w.stop[z]
    PROVE  Rest(v, r)
<1>1. \A x \in Proc : Quiet(v, w, x)
  BY DEF Only, Kept, Quiet, SameLinks
<1>2. \A y \in Proc \ {r} : Unnewsed(v, w, y)
  BY DEF Only, Kept, Unnewsed, SameLinks
<1> QED
  BY <1>1, <1>2, QuietRests

LEMMA RestartRests ==
    ASSUME NEW w \in WorldType, NEW r, NEW z \in Proc, Rest(w, r)
    PROVE  Rest(RestartTracee(w, z), r)
<1> DEFINE v == RestartTracee(w, z)
<1>1. RestartEffect(v, w, z)
  BY RestartTraceeEffect
<1> HIDE DEF v
<1>2. ASSUME NEW x \in Proc
      PROVE  Quiet(v, w, x)
  <2>1. CASE Restartable(w, z)
    BY <1>1, <2>1 DEF RestartEffect, Restartable, Only, Kept, Quiet, SameLinks
  <2>2. CASE ~Restartable(w, z)
    BY <1>1, <2>2 DEF RestartEffect, Only, Kept, Quiet, SameLinks
  <2> QED
    BY <2>1, <2>2
<1>3. ASSUME NEW y \in Proc
      PROVE  Unnewsed(v, w, y)
  <2>1. CASE y # z
    BY <1>1, <2>1 DEF RestartEffect, Only, Kept, Unnewsed
  <2>2. CASE y = z /\ Restartable(w, z)
    BY <1>1, <2>2 DEF RestartEffect, Restartable, Only, Unnewsed
  <2>3. CASE y = z /\ ~Restartable(w, z)
    BY <1>1, <2>3 DEF RestartEffect, Only, Unnewsed, SameLinks, SamePtracee
  <2> QED
    BY <2>1, <2>2, <2>3
<1> QED
  BY <1>2, <1>3, QuietRests DEF v


\* A request of r upon q.
LEMMA RequestRests ==
    ASSUME NEW w, NEW r \in Proc, NEW q \in Proc, Good(w), Able(w, r),
           NEW op \in Restarts \cup {"options"}, Rest(w, r), w.T[r].wait_pid = NoProc
    PROVE  Rest(Request(w, r, op, q), r) /\ Turn(Request(w, r, op, q), w, r)
<1> DEFINE v == Configure(w, r, op, q)
           u == IF v.T[q].proot THEN HandlePending(v, q) ELSE v
           z == RestartTracee(u, q)
<1>1. CASE w.T[q].ptracer # r \/ w.zombies[q].ptracer = r \/ w.T[q].running
  BY <1>1 DEF Request, Turn
<1>2. CASE ~(w.T[q].ptracer # r \/ w.zombies[q].ptracer = r \/ w.T[q].running)
  <2>1. Good(v) /\ ConfigureEffect(v, w, op, q)
    BY <1>2, ConfigureIsGood
  <2>2. Request(w, r, op, q) = IF op = "options" THEN v ELSE z
    BY <1>2 DEF Request
  <2>3. v \in WorldType /\ w \in WorldType /\ q # r
    BY <1>2, <2>1, PtraceAssumption DEF Good, Linked
  <2> HIDE DEF v
  <2>4. Rest(v, r)
    <3>1. \A x \in Proc : Quiet(v, w, x)
      BY <1>2, <2>1 DEF ConfigureEffect, SameSleep, Quiet, Live
    <3>2. \A y \in Proc \ {r} : Unnewsed(v, w, y)
      BY <2>1 DEF ConfigureEffect, SameSleep, Unnewsed
    <3> QED
      BY <2>3, <3>1, <3>2, QuietRests
  <2>5. Turn(v, w, r)
    BY <2>1, <2>3 DEF ConfigureEffect, SameSleep, Turn
  <2>6. PendingEffect(HandlePending(v, q), v, q)
    BY <2>3, HandlePendingEffect
  <2>7. Rest(u, r) /\ Turn(u, v, r) /\ u \in WorldType
    <3>1. CASE u = v
      BY <2>3, <2>4, <3>1 DEF Turn
    <3>2. CASE u = HandlePending(v, q)
      <4>1. PendingEffect(u, v, q)
        BY <2>6, <3>2
      <4> HIDE DEF u
      <4>2. Rest(u, r)
        BY <2>3, <2>4, <4>1, PutRests DEF PendingEffect
      <4> QED
        BY <2>3, <4>1, <4>2 DEF PendingEffect, Only, Kept, Turn
    <3> QED
      BY <3>1, <3>2
  <2> HIDE DEF u
  <2>8. Rest(z, r)
    BY <2>7, RestartRests
  <2>9. Turn(z, u, r)
    <3>1. RestartEffect(z, u, q)
      BY <2>7, RestartTraceeEffect
    <3> QED
      BY <2>3, <3>1 DEF RestartEffect, Only, Kept, Turn
  <2> HIDE DEF z
  <2> QED
    BY <2>2, <2>4, <2>5, <2>7, <2>8, <2>9, TurnTrans
<1> QED
  BY <1>1, <1>2

LEMMA AttachRests ==
    ASSUME NEW v, NEW w \in WorldType, NEW r, NEW q \in Proc, BecomesPtracee(v, w, q), Rest(w, r),
           r \in Proc
    PROVE  Rest(v, r) /\ Turn(v, w, r)
<1>1. \A x \in Proc : Quiet(v, w, x)
  BY DEF BecomesPtracee, SameSleep, Quiet
<1>2. \A y \in Proc \ {r} : Unnewsed(v, w, y)
  BY DEF BecomesPtracee, SameSleep, SamePtracee, Unnewsed
<1>3. Turn(v, w, r)
  BY DEF BecomesPtracee, SameSleep, Turn
<1> QED
  BY <1>1, <1>2, <1>3, QuietRests

\* The wait of r: it sleeps only over what is no news.
LEMMA WaitRests ==
    ASSUME NEW v \in WorldType, NEW w \in WorldType, NEW r \in Proc, WaitEffect(v, w, r),
           Rest(w, r), w.T[r].wait_pid = NoProc, w.T[r].how, w.stop[r] = "taken"
    PROVE  Rest(v, r) /\ Turn(v, w, r)
<1>1. \A y \in Proc \ {r} : Unnewsed(v, w, y)
  BY DEF WaitEffect, Unnewsed
<1>2. \A x \in Proc \ {r} : SleepsWell(v, w, x, r)
  BY DEF WaitEffect, Quiet, SleepsWell
<1>3. SleepsWell(v, w, r, r)
  <2>1. CASE v.T[r].wait_pid = NoProc
    BY <2>1 DEF Quiet, SleepsWell
  <2>2. CASE v.T[r].wait_pid # NoProc
    <3>1. /\ v.T[r].nb_ptracees # 0
          /\ \A x \in Proc : Matches(v.T[r].wait_pid, x) =>
               /\ v.zombies[x].ptracer # r
               /\ ~(v.T[x].ptracer = r /\ ~v.T[x].running /\ v.T[x].untold)
      BY <2>2 DEF WaitEffect
    <3>2. v.T[r].nb_ptracees \in Nat
      BY DEF WorldType, TraceeType
    <3>3. Asleep(v, r)
      BY <3>1, <3>2 DEF WaitEffect, Asleep
    <3>4. \A y \in Proc : ~SleepsOver(v, r, y)
      BY <3>1 DEF SleepsOver, KeptFor
    <3> QED
      BY <3>3, <3>4 DEF SleepsWell
  <2> QED
    BY <2>1, <2>2
<1>4. Turn(v, w, r)
  BY DEF WaitEffect, Turn
<1>5. \A x \in Proc : SleepsWell(v, w, x, r)
  BY <1>2, <1>3
<1> QED
  BY <1>1, <1>4, <1>5, RestsBut

LEMMA NewChildRests ==
    ASSUME NEW v, NEW w \in WorldType, NEW r \in Proc, NEW c \in Proc \ {r},
           NewChildEffect(v, w, r, c), Rest(w, r), w.T[r].how
    PROVE  Rest(v, r) /\ Turn(v, w, r)
<1>1. ASSUME NEW x \in Proc
      PROVE  Quiet(v, w, x) /\ v.T[x].wait_pid = w.T[x].wait_pid
  <2>1. CASE x = c
    BY <2>1 DEF NewChildEffect, Quiet
  <2>2. CASE x # c
    BY <2>2 DEF NewChildEffect, SameSleep, Quiet
  <2> QED
    BY <2>1, <2>2
<1>2. ASSUME NEW y \in Proc \ {r}
      PROVE  Unnewsed(v, w, y)
  <2>1. CASE y = c
    BY <2>1 DEF NewChildEffect, Unnewsed
  <2>2. CASE y # c
    BY <2>2 DEF NewChildEffect, SameSleep, SamePtracee, Unnewsed
  <2> QED
    BY <2>1, <2>2
<1>3. Turn(v, w, r)
  BY <1>1 DEF NewChildEffect, SameSleep, Turn
<1> QED
  BY <1>1, <1>2, <1>3, QuietRests


\* The exit stage of r.
LEMMA ExitRests ==
    ASSUME NEW w, NEW r \in Proc, NEW first \in Proc, CanHandle(w, r), Rest(w, r),
           w.T[r].wait_pid = NoProc, w.T[r].how, w.stop[r] = "taken"
    PROVE  LET e == ExitStage(w, r, first)
           IN  /\ Rest(e, r) /\ Turn(e, w, r) /\ e.T[r].status = 0
               /\ e.at[r] \in {w.at[r], "again"}
<1> DEFINE n == w.T[r]
           t == [n EXCEPT !.status = 0]
           v == [w EXCEPT !.T[r] = t]
           c == call[r]
           e == ExitStage(w, r, first)
           Goal(u) == /\ Rest(u, r) /\ Turn(u, w, r) /\ u.T[r].status = 0
                      /\ u.at[r] \in {w.at[r], "again"}
<1>1. w \in WorldType /\ n \in TraceeType /\ n.listed
  BY DEF CanHandle, Good, Able, WorldType
<1> HIDE DEF n
<1>2. /\ t \in TraceeType /\ SameLinks(t, n) /\ t.running = n.running /\ t.options = n.options
      /\ t.wait_pid = n.wait_pid /\ t.how = n.how /\ t.status = 0
  BY <1>1 DEF TraceeType, SameLinks
<1> USE DEF n
<1>3. Frame(v, w, r)
  BY <1>1, <1>2, PutIsGood DEF CanHandle
<1>4. Only(v, w, r) /\ v.T[r] = t /\ v.at = w.at /\ v.stop = w.stop
  <2> HIDE DEF t
  <2> QED
    BY <1>1, <1>2, PutTracee
<1>5. [w EXCEPT !.T[r].status = 0] = v
  OBVIOUS
<1> HIDE DEF v, t
<1>6. Good(v) /\ Able(v, r) /\ v.T[r].listed /\ call \in [Proc -> CallType] /\ v \in WorldType
  BY <1>1, <1>3, <1>4 DEF Frame, CanHandle, Able, CallsTyped, Only
<1>7. /\ Rest(v, r) /\ Turn(v, w, r) /\ v.T[r].status = 0 /\ v.at[r] = w.at[r]
      /\ v.T[r].wait_pid = NoProc /\ v.T[r].how /\ v.stop[r] = "taken"
  <2>1. Rest(v, r)
    BY <1>1, <1>2, <1>4, PutRests
  <2> QED
    BY <1>2, <1>4, <2>1 DEF Only, Kept, Turn
<1> HIDE DEF n
<1>8. CASE c.op \in Waits /\ w.T[r].waits_in = "proot"
  <2>1. e = WaitExit(v, r, first)
    BY <1>5, <1>8 DEF ExitStage, Waits, Restarts
  <2>2. WaitEffect(e, v, r) /\ e \in WorldType
    BY <1>6, <2>1, WaitExitIsGood DEF Frame, Good
  <2> HIDE DEF e
  <2>3. Rest(e, r) /\ Turn(e, v, r)
    BY <1>6, <1>7, <2>2, WaitRests
  <2>4. e.T[r].status = 0 /\ e.at[r] \in {w.at[r], "again"}
    BY <1>7, <2>2 DEF WaitEffect
  <2> QED
    BY <1>7, <2>3, <2>4, TurnTrans DEF e
<1>b. ASSUME NEW y \in Proc, BecomesPtracee(e, v, y)
      PROVE  Goal(e)
  <2> HIDE DEF e
  <2>1. Rest(e, r) /\ Turn(e, v, r)
    BY <1>6, <1>7, <1>b, AttachRests
  <2>2. e.at = v.at /\ e.T[r].status = v.T[r].status
    BY <1>b DEF BecomesPtracee
  <2> QED
    BY <1>7, <2>1, <2>2, TurnTrans
<1>9. CASE c.op = "traceme"
  <2>1. e = Traceme(v, r)
    BY <1>5, <1>9 DEF ExitStage, Waits, Restarts
  <2>2. BecomesPtracee(e, v, r)
    BY <1>6, <2>1, TracemeIsGood
  <2> QED
    BY <1>b, <2>2
<1>10. CASE c.op = "attach" /\ c.pid \in Proc
  <2>1. e = Attach(v, r, c.pid)
    BY <1>5, <1>10 DEF ExitStage, Waits, Restarts
  <2>2. BecomesPtracee(e, v, c.pid)
    BY <1>6, <1>10, <2>1, AttachRequestIsGood
  <2> QED
    BY <1>10, <1>b, <2>2
<1>11. CASE c.op \in Restarts \cup {"options"} /\ c.pid \in Proc
  <2>1. e = Request(v, r, c.op, c.pid)
    BY <1>5, <1>11 DEF ExitStage, Waits, Restarts
  <2>2. StaysDone(e, v, r)
    BY <1>6, <1>11, <2>1, RequestStaysDone
  <2>3. Rest(e, r) /\ Turn(e, v, r)
    BY <1>6, <1>7, <1>11, <2>1, RequestRests
  <2> HIDE DEF e
  <2> QED
    BY <1>7, <2>2, <2>3, TurnTrans DEF StaysDone, e
<1>12. CASE /\ ~(c.op \in Waits /\ w.T[r].waits_in = "proot")
            /\ c.op # "traceme" /\ ~(c.op = "attach" /\ c.pid \in Proc)
            /\ ~(c.op \in Restarts \cup {"options"} /\ c.pid \in Proc)
  <2>1. e = v
    BY <1>5, <1>12 DEF ExitStage
  <2> HIDE DEF e
  <2> QED
    BY <1>7, <2>1 DEF e
<1> QED
  BY <1>8, <1>9, <1>10, <1>11, <1>12

\* r sleeps in no wait when the exit of a system call is handled; and, when an
\* event is handled twice, there is no exit the second time.
MayExit(w, r) ==
    w.at[r] \in {"enter", "exit"} /\ w.T[r].status # 0 => w.T[r].wait_pid = NoProc

LEMMA HandleRests ==
    ASSUME NEW w, NEW r \in Proc, NEW first \in Proc, CanHandle(w, r), ForkSafe(w, r),
           Rest(w, r), w.stop[r] = "taken", MayExit(w, r)
    PROVE  LET h == HandleTraceeEvent(w, r, first)
           IN  /\ Rest(h, r) /\ Turn(h, w, r) /\ h.T[r].how
               /\ w.T[r].status # 0 \/ w.at[r] = "note" => MayExit(h, r)
               /\ h.at[r] = "dead" => w.at[r] = "dead"
<1> DEFINE n == w.T[r]
           t == [n EXCEPT !.how = TRUE]
           v == [w EXCEPT !.T[r] = t]
           u == IF w.at[r] \in {"enter", "exit"}
                  THEN IF w.T[r].status = 0 THEN EnterStage(v, r) ELSE ExitStage(v, r, first)
                ELSE IF w.at[r] = "note" /\ call[r].op = "fork" THEN NewChild(v, r, call[r].pid)
                ELSE v
           h == HandleTraceeEvent(w, r, first)
           Goal(y) == /\ Rest(y, r) /\ Turn(y, v, r)
                      /\ w.T[r].status # 0 \/ w.at[r] = "note" => MayExit(y, r)
                      /\ y.at[r] = "dead" => w.at[r] = "dead"
<1>1. n \in TraceeType /\ n.listed /\ w \in WorldType
  BY DEF CanHandle, Good, Able, WorldType
<1> HIDE DEF n
<1>2. /\ t \in TraceeType /\ SameLinks(t, n) /\ t.running = n.running /\ t.how
      /\ t.options = n.options /\ t.ptracer = n.ptracer
      /\ t.wait_pid = n.wait_pid /\ t.status = n.status
  BY <1>1 DEF TraceeType, SameLinks
<1> USE DEF n
<1>3. Frame(v, w, r)
  BY <1>1, <1>2, PutIsGood DEF CanHandle
<1>o. Only(v, w, r) /\ v.T[r] = t /\ v.at = w.at /\ v.stop = w.stop
  <2> HIDE DEF t
  <2> QED
    BY <1>1, <1>2, PutTracee
<1>4. h = [u EXCEPT !.T[r].proot = FALSE]
  BY DEF HandleTraceeEvent
<1> HIDE DEF v, t
<1>5. CanHandle(v, r) /\ Good(v) /\ v.T[r].listed /\ v \in WorldType
  BY <1>1, <1>3, <1>o DEF Frame, CanHandle, Able, Only
<1>6. /\ Rest(v, r) /\ Turn(v, w, r) /\ v.T[r].how /\ v.stop[r] = "taken" /\ v.at = w.at
      /\ v.T[r].wait_pid = w.T[r].wait_pid
  <2>1. Rest(v, r)
    BY <1>1, <1>2, <1>o, PutRests
  <2> QED
    BY <1>2, <1>o, <2>1 DEF Only, Kept, Turn
<1> HIDE DEF n
<1>7. u \in WorldType /\ Goal(u)
  <2>1. CASE w.at[r] \in {"enter", "exit"} /\ w.T[r].status = 0
    <3>1. u = EnterStage(v, r)
      BY <2>1
    <3>2. EnterEffect(u, v, r)
      BY <1>5, <3>1, EnterStageEffect
    <3> HIDE DEF u
    <3>3. Rest(u, r)
      BY <1>5, <1>6, <3>2, PutRests DEF EnterEffect, SameSleep
    <3>4. Turn(u, v, r)
      BY <3>2 DEF EnterEffect, SameSleep, Only, Kept, Turn
    <3> QED
      BY <1>o, <2>1, <3>2, <3>3, <3>4 DEF EnterEffect, Only
  <2>2. CASE w.at[r] \in {"enter", "exit"} /\ w.T[r].status # 0
    <3>1. u = ExitStage(v, r, first)
      BY <2>2
    <3>2. u \in WorldType
      BY <1>5, <3>1, ExitIsGood DEF Frame, Good
    <3>3. v.T[r].wait_pid = NoProc
      BY <1>6, <2>2 DEF MayExit
    <3>4. /\ Rest(u, r) /\ Turn(u, v, r) /\ u.T[r].status = 0
          /\ u.at[r] \in {v.at[r], "again"}
      BY <1>5, <1>6, <3>1, <3>3, ExitRests
    <3> HIDE DEF u
    <3> QED
      BY <1>o, <2>2, <3>2, <3>4 DEF MayExit
  <2>3. CASE w.at[r] = "note" /\ call[r].op = "fork"
    <3>0. u = NewChild(v, r, call[r].pid)
      BY <2>3
    <3>1. ForkSafe(v, r) /\ v.at[r] = "note"
      BY <1>2, <1>o, <1>3, <2>3, ForkSafeStays DEF Frame, n
    <3>2. call[r].pid \in Proc \ {r}
      BY <3>1, <2>3 DEF ForkSafe, Forked
    <3>3. Frame(u, v, r) /\ NewChildEffect(u, v, r, call[r].pid)
      BY <1>5, <2>3, <3>0, <3>1, <3>2, NewChildIsGood
    <3> HIDE DEF u
    <3>4. Rest(u, r) /\ Turn(u, v, r)
      BY <1>5, <1>6, <3>2, <3>3, NewChildRests
    <3>5. u \in WorldType
      BY <3>3 DEF Frame, Good
    <3>6. u.at[r] = "note"
      <4>1. u.at = v.at
        BY <3>3 DEF NewChildEffect
      <4> QED
        BY <3>1, <4>1
    <3> QED
      BY <2>3, <3>4, <3>5, <3>6 DEF MayExit
  <2>4. CASE w.at[r] \notin {"enter", "exit"} /\ ~(w.at[r] = "note" /\ call[r].op = "fork")
    <3>1. u = v
      BY <2>4
    <3>2. MayExit(v, r)
      BY <1>6, <2>4 DEF MayExit
    <3>3. Turn(v, v, r)
      BY DEF Turn
    <3> HIDE DEF u
    <3> QED
      BY <1>5, <1>6, <3>1, <3>2, <3>3
  <2> QED
    BY <2>1, <2>2, <2>3, <2>4
<1> DEFINE m == u.T[r]
           s == [m EXCEPT !.proot = FALSE]
<1> HIDE DEF u
<1>8. m \in TraceeType
  BY <1>7 DEF WorldType
<1> HIDE DEF m
<1>9. /\ s \in TraceeType /\ SameLinks(s, m) /\ SameSleep(s, m) /\ s.status = m.status
      /\ s.untold = m.untold
  BY <1>8 DEF TraceeType, SameLinks, SameSleep
<1> USE DEF m
<1>10. [u EXCEPT !.T[r].proot = FALSE] = [u EXCEPT !.T[r] = s]
  OBVIOUS
<1>11. Only(h, u, r) /\ h.T[r] = s /\ h.at = u.at /\ h.stop = u.stop
  <2>1. h = [u EXCEPT !.T[r] = s]
    BY <1>4, <1>10
  <2> HIDE DEF h, s
  <2> QED
    BY <1>7, <1>9, <2>1, PutTracee
<1> HIDE DEF h, s
<1>12. Rest(h, r)
  BY <1>7, <1>9, <1>11, PutRests DEF SameSleep
<1>13. Turn(h, u, r) /\ h.at[r] = u.at[r] /\ (MayExit(u, r) => MayExit(h, r))
  BY <1>9, <1>11 DEF Only, Kept, SameSleep, Turn, MayExit
<1>14. Turn(h, v, r)
  BY <1>7, <1>13, TurnTrans
<1>15. Turn(h, w, r) /\ h.T[r].how
  BY <1>6, <1>14, TurnTrans DEF Turn
<1> QED
  BY <1>7, <1>12, <1>13, <1>15 DEF h


LEMMA NotifiedRests ==
    ASSUME NEW w, NEW r \in Proc, NEW first \in Proc, CanHandle(w, r), ForkSafe(w, r),
           Rest(w, r), w.stop[r] = "taken", MayExit(w, r)
    PROVE  LET k == Notified(w, r, first)
           IN  /\ Rest(k, r) /\ Turn(k, w, r) /\ MayExit(k, r)
               /\ k.at[r] = "dead" => w.at[r] = "dead"
<1> DEFINE n == w.T[r]
           b == n.tracing_started \/ ~SyscallStop(w, r)
           t == [n EXCEPT !.proot = TRUE, !.tracing_started = b]
           v == [w EXCEPT !.T[r] = t]
           u == IF HandledFirst(w, r) THEN HandleTraceeEvent(v, r, first) ELSE v
           k == Notified(w, r, first)
<1>1. n \in TraceeType /\ n.listed /\ w \in WorldType
  BY DEF CanHandle, Good, Able, WorldType
<1>b. b \in BOOLEAN
  BY <1>1 DEF TraceeType
<1> HIDE DEF n, b
<1>2. /\ t \in TraceeType /\ SameLinks(t, n) /\ t.running = n.running /\ t.how = n.how
      /\ t.options = n.options /\ t.ptracer = n.ptracer
      /\ t.wait_pid = n.wait_pid /\ t.status = n.status
  BY <1>1, <1>b DEF TraceeType, SameLinks
<1> USE DEF n
<1>3. Frame(v, w, r)
  BY <1>1, <1>2, PutIsGood DEF CanHandle
<1>o. Only(v, w, r) /\ v.T[r] = t /\ v.at = w.at /\ v.stop = w.stop
  <2> HIDE DEF t
  <2> QED
    BY <1>1, <1>2, PutTracee
<1>4. k = [u EXCEPT !.T[r].untold = TRUE]
  <2> DEFINE y == [w EXCEPT !.T[r].proot = TRUE,
                            !.T[r].tracing_started = @ \/ ~SyscallStop(w, r)]
  <2>1. [w EXCEPT !.T[r].proot = TRUE, !.T[r].tracing_started = b] = v
    OBVIOUS
  <2>2. y = v
    BY <2>1 DEF b
  <2>3. k = [(IF HandledFirst(w, r) THEN HandleTraceeEvent(y, r, first) ELSE y) EXCEPT
               !.T[r].untold = TRUE]
    BY DEF Notified
  <2> HIDE DEF y, v, k
  <2> QED
    BY <2>2, <2>3
<1> HIDE DEF v, t, k
<1>5. CanHandle(v, r) /\ ForkSafe(v, r) /\ v \in WorldType
  <2>1. CanHandle(v, r)
    BY <1>1, <1>2, <1>3, <1>o DEF Frame, CanHandle, Able
  <2>2. ForkSafe(v, r)
    BY <1>2, <1>3, <1>o, ForkSafeStays DEF Frame
  <2> QED
    BY <1>o, <2>1, <2>2 DEF Only
<1>6. /\ Rest(v, r) /\ Turn(v, w, r) /\ v.stop[r] = "taken" /\ MayExit(v, r)
      /\ v.at[r] = w.at[r] /\ v.T[r].status = w.T[r].status
  <2>1. Rest(v, r)
    BY <1>1, <1>2, <1>o, PutRests
  <2>2. Turn(v, w, r) /\ MayExit(v, r)
    BY <1>2, <1>o DEF Only, Kept, Turn, MayExit
  <2> QED
    BY <1>2, <1>o, <2>1, <2>2
<1>7. /\ u \in WorldType /\ Rest(u, r) /\ Turn(u, v, r) /\ MayExit(u, r)
      /\ u.at[r] = "dead" => w.at[r] = "dead"
  <2>1. CASE HandledFirst(w, r)
    <3>1. u = HandleTraceeEvent(v, r, first)
      BY <2>1
    <3>2. v.T[r].status # 0 \/ v.at[r] = "note"
      BY <1>6, <2>1 DEF HandledFirst
    <3>3. u \in WorldType
      BY <1>5, <3>1, HandleIsGood DEF Frame, Good
    <3>4. /\ Rest(u, r) /\ Turn(u, v, r)
          /\ v.T[r].status # 0 \/ v.at[r] = "note" => MayExit(u, r)
          /\ u.at[r] = "dead" => v.at[r] = "dead"
      BY <1>5, <1>6, <3>1, HandleRests
    <3> HIDE DEF u
    <3> QED
      BY <1>6, <3>2, <3>3, <3>4
  <2>2. CASE ~HandledFirst(w, r)
    <3>1. u = v /\ Turn(v, v, r)
      BY <2>2 DEF Turn
    <3> HIDE DEF u
    <3> QED
      BY <1>5, <1>6, <3>1
  <2> QED
    BY <2>1, <2>2
<1> DEFINE m == u.T[r]
           s == [m EXCEPT !.untold = TRUE]
<1> HIDE DEF u
<1>8. m \in TraceeType
  BY <1>7 DEF WorldType
<1> HIDE DEF m
<1>9. /\ s \in TraceeType /\ SameLinks(s, m) /\ SameSleep(s, m) /\ s.status = m.status
  BY <1>8 DEF TraceeType, SameLinks, SameSleep
<1> USE DEF m
<1>10. [u EXCEPT !.T[r].untold = TRUE] = [u EXCEPT !.T[r] = s]
  OBVIOUS
<1>11. Only(k, u, r) /\ k.T[r] = s /\ k.at = u.at /\ k.stop = u.stop
  <2>1. k = [u EXCEPT !.T[r] = s]
    BY <1>4, <1>10
  <2> HIDE DEF s
  <2> QED
    BY <1>7, <1>9, <2>1, PutTracee
<1> HIDE DEF s
<1>12. Rest(k, r)
  BY <1>7, <1>9, <1>11, PutRests DEF SameSleep
<1>13. Turn(k, u, r) /\ MayExit(k, r) /\ k.at[r] = u.at[r]
  BY <1>7, <1>9, <1>11 DEF Only, Kept, SameSleep, Turn, MayExit
<1>14. Turn(k, v, r)
  BY <1>7, <1>13, TurnTrans
<1>15. Turn(k, w, r)
  BY <1>6, <1>14, TurnTrans
<1> QED
  BY <1>7, <1>12, <1>13, <1>15 DEF k

\* The ptracer of r, if any, does not sleep for r.
Unwaited(w, r) ==
    \A x \in Proc : w.T[r].ptracer = x => ~(w.T[x].wait_pid # NoProc /\ Matches(w.T[x].wait_pid, r))

\* The ptracer o of the dead r, which may have been its last ptracee, is woken.
LEMMA LastPtraceeRests ==
    ASSUME NEW l, NEW a, NEW o \in Proc, NEW r, PtracerAfter(l, a, o, r), a \in WorldType,
           Asleep(a, o), l \in WorldType
    PROVE  Asleep(l, o)
<1>1. CASE l.T[o].wait_pid = NoProc
  BY <1>1 DEF Asleep
<1>2. CASE l.T[o].wait_pid # NoProc
  <2>1. SameSleep(l.T[o], a.T[o]) /\ l.at[o] = a.at[o] /\ l.stop[o] = a.stop[o]
    BY <1>2 DEF PtracerAfter
  <2>2. l.T[o].nb_ptracees \in Nat /\ a.T[o].nb_ptracees \in Nat
    BY DEF WorldType, TraceeType
  <2>3. a.T[r].untold => l.T[o].nb_ptracees = a.T[o].nb_ptracees
    BY <2>2 DEF PtracerAfter
  <2>4. ~a.T[r].untold => l.T[o].nb_ptracees # 0
    BY <1>2 DEF PtracerAfter
  <2> QED
    BY <1>2, <2>1, <2>2, <2>3, <2>4 DEF Asleep, SameSleep
<1> QED
  BY <1>1, <1>2

\* The death of r.
LEMMA RemoveRests ==
    ASSUME NEW w, NEW r \in Proc, Good(w), Able(w, r), w.at[r] = "dead", Rest(w, r),
           Unwaited(w, r)
    PROVE  AllRest(RemoveTracee(w, r))
<1> DEFINE o == w.T[r].ptracer
           a == ReleaseAll(w, r)
           l == LeavePtracer(a, r)
           z == RemoveTracee(w, r)
<1>1. /\ OrphanedEffect(a, w, r)
      /\ LeaveEffect(l, a, o, r)
      /\ RemoveEffect(z, l)
      /\ z.at = [l.at EXCEPT ![r] = "zombie"] /\ z.stop = [l.stop EXCEPT ![r] = "no"]
  BY RemoveTraceeEffect
<1>2. o \in Proc \cup {NoProc} /\ o # r /\ w.zombies[r].ptracer = NoProc
  <2>1. w.T[r] \in TraceeType /\ Linked(w, r)
    BY DEF Good, WorldType
  <2>2. w.zombies[r] \in ZombieType
    BY DEF Good, WorldType
  <2> QED
    BY <2>1, <2>2, PtraceAssumption DEF Linked, TraceeType, ZombieType, Gone
<1> HIDE DEF a, l, z
<1>w. w \in WorldType /\ a \in WorldType /\ l \in WorldType
  BY <1>1 DEF Good, OrphanedEffect, LeaveEffect
<1>3. ASSUME NEW x \in Proc
      PROVE  Orphaned(a, w, r, x)
  BY <1>1 DEF OrphanedEffect
<1>4. Rest(a, r)
  <2>1. ASSUME NEW x \in Proc
        PROVE  Quiet(a, w, x)
    <3>1. CASE w.T[x].ptracer # r
      BY <1>3, <3>1 DEF Orphaned, SameSleep, Quiet
    <3>2. CASE w.T[x].ptracer = r /\ Resumable(w, x)
      BY <1>3, <3>2 DEF Orphaned, Resumable, Quiet
    <3>3. CASE w.T[x].ptracer = r /\ ~Resumable(w, x)
      BY <1>3, <3>3 DEF Orphaned, Quiet
    <3> QED
      BY <3>1, <3>2, <3>3
  <2>2. ASSUME NEW y \in Proc \ {r}
        PROVE  Unnewsed(a, w, y)
    <3>1. CASE w.T[y].ptracer # r
      BY <1>3, <3>1 DEF Orphaned, SameSleep, SamePtracee, Unnewsed
    <3>2. CASE w.T[y].ptracer = r /\ Resumable(w, y)
      BY <1>3, <3>2 DEF Orphaned, Resumable, Unnewsed
    <3>3. CASE w.T[y].ptracer = r /\ ~Resumable(w, y)
      BY <1>3, <3>3 DEF Orphaned, Unnewsed
    <3> QED
      BY <3>1, <3>2, <3>3
  <2> QED
    BY <1>w, <2>1, <2>2, QuietRests
<1>5. a.T[r].ptracer = o /\ a.zombies[r].ptracer = NoProc
  BY <1>2, <1>3 DEF Orphaned, NoZombie
<1>6. o \in Proc => PtracerAfter(l, a, o, r)
  BY <1>1, PtraceAssumption DEF LeaveEffect
<1>7. \A x \in Proc \ {o, r} : l.T[x] = a.T[x] /\ l.at[x] = a.at[x] /\ l.stop[x] = a.stop[x]
  BY <1>1 DEF LeaveEffect
<1>8. \A x \in Proc \ {r} : l.T[x].wait_pid \in {a.T[x].wait_pid, NoProc}
  BY <1>6, <1>7 DEF PtracerAfter, SameSleep
<1>9. l.T[r].wait_pid = NoProc /\ l.T[r].ptracer = NoProc
  BY <1>1 DEF LeaveEffect, NoTracee
<1>10. ASSUME NEW x \in Proc
       PROVE  Asleep(l, x)
  <2>1. CASE x = r
    BY <1>9, <2>1 DEF Asleep
  <2>2. CASE x = o /\ x # r
    BY <1>4, <1>6, <1>w, <2>2, LastPtraceeRests DEF Rest
  <2>3. CASE x # o /\ x # r
    BY <1>4, <1>7, <2>3 DEF Rest, Asleep
  <2> QED
    BY <2>1, <2>2, <2>3
<1>11. ASSUME NEW y \in Proc \ {r}
       PROVE  Calm(l, y)
  <2>1. l.zombies[y] = a.zombies[y]
    BY <1>1, <1>w DEF LeaveEffect, WorldType
  <2>2. \/ l.T[y] = a.T[y] /\ l.at[y] = a.at[y] /\ l.stop[y] = a.stop[y]
        \/ PtracerAfter(l, a, y, r) /\ y = o
    BY <1>6, <1>7
  <2>3. Calm(a, y) /\ Asleep(a, y)
    BY <1>4 DEF Rest
  <2>4. l.at[y] = "dead" => l.stop[y] = "event"
    BY <2>2, <2>3 DEF Calm, PtracerAfter
  <2>5. ASSUME NEW x \in Proc, SleepsOver(l, x, y)
        PROVE  FALSE
    <3>1. x # r /\ a.T[x].wait_pid = l.T[x].wait_pid /\ x # NoProc
      BY <1>8, <1>9, <2>5, PtraceAssumption DEF SleepsOver
    <3>2. KeptFor(a, y, x)
      <4>1. CASE l.T[y] = a.T[y] /\ l.at[y] = a.at[y] /\ l.stop[y] = a.stop[y]
        BY <2>1, <2>5, <4>1 DEF SleepsOver, KeptFor
      <4>2. CASE PtracerAfter(l, a, y, r) /\ y = o /\ SameSleep(l.T[y], a.T[y])
                 /\ l.stop[y] = a.stop[y]
        BY <2>1, <2>5, <4>2 DEF SleepsOver, KeptFor, PtracerAfter, SameSleep, SamePtracee
      <4>3. CASE /\ PtracerAfter(l, a, y, r) /\ y = o
                 /\ ~(SameSleep(l.T[y], a.T[y]) /\ l.stop[y] = a.stop[y])
        <5>1. a.T[y].wait_pid # NoProc
          BY <4>3 DEF PtracerAfter
        <5>2. l.stop[y] # "taken"
          <6>1. CASE a.at[y] \in Live
            BY <2>3, <4>3, <5>1, <6>1 DEF PtracerAfter, Asleep, Live
          <6>2. CASE a.at[y] = "dead"
            BY <2>3, <4>3, <6>2 DEF PtracerAfter, Calm
          <6>3. CASE a.at[y] \notin Live /\ a.at[y] # "dead"
            <7>1. Able(w, y) /\ w.at[y] # "absent" /\ w.at[y] \in Places
              <8>1. y \in Proc /\ o = y
                BY <4>3
              <8> QED
                BY <8>1, PtraceAssumption DEF Good, Linked, Able, Steady, WorldType
            <7>2. w.at[y] \in Live \cup {"dead"}
              BY <7>1 DEF Able, Places, Live, Gone
            <7>3. a.at[y] \in Live \cup {"dead"}
              <8>1. CASE w.T[y].ptracer = r /\ Resumable(w, y)
                BY <1>3, <7>2, <8>1 DEF Orphaned, Live
              <8>2. CASE ~(w.T[y].ptracer = r /\ Resumable(w, y))
                BY <1>3, <7>2, <8>2 DEF Orphaned
              <8> QED
                BY <8>1, <8>2
            <7> QED
              BY <6>3, <7>3
          <6> QED
            BY <6>1, <6>2, <6>3
        <5>3. l.zombies[y].ptracer = x
          BY <2>5, <5>2 DEF SleepsOver, KeptFor
        <5> QED
          BY <2>1, <5>3 DEF KeptFor
      <4> QED
        BY <2>2, <4>1, <4>2, <4>3
    <3>3. SleepsOver(a, x, y)
      BY <2>5, <3>1, <3>2 DEF SleepsOver
    <3> QED
      BY <2>3, <3>3 DEF Calm
  <2> QED
    BY <2>4, <2>5 DEF Calm
<1>12. ASSUME NEW x \in Proc
       PROVE  ~SleepsOver(l, x, r)
  <2>1. l.zombies[r].ptracer \in {o, NoProc}
    BY <1>1, <1>5, <1>w DEF LeaveEffect, WorldType
  <2>2. CASE x # o
    BY <1>9, <2>1, <2>2, PtraceAssumption DEF SleepsOver, KeptFor
  <2>3. CASE x = o
    <3>1. a.T[x].wait_pid = w.T[x].wait_pid
      BY <1>3 DEF Orphaned
    <3>2. ~(w.T[x].wait_pid # NoProc /\ Matches(w.T[x].wait_pid, r))
      BY <2>3 DEF Unwaited
    <3> QED
      BY <1>2, <1>8, <2>3, <3>1, <3>2 DEF SleepsOver
  <2> QED
    BY <2>2, <2>3
<1>13. ASSUME NEW x \in Proc
       PROVE  Asleep(z, x) /\ Calm(z, x)
  <2>1. z.T = l.T /\ z.zombies = l.zombies
    BY <1>1 DEF RemoveEffect
  <2>2. l.at \in [Proc -> Places] /\ l.stop \in [Proc -> {"no", "event", "taken"}]
    BY <1>w DEF WorldType
  <2>3. CASE x = r
    <3>1. z.at[r] = "zombie" /\ z.stop[r] = "no"
      BY <1>1, <2>2
    <3>2. \A y \in Proc : ~SleepsOver(z, y, r)
      BY <1>12, <2>1, <3>1 DEF SleepsOver, KeptFor
    <3> QED
      BY <1>9, <2>1, <2>3, <3>1, <3>2 DEF Asleep, Calm
  <2>4. CASE x # r
    <3>1. z.at[x] = l.at[x] /\ z.stop[x] = l.stop[x]
      BY <1>1, <2>2, <2>4
    <3>2. \A y \in Proc : ~SleepsOver(z, y, x)
      BY <1>11, <2>1, <2>4, <3>1 DEF Calm, SleepsOver, KeptFor
    <3> QED
      BY <1>10, <1>11, <2>1, <2>4, <3>1, <3>2 DEF Asleep, Calm
  <2> QED
    BY <2>3, <2>4
<1> QED
  BY <1>13 DEF AllRest, z


LEMMA AwakeIsCalm ==
    ASSUME NEW w, NEW r \in Proc, Good(w), Able(w, r), w.at[r] # "dead", Unwaited(w, r)
    PROVE  Calm(w, r)
<1>1. w.zombies[r] \in ZombieType /\ Linked(w, r)
  BY DEF Good, WorldType
<1>2. w.zombies[r].ptracer = NoProc
  BY <1>1 DEF ZombieType, Linked, Able
<1>3. ASSUME NEW x \in Proc, SleepsOver(w, x, r)
      PROVE  FALSE
  BY <1>2, <1>3, PtraceAssumption DEF SleepsOver, KeptFor, Unwaited
<1> QED
  BY <1>3 DEF Calm

\* The dead have no event of a system call.
LEMMA DeadHandled ==
    ASSUME NEW w, NEW r \in Proc, NEW first \in Proc, CanHandle(w, r), w.at[r] = "dead"
    PROVE  LET h == HandleTraceeEvent(w, r, first)
           IN  h.at[r] = "dead" /\ h.T[r].ptracer = w.T[r].ptracer
<1> DEFINE n == w.T[r]
           t == [n EXCEPT !.how = TRUE]
           v == [w EXCEPT !.T[r] = t]
           s == [t EXCEPT !.proot = FALSE]
           h == HandleTraceeEvent(w, r, first)
<1>1. n \in TraceeType /\ w \in WorldType
  BY DEF CanHandle, Good, WorldType
<1>2. h = [v EXCEPT !.T[r].proot = FALSE]
  BY DEF HandleTraceeEvent
<1> HIDE DEF n
<1>3. t \in TraceeType /\ s \in TraceeType /\ s.ptracer = n.ptracer
  BY <1>1 DEF TraceeType
<1> USE DEF n
<1> HIDE DEF t
<1>4. v \in WorldType /\ v.T[r] = t /\ v.at = w.at
  BY <1>1, <1>3, PutTracee DEF Only
<1>5. h = [v EXCEPT !.T[r] = s]
  BY <1>2, <1>4
<1> HIDE DEF v, s, h
<1>6. h.T[r] = s /\ h.at = v.at
  BY <1>3, <1>4, <1>5, PutTracee
<1> QED
  BY <1>3, <1>4, <1>6 DEF h

LEMMA HandleAndRestartRests ==
    ASSUME NEW w, NEW r \in Proc, NEW first \in Proc, CanHandle(w, r), ForkSafe(w, r),
           Rest(w, r), w.stop[r] = "taken", MayExit(w, r), w.at[r] = "dead" => Unwaited(w, r)
    PROVE  AllRest(HandleAndRestart(w, r, first))
<1> DEFINE h == HandleTraceeEvent(w, r, first)
<1>1. Frame(h, w, r)
  BY HandleIsGood
<1>2. /\ Rest(h, r) /\ Turn(h, w, r) /\ h.T[r].how
      /\ h.at[r] = "dead" => w.at[r] = "dead"
  BY HandleRests
<1>d. w.at[r] = "dead" => h.at[r] = "dead" /\ h.T[r].ptracer = w.T[r].ptracer
  BY DeadHandled
<1> HIDE DEF h
<1>3. Good(h) /\ Able(h, r) /\ h \in WorldType
  BY <1>1 DEF Frame, SamePlaces, CanHandle, Able, Good
<1>4. CASE w.at[r] = "dead"
  <2>1. HandleAndRestart(w, r, first) = RemoveTracee(h, r)
    BY <1>4 DEF HandleAndRestart, h
  <2>2. Unwaited(h, r)
    <3>1. ASSUME NEW x \in Proc, h.T[r].ptracer = x
          PROVE  ~(h.T[x].wait_pid # NoProc /\ Matches(h.T[x].wait_pid, r))
      <4>1. x # r
        BY <1>3, <3>1, PtraceAssumption DEF Good, Linked
      <4> QED
        BY <1>2, <1>4, <1>d, <3>1, <4>1 DEF Turn, Unwaited
    <3> QED
      BY <3>1 DEF Unwaited
  <2> QED
    BY <1>2, <1>3, <1>4, <1>d, <2>1, <2>2, RemoveRests
<1>5. CASE w.at[r] # "dead"
  <2> DEFINE z == RestartTracee(h, r)
  <2>1. HandleAndRestart(w, r, first) = z
    BY <1>5 DEF HandleAndRestart, h
  <2>2. Rest(z, r) /\ RestartEffect(z, h, r) /\ Good(z)
    BY <1>2, <1>3, RestartRests, RestartTraceeEffect, RestartIsGood DEF Able, Frame
  <2> HIDE DEF z
  <2>3. h.stop[r] = "taken" /\ h.at[r] # "dead"
    BY <1>2, <1>5 DEF Turn
  <2>4. z.at[r] # "dead" /\ (z.stop[r] = "taken" => z.T[r].wait_pid # NoProc)
    <3>1. CASE Restartable(h, r)
      BY <2>2, <2>3, <3>1 DEF RestartEffect
    <3>2. CASE ~Restartable(h, r)
      BY <1>2, <2>2, <2>3, <3>2 DEF RestartEffect, Restartable
    <3> QED
      BY <3>1, <3>2
  <2>5. z.zombies[r].ptracer = NoProc
    <3>1. h.zombies[r] \in ZombieType /\ Linked(h, r)
      BY <1>3 DEF Good, WorldType
    <3>2. z.zombies = h.zombies
      BY <2>2 DEF RestartEffect, Only
    <3> QED
      BY <1>3, <3>1, <3>2 DEF ZombieType, Linked, Able
  <2>6. Calm(z, r)
    BY <2>4, <2>5, PtraceAssumption DEF Calm, SleepsOver, KeptFor
  <2> QED
    BY <2>1, <2>2, <2>6 DEF Rest, AllRest
<1> QED
  BY <1>4, <1>5

\* update_wait_status, then restart_tracee, for the ptracer o of r.
LEMMA WokenRests ==
    ASSUME NEW w, NEW r \in Proc, NEW o \in Proc, Good(w), Rest(w, r),
           w.T[r].ptracer = o, w.T[o].wait_pid # NoProc
    PROVE  LET y == RestartTracee(Woken(w, r), o)
           IN  /\ Rest(y, r) /\ y.T[o].wait_pid = NoProc /\ y.stop[r] = w.stop[r]
               /\ MayExit(w, r) => MayExit(y, r)
<1> DEFINE u == Woken(w, r)
           y == RestartTracee(u, o)
<1>1. /\ o # r /\ Able(w, o) /\ w.at[o] # "absent" /\ w \in WorldType
      /\ w.at[o] \in Places
  BY PtraceAssumption DEF Good, Linked, Able, Steady, WorldType
<1>2. Good(u) /\ WokenEffect(u, w, o, r)
  BY WokenIsGood
<1> HIDE DEF u
<1>3. RestartEffect(y, u, o)
  BY <1>2, RestartTraceeEffect DEF Good
<1> HIDE DEF y
<1>4. y.T[o].wait_pid = NoProc
  BY <1>2, <1>3 DEF WokenEffect, RestartEffect
<1>5. \A x \in Proc \ {o} : Kept(y, u, x)
  BY <1>3 DEF RestartEffect, Only
<1>6. y.zombies = u.zombies
  BY <1>3 DEF RestartEffect, Only
<1>7. ASSUME NEW x \in Proc
      PROVE  Quiet(y, w, x)
  <2>1. CASE x = o
    BY <1>4, <2>1 DEF Quiet
  <2>2. CASE x # o
    BY <1>2, <1>5, <2>2 DEF WokenEffect, Kept, Quiet
  <2> QED
    BY <2>1, <2>2
<1>8. ASSUME NEW x \in Proc \ {r}
      PROVE  Unnewsed(y, w, x)
  <2>1. CASE x # o
    BY <1>2, <1>5, <1>6, <2>1 DEF WokenEffect, Kept, Unnewsed
  <2>2. CASE x = o
    <3>1. Asleep(w, o) /\ Calm(w, o)
      BY <1>1 DEF Rest
    <3>2. y.stop[o] # "taken" /\ (y.at[o] = "dead" => y.stop[o] = "event")
      <4>1. CASE w.at[o] \in Live
        <5>1. Restartable(u, o)
          BY <1>2, <3>1, <4>1 DEF Asleep, WokenEffect, Restartable, Live
        <5> QED
          BY <1>2, <1>3, <4>1, <5>1 DEF RestartEffect, WokenEffect, Restartable
      <4>2. CASE w.at[o] = "dead"
        <5>1. u.at[o] = "dead" /\ u.stop[o] = "event"
          BY <1>2, <3>1, <4>2 DEF WokenEffect, Calm
        <5>2. ~Restartable(u, o)
          BY <5>1 DEF Restartable
        <5> QED
          BY <1>3, <5>1, <5>2 DEF RestartEffect
      <4> QED
        BY <1>1, <4>1, <4>2 DEF Able, Places, Live, Gone
    <3>3. y.zombies[o] \in {w.zombies[o], NoZombie}
      BY <1>2, <1>6 DEF WokenEffect
    <3> QED
      BY <2>2, <3>2, <3>3 DEF Unnewsed
  <2> QED
    BY <2>1, <2>2
<1>9. Rest(y, r)
  BY <1>1, <1>7, <1>8, QuietRests
<1>10. y.stop[r] = w.stop[r] /\ (MayExit(w, r) => MayExit(y, r))
  BY <1>1, <1>2, <1>5 DEF WokenEffect, Kept, MayExit
<1> QED
  BY <1>4, <1>9, <1>10 DEF u, y

LEMMA TakenRests ==
    ASSUME NEW r \in Proc, Good(World), Event(r), AllRest(World)
    PROVE  LET t == Taken(r)
           IN  Rest(t, r) /\ t.stop[r] = "taken" /\ MayExit(t, r)
<1> DEFINE n == T[r]
           d == IF n.listed THEN n ELSE NewTracee
           s == [d EXCEPT !.running = FALSE]
           v == [World EXCEPT !.T[r] = s, !.stop[r] = "taken"]
<1>0. /\ World.T = T /\ World.at = at /\ World.stop = stop /\ World.zombies = zombies
      /\ World \in WorldType /\ n \in TraceeType /\ stop[r] = "event"
  BY DEF World, Good, WorldType, Event
<1>1. Taken(r) = v
  BY <1>0 DEF Taken, WorldType
<1>2. /\ v.at = at /\ v.stop[r] = "taken" /\ v.T[r] = s /\ v.zombies = zombies
      /\ \A y \in Proc \ {r} : v.T[y] = T[y] /\ v.stop[y] = stop[y]
  BY <1>0 DEF WorldType
<1> HIDE DEF v
<1>3. ~n.listed => n = NoTracee
  BY <1>0 DEF Good, Linked
<1>4. n.wait_pid # NoProc => at[r] \notin Live
  <2>1. Asleep(World, r)
    BY DEF AllRest
  <2> QED
    BY <1>0, <2>1 DEF Asleep
<1> HIDE DEF n
<1>5. s.wait_pid = n.wait_pid /\ s.nb_ptracees = n.nb_ptracees
  <2>1. d \in TraceeType /\ d.wait_pid = n.wait_pid /\ d.nb_ptracees = n.nb_ptracees
    <3>1. CASE n.listed
      BY <1>0, <3>1
    <3>2. CASE ~n.listed
      BY <1>3, <3>2 DEF TraceeType, NewTracee, NoTracee
    <3> QED
      BY <3>1, <3>2
  <2> HIDE DEF d
  <2> QED
    BY <2>1 DEF TraceeType
<1> HIDE DEF s
<1> USE DEF n
<1>6. ASSUME NEW x \in Proc
      PROVE  Quiet(v, World, x)
  <2>1. CASE x = r
    BY <1>0, <1>2, <1>4, <1>5, <2>1 DEF Quiet
  <2>2. CASE x # r
    BY <1>0, <1>2, <2>2 DEF Quiet
  <2> QED
    BY <2>1, <2>2
<1>7. ASSUME NEW y \in Proc \ {r}
      PROVE  Unnewsed(v, World, y)
  BY <1>0, <1>2 DEF Unnewsed
<1>8. Rest(World, r)
  BY DEF AllRest, Rest
<1>9. Rest(v, r)
  BY <1>0, <1>6, <1>7, <1>8, QuietRests
<1>10. MayExit(v, r)
  BY <1>2, <1>4, <1>5 DEF MayExit, Live
<1> QED
  BY <1>1, <1>2, <1>9, <1>10

LEMMA IterationRests ==
    ASSUME Sound, AllRest(World), NEW r \in Proc, NEW first \in Proc,
           HandleTracee(r, first) \/ HandlePtracee(r, first) \/ HandleAwaited(r, first)
    PROVE  \E w : Good(w) /\ Become(w) /\ AllRest(w)
<1> DEFINE t == Taken(r)
           v == Notified(t, r, first)
<1>0. Event(r) /\ Good(World) /\ CallsTyped /\ \A y \in Proc : Forked(World, y)
  BY DEF Sound, HandleTracee, HandlePtracee, HandleAwaited
<1>1. /\ CanHandle(t, r) /\ ForkSafe(t, r) /\ t.T[r].ptracer = T[r].ptracer /\ t.at = at
  BY <1>0, TakenIsGood
<1>2. Rest(t, r) /\ t.stop[r] = "taken" /\ MayExit(t, r)
  BY <1>0, TakenRests
<1>3. CASE HandleTracee(r, first)
  <2> DEFINE w == HandleAndRestart(t, r, first)
  <2>1. Good(w)
    BY <1>1, HandleAndRestartIsGood
  <2>2. Become(w)
    BY <1>3 DEF HandleTracee
  <2>3. at[r] = "dead" => T[r].ptracer = NoProc
    BY <1>3 DEF HandleTracee, Unexpected, SyscallStop, World
  <2> HIDE DEF t
  <2>4. t.at[r] = "dead" => Unwaited(t, r)
    BY <1>1, <2>3, PtraceAssumption DEF Unwaited
  <2>5. AllRest(w)
    BY <1>1, <1>2, <2>4, HandleAndRestartRests
  <2> HIDE DEF w
  <2> QED
    BY <2>1, <2>2, <2>5
<1>4. Frame(v, t, r)
  BY <1>1, NotifiedIsGood
<1>5. ASSUME T[r].ptracer # NoProc
      PROVE  CanHandle(v, r) /\ ForkSafe(v, r) /\ v.T[r].ptracer = T[r].ptracer
  <2> HIDE DEF v, t
  <2> QED
    BY <1>1, <1>4, <1>5, CanHandleStays DEF Frame
<1>6. Rest(v, r) /\ v.stop[r] = "taken" /\ MayExit(v, r)
  <2> HIDE DEF t
  <2>1. Rest(v, r) /\ Turn(v, t, r) /\ MayExit(v, r)
    BY <1>1, <1>2, NotifiedRests
  <2> HIDE DEF v
  <2> QED
    BY <1>2, <2>1 DEF Turn
<1>7. CASE HandlePtracee(r, first)
  <2> DEFINE w == IF v.at[r] = "dead" THEN HandleAndRestart(v, r, first) ELSE v
  <2>1. Become(w) /\ T[r].ptracer # NoProc /\ ~Awaited(v, r)
    BY <1>7 DEF HandlePtracee
  <2> HIDE DEF t
  <2>2. CanHandle(v, r) /\ ForkSafe(v, r)
    BY <1>5, <2>1
  <2> HIDE DEF v
  <2>3. Good(w)
    BY <2>2, HandleAndRestartIsGood DEF CanHandle
  <2>4. Unwaited(v, r)
    BY <2>1 DEF Awaited, Unwaited, Matches
  <2>5. AllRest(w)
    <3>1. CASE v.at[r] = "dead"
      BY <1>6, <2>2, <2>4, <3>1, HandleAndRestartRests
    <3>2. CASE v.at[r] # "dead"
      <4>1. Calm(v, r)
        BY <2>2, <2>4, <3>2, AwakeIsCalm DEF CanHandle
      <4> QED
        BY <1>6, <3>2, <4>1 DEF Rest, AllRest
    <3> QED
      BY <3>1, <3>2
  <2> HIDE DEF w
  <2> QED
    BY <2>1, <2>3, <2>5
<1>8. CASE HandleAwaited(r, first)
  <2> DEFINE o == T[r].ptracer
             u == Woken(v, r)
             y == RestartTracee(u, o)
             w == IF v.at[r] = "dead" \/ ~Restartable(u, o) THEN HandleAndRestart(y, r, first)
                  ELSE y
  <2>1. Become(w) /\ o # NoProc /\ Awaited(v, r)
    BY <1>8 DEF HandleAwaited
  <2> HIDE DEF t
  <2>2. /\ CanHandle(v, r) /\ ForkSafe(v, r) /\ v.T[r].ptracer = o /\ Good(v)
    BY <1>5, <2>1 DEF CanHandle
  <2> HIDE DEF v
  <2>3. o \in Proc /\ o # r /\ v.T[o].listed /\ v.T[o].wait_pid # NoProc
    <3> HIDE DEF o
    <3>0. Linked(v, r) /\ v.T[r] \in TraceeType
      BY <2>2 DEF Good, WorldType
    <3>1. o \in Proc /\ o # r /\ v.T[o].listed
      <4>1. o \in Proc \cup {NoProc}
        BY <2>2, <3>0 DEF TraceeType
      <4>2. Able(v, o) /\ o # r
        BY <2>1, <2>2, <3>0 DEF Linked
      <4> QED
        BY <2>1, <4>1, <4>2 DEF Able
    <3>2. v.T[o].wait_pid \in {AnyPid, r}
      BY <2>1, <2>2 DEF Awaited
    <3> QED
      BY <3>1, <3>2, PtraceAssumption
  <2> HIDE DEF o
  <2>4. /\ Rest(y, r) /\ y.T[o].wait_pid = NoProc /\ y.stop[r] = "taken" /\ MayExit(y, r)
    BY <1>6, <2>2, <2>3, WokenRests
  <2>5. Good(u) /\ SamePlaces(u, v) /\ WokenEffect(u, v, o, r)
    BY <2>2, <2>3, WokenIsGood
  <2> HIDE DEF u
  <2>6. u.T[o].listed /\ u.T[r].listed = v.T[r].listed /\ u.T[r].options = v.T[r].options
        /\ u.T[r].ptracer \in {v.T[r].ptracer, NoProc} /\ u.at[r] = v.at[r]
    BY <2>3, <2>5 DEF WokenEffect
  <2>7. Frame(y, u, r)
    BY <2>3, <2>5, <2>6, RestartIsGood
  <2>8. Kept(y, u, r)
    <3>1. RestartEffect(y, u, o)
      BY <2>3, <2>5, RestartTraceeEffect DEF Good
    <3> QED
      BY <2>3, <3>1 DEF RestartEffect, Only
  <2> HIDE DEF y
  <2>9. SamePlaces(y, v) /\ Good(y)
    BY <2>5, <2>7 DEF Frame, SamePlaces
  <2>10. CanHandle(y, r) /\ ForkSafe(y, r)
    <3>1. CanHandle(y, r)
      BY <2>2, <2>6, <2>8, <2>9 DEF CanHandle, Able, SamePlaces, Kept
    <3>2. ForkSafe(y, r)
      BY <2>2, <2>6, <2>8, <2>9, ForkSafeStays DEF Kept
    <3> QED
      BY <3>1, <3>2
  <2>11. Good(w)
    BY <2>9, <2>10, HandleAndRestartIsGood
  <2>12. y.at[r] = v.at[r] /\ y.T[r].ptracer \in {o, NoProc}
    BY <2>2, <2>6, <2>8 DEF Kept
  <2>13. Unwaited(y, r)
    BY <2>4, <2>12, PtraceAssumption DEF Unwaited
  <2>14. AllRest(w)
    <3>1. CASE v.at[r] = "dead" \/ ~Restartable(u, o)
      BY <2>4, <2>10, <2>13, <3>1, HandleAndRestartRests
    <3>2. CASE ~(v.at[r] = "dead" \/ ~Restartable(u, o))
      <4>1. Calm(y, r)
        BY <2>9, <2>10, <2>12, <2>13, <3>2, AwakeIsCalm DEF CanHandle
      <4>2. w = y
        BY <3>2
      <4> HIDE DEF w
      <4> QED
        BY <2>4, <4>1, <4>2 DEF Rest, AllRest
    <3> QED
      BY <3>1, <3>2
  <2> HIDE DEF w
  <2> QED
    BY <2>1, <2>11, <2>14
<1> QED
  BY <1>3, <1>7, <1>8

\* The kernel moves processes, and only kills those that are stopped.
LEMMA MoveRests ==
    ASSUME Sound, AllRest(World), T' = T, zombies' = zombies,
           \A x \in Proc : at'[x] \in Live =>
               T[x].wait_pid = NoProc \/ (at[x] \in Live /\ (stop[x] = "taken" => stop'[x] = "taken")),
           \A x \in Proc : stop'[x] = "taken" => stop[x] = "taken",
           \A x \in Proc : at'[x] = "dead" =>
               stop'[x] = "event" \/ (at[x] = "dead" /\ stop'[x] = stop[x])
    PROVE  AllRest(World)'
<1>1. /\ World.T = T /\ World.at = at /\ World.stop = stop /\ World.zombies = zombies
      /\ World'.T = T' /\ World'.at = at' /\ World'.stop = stop' /\ World'.zombies = zombies'
  BY DEF World
<1> HIDE DEF World
<1>2. ASSUME NEW x \in Proc
      PROVE  Asleep(World, x)'
  <2>1. Asleep(World, x)
    BY DEF AllRest
  <2> QED
    BY <1>1, <2>1 DEF Asleep
<1>3. ASSUME NEW y \in Proc
      PROVE  Calm(World, y)'
  <2>1. Calm(World, y)
    BY DEF AllRest
  <2>2. ASSUME NEW x \in Proc, SleepsOver(World, x, y)'
        PROVE  SleepsOver(World, x, y)
    BY <1>1, <2>2 DEF SleepsOver, KeptFor
  <2> QED
    BY <1>1, <2>1, <2>2 DEF Calm
<1> QED
  BY <1>2, <1>3 DEF AllRest

LEMMA KernelRests ==
    ASSUME Sound, AllRest(World), NEW p \in Proc, Kernel(p)
    PROVE  AllRest(World)'
<1>1. /\ at \in [Proc -> Places] /\ stop \in [Proc -> {"no", "event", "taken"}]
  BY SoundTyped DEF TypeOK
<1>2. T' = T /\ zombies' = zombies
  BY DEF Kernel, Call, Again, Signal, Note, Fork, Collect, Return, Killed
<1>3. ASSUME NEW x \in Proc, at[x] \in Live, stop[x] # "taken"
      PROVE  T[x].wait_pid = NoProc
  <2>1. Asleep(World, x)
    BY DEF AllRest
  <2> QED
    BY <1>3, <2>1 DEF Asleep, World
<1>4. ASSUME NEW x \in Proc, at[x] = "absent"
      PROVE  T[x].wait_pid = NoProc
  <2>1. Good(World) /\ World.T = T /\ World.at = at
    BY DEF Sound, World
  <2>2. T[x] = NoTracee
    BY <1>4, <2>1 DEF Good, Steady, Linked
  <2> QED
    BY <2>2 DEF NoTracee
<1>5. ASSUME NEW place \in {"user", "enter", "note", "exit", "dead"}, Stops(p, place),
             place = "dead" \/ (stop[p] = "no" /\ at[p] \in {"user", "again", "enter", "note"})
      PROVE  AllRest(World)'
  <2>1. /\ at'[p] = place /\ stop'[p] = "event"
        /\ \A x \in Proc \ {p} : at'[x] = at[x] /\ stop'[x] = stop[x]
    BY <1>1, <1>5 DEF Stops
  <2>2. place # "dead" => T[p].wait_pid = NoProc
    BY <1>3, <1>5 DEF Live
  <2> QED
    BY <1>2, <2>1, <2>2, MoveRests DEF Live
<1>6. ASSUME NEW c \in Proc, Fork(p, c)
      PROVE  AllRest(World)'
  <2>1. stop[p] = "no" /\ at[p] = "enter" /\ at[c] = "absent" /\ p # c
    BY <1>6 DEF Fork, InCall, Runs
  <2>2. /\ at'[p] = "note" /\ at'[c] = "user" /\ stop'[p] = "event" /\ stop'[c] = "event"
        /\ \A y \in Proc \ {p, c} : at'[y] = at[y] /\ stop'[y] = stop[y]
    BY <1>1, <1>6, <2>1 DEF Fork
  <2>3. T[p].wait_pid = NoProc /\ T[c].wait_pid = NoProc
    BY <1>3, <1>4, <2>1 DEF Live
  <2> QED
    BY <1>2, <2>2, <2>3, MoveRests
<1>7. ASSUME NEW q \in Proc, Collect(p, q)
      PROVE  AllRest(World)'
  <2>1. stop[p] = "no" /\ at[p] \in {"enter", "note"} /\ at[q] = "zombie" /\ p # q
    BY <1>7 DEF Collect, InCall, Runs
  <2>2. /\ at'[p] = "exit" /\ at'[q] = "gone" /\ stop'[p] = "event"
        /\ \A y \in Proc \ {p} : stop'[y] = stop[y]
        /\ \A y \in Proc \ {p, q} : at'[y] = at[y]
    BY <1>1, <1>7, <2>1 DEF Collect
  <2>3. T[p].wait_pid = NoProc
    BY <1>3, <2>1 DEF Live
  <2> QED
    BY <1>2, <2>2, <2>3, MoveRests DEF Live
<1>8. ASSUME NEW c \in menu[p], Call(p, c)
      PROVE  AllRest(World)'
  BY <1>5, <1>8 DEF Call, InUser, Runs
<1>9. CASE Again(p)
  BY <1>5, <1>9 DEF Again, Runs
<1>10. CASE Signal(p)
  BY <1>5, <1>10 DEF Signal, InUser, Runs
<1>11. CASE Note(p)
  BY <1>5, <1>11 DEF Note, InCall, Runs
<1>12. CASE Return(p)
  BY <1>5, <1>12 DEF Return, InCall, Runs
<1>13. CASE Killed(p)
  BY <1>5, <1>13 DEF Killed
<1> QED
  BY <1>6, <1>7, <1>8, <1>9, <1>10, <1>11, <1>12, <1>13 DEF Kernel

Rested == Sound /\ AllRest(World)

LEMMA InitIsRested == Init => Rested
<1> SUFFICES ASSUME Init PROVE AllRest(World)
  BY InitIsSound DEF Rested
<1>1. World.T = T /\ World.at = at /\ World.stop = stop /\ World.zombies = zombies
  BY DEF World
<1> HIDE DEF World
<1>2. ASSUME NEW x \in Proc
      PROVE  T[x].wait_pid = NoProc /\ at[x] # "dead"
  BY DEF Init, NewTracee, NoTracee
<1> QED
  BY <1>1, <1>2 DEF AllRest, Asleep, Calm, SleepsOver

LEMMA NextIsRested == Rested /\ [Next]_vars => Rested'
<1> SUFFICES ASSUME Rested, [Next]_vars PROVE Rested'
  OBVIOUS
<1>1. Sound /\ Sound' /\ AllRest(World)
  BY NextIsSound DEF Rested
<1>2. ASSUME NEW p \in Proc, Kernel(p)
      PROVE  AllRest(World)'
  BY <1>1, <1>2, KernelRests
<1>3. ASSUME NEW r \in Proc, Iteration(r)
      PROVE  AllRest(World)'
  <2>1. PICK first \in Proc :
          HandleTracee(r, first) \/ HandlePtracee(r, first) \/ HandleAwaited(r, first)
    BY <1>3 DEF Iteration
  <2>2. PICK w : Good(w) /\ Become(w) /\ AllRest(w)
    BY <1>1, <2>1, IterationRests
  <2>3. World' = w
    BY <2>2 DEF Become, World, Good, WorldType
  <2> QED
    BY <2>2, <2>3 DEF AllRest, Asleep, Calm, SleepsOver, KeptFor
<1>4. ASSUME UNCHANGED vars
      PROVE  AllRest(World)'
  <2>1. World' = World
    BY <1>4 DEF vars, World
  <2> HIDE DEF World
  <2> QED
    BY <1>1, <2>1 DEF AllRest, Asleep, Calm, SleepsOver, KeptFor
<1>5. AllRest(World)'
  BY <1>2, <1>3, <1>4 DEF Next
<1> QED
  BY <1>1, <1>5 DEF Rested

LEMMA RestedWakes == Rested => NoLostWakeup
<1> SUFFICES ASSUME Rested, NEW p \in Proc, T[p].wait_pid # NoProc
             PROVE  /\ T[p].nb_ptracees > 0
                    /\ ZombiesOf(World, p, T[p].wait_pid) = {}
                    /\ \A q \in WithNews(World, p, T[p].wait_pid) : ~KeptStopped(q)
  BY DEF NoLostWakeup
<1>1. World.T = T /\ World.at = at /\ World.stop = stop /\ World.zombies = zombies
  BY DEF World
<1>2. AllRest(World)
  BY DEF Rested
<1> HIDE DEF World
<1>3. T[p].nb_ptracees > 0
  BY <1>1, <1>2 DEF AllRest, Asleep
<1>4. ASSUME NEW q \in Proc, Matches(T[p].wait_pid, q)
      PROVE  ~KeptFor(World, q, p)
  BY <1>1, <1>2, <1>4 DEF AllRest, Calm, SleepsOver
<1>5. ZombiesOf(World, p, T[p].wait_pid) = {}
  BY <1>1, <1>4 DEF ZombiesOf, KeptFor
<1>6. ASSUME NEW q \in WithNews(World, p, T[p].wait_pid)
      PROVE  ~KeptStopped(q)
  <2>1. /\ q \in Proc /\ Matches(T[p].wait_pid, q)
        /\ T[q].ptracer = p /\ ~T[q].running /\ T[q].untold
    BY <1>1, <1>6 DEF WithNews, PtraceesOf, ZombiesOf
  <2> QED
    BY <1>1, <1>4, <2>1 DEF KeptFor, KeptStopped
<1> QED
  BY <1>3, <1>5, <1>6

(***************************************************************************)
(* translate_wait_exit puts a ptracer to sleep, and update_wait_status,    *)
(* handle_ptracee_event and remove_tracee wake it: a ptracer that sleeps   *)
(* has a ptracee or a zombie left to wait for, and none of those it waits  *)
(* for has an event, or a death, that it was not told of.                  *)
(***************************************************************************)
THEOREM NoWakeupIsLost == Spec => []NoLostWakeup
<1>1. Spec => []Rested
  BY InitIsRested, NextIsRested, PTL DEF Spec
<1> QED
  BY <1>1, RestedWakes, PTL


=============================================================================
