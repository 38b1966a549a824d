---------------------------- MODULE SvcerHooker ----------------------------
(***************************************************************************)
(* The in-process hook (svcer_hooker.cpp, svcer_dumper.cpp): init installs *)
(* a handler of SIGSYS and a filter that traps the chosen calls made       *)
(* outside the ignored libraries; the handler gives a trapped call to the  *)
(* first callback registered for it, which may answer it or pass it on     *)
(* with doSyscall: to the next callback, or after the last one to the      *)
(* kernel.                                                                 *)
(*                                                                         *)
(* A callback is registered in a list of heap items that nothing locks.    *)
(* Threads register and unregister while others are in the handler: a step *)
(* of a thread is one read or one write of the lists.                      *)
(***************************************************************************)
EXTENDS SvcerFilter

CONSTANTS Thread,      \* the threads the app may have
          TypeOrder,   \* TSVCER_SYSCALL_Type: the calls callbacks are registered for, in order
          Behaviour,   \* what each callback does: "pass", "answer", "retry" or "dump"
          Worlds       \* where init may run: [arch, mode, links, maps, opened], with bounds:
                       \* [items] ever allocated, [inits] calls of init, [threads] running,
                       \* the [calls] the app makes and the [cbs] it registers

Types == ToSet(TypeOrder)

Callbacks == DOMAIN Behaviour

(***************************************************************************)
(* The calls of the app.  A call is [nr, ask]: "set" changes the           *)
(* disposition of SIGSYS, or installs a seccomp filter, with prctl or with *)
(* seccomp; "get" asks for the disposition, or for the seccomp mode.       *)
(* PR_SET_NO_NEW_PRIVS and PR_GET_NO_NEW_PRIVS are answered by the dumper  *)
(* in the same way.                                                        *)
(***************************************************************************)
AppCalls == {[nr |-> "openat", ask |-> "path"], [nr |-> "rt_sigaction", ask |-> "set"],
             [nr |-> "rt_sigaction", ask |-> "get"], [nr |-> "prctl", ask |-> "set"],
             [nr |-> "prctl", ask |-> "get"], [nr |-> "seccomp", ask |-> "set"]}

\* Lines of /proc/self/maps.  The linker reserves the whole range of a library:
\* no line of another file begins between the first and the last of it.
Mapped(maps) ==
    /\ \A n \in DOMAIN maps : maps[n].start \in 0..MaxAddr /\ maps[n].end \in 0..MaxAddr
    /\ \A k, n, m \in DOMAIN maps :
          /\ maps[n].name = "self" /\ maps[m].name = "self" /\ maps[k].name # "self"
          => ~(maps[n].start <= maps[k].start /\ maps[k].start < maps[m].end)

ASSUME HookerAssumption ==
    /\ TypeOrder \in Seq(STRING) /\ {"rt_sigaction", "prctl"} \subseteq Types
    /\ \A w \in Worlds :
          /\ w.arch \in {"aarch64", "arm", "x86_64"}
          /\ w.inits \in Nat /\ w.items \in Nat /\ w.threads \in Nat
          /\ w.calls \subseteq AppCalls /\ w.cbs \subseteq Callbacks
          /\ w.mode \subseteq {"vdso", "libc", "linker"}
          /\ w.maps \in Seq([name : STRING, start : Int, end : Int]) /\ Mapped(w.maps)
    /\ "dumper" \in DOMAIN Behaviour
    /\ \A cb \in DOMAIN Behaviour : Behaviour[cb] \in {"pass", "answer", "retry", "dump"}

VARIABLES
    world,          \* the world of this behaviour
    running,        \* the threads that run
    covered,        \* those the installed filter applies to
    phase,          \* init: [at, by]: "out", "checked" after checkKernelVersion, "handled"
                    \* after sigaction; and the thread that called it last
    inits,          \* how many times init was called
    filter,         \* the program installed in the kernel, <<>> before
    sInited,
    kernel_act,     \* the disposition of SIGSYS
    others,         \* the calls by which a covered thread has installed a filter of the app
    seen,           \* history: has the app been shown the hook's handler as the action of SIGSYS?
    g_default_act,  \* the disposition the dumper shows
    g_cache_secomp,
    items,          \* the SvcerHookerItems ever allocated: [ty, cb, next, live]; 0 is nullptr
    hasArray,          \* has the array of the heads been allocated?
    g_callbacks,    \* the head of each list
    op,             \* the operation on a list each thread is in
    frame,          \* the activation of the handler in each thread
    failure,        \* "none", or how the process was lost
    careless,       \* history: see Using and matches
    late,           \* history: init failed once its handler was installed
    shielded        \* history: see Shielded and Fills

env == <<world, running, covered, phase, inits, filter, sInited, late>>
signals == <<kernel_act, others, seen, g_default_act, g_cache_secomp>>
lists == <<items, hasArray, g_callbacks, op, careless, shielded>>
vars == <<world, running, covered, phase, inits, filter, sInited, late,
          kernel_act, others, seen, g_default_act, g_cache_secomp,
          items, hasArray, g_callbacks, op, careless, shielded, frame, failure>>

NoFrame == [at |-> "app"]
NoOp == [at |-> "none"]

HookerTypeOK ==
    /\ covered \subseteq running /\ running \subseteq Thread /\ phase.by \in running
    /\ phase.at \in {"out", "checked", "handled"} /\ inits \in 0..world.inits
    /\ kernel_act \in {"default", "app", "hooker"} /\ others \subseteq {"prctl", "seccomp"}
    /\ g_default_act \in {"zero", "default", "app", "hooker"} /\ seen \in BOOLEAN
    /\ items \in Seq([ty : Types, cb : Callbacks, next : 0..Len(items), live : BOOLEAN])
    /\ g_callbacks \in [Types -> 0..Len(items)]
    /\ \A t \in Thread : /\ frame[t].at \in {"app", "dispatch", "callback"}
                         /\ op[t].at # "none" => op[t].i \in 0..Len(items) /\ op[t].other \in 0..Len(items)
    /\ failure \in {"none", "freed", "nohead", "null", "recursion", "killed"}

HookerInit ==
    /\ world \in Worlds
    /\ \E t \in Thread : running = {t} /\ phase = [at |-> "out", by |-> t]
    /\ covered = {} /\ inits = 0
    /\ filter = <<>> /\ sInited = FALSE
    /\ kernel_act = "default" /\ others = {} /\ seen = FALSE
    /\ g_default_act = "zero" /\ g_cache_secomp = -1
    /\ items = <<>> /\ hasArray = FALSE /\ g_callbacks = [ty \in Types |-> 0]
    /\ op = [t \in Thread |-> NoOp]
    /\ frame = [t \in Thread |-> NoFrame]
    /\ failure = "none"
    /\ careless = FALSE /\ late = FALSE /\ shielded = FALSE

\* A thread that runs and is neither in init nor in an operation on a list.
Ready(t) ==
    /\ failure = "none"
    /\ t \in running
    /\ phase.at = "out" \/ phase.by # t
    /\ op[t].at = "none"

\* The app starts a thread, which inherits the filters of the one that does.
Spawn(t, u) ==
    /\ Ready(t)
    /\ frame[t].at = "app"
    /\ u \notin running /\ Cardinality(running) < world.threads
    /\ running' = running \cup {u}
    /\ covered' = IF t \in covered THEN covered \cup {u} ELSE covered
    /\ UNCHANGED <<world, phase, inits, filter, sInited, late, signals, lists, frame, failure>>

(***************************************************************************)
(* The lists.                                                              *)
(***************************************************************************)
Dead(its, i) == i # 0 /\ ~its[i].live

\* The list an operation is at work on; addAll goes from one to the next.
ListOf(o) == Head(o.todo)

\* Items that let no call through to the kernel: a dumper answers it, and the
\* others give it, once, to the next one.
Answering(its, S) ==
    /\ S \subseteq DOMAIN its
    /\ \A i \in S : /\ its[i].live /\ Behaviour[its[i].cb] # "retry"
                    /\ Behaviour[its[i].cb] = "dump" \/ its[i].next \in S

\* A list lets no call of its type through to the kernel.
Shielded(ty) == \E S \in SUBSET DOMAIN items : Answering(items, S) /\ g_callbacks[ty] \in S

\* A write into the lists goes where there was nothing: it unlinks no item,
\* neither one that is removed nor one another thread has just registered.
Fills(old) == shielded' = (shielded /\ old = 0)

\* The operation of t fails, or goes on as o.
Fails(how) ==
    /\ failure' = how
    /\ UNCHANGED <<env, signals, lists, frame>>

Goes(t, o) ==
    /\ op' = [op EXCEPT ![t] = o]
    /\ UNCHANGED <<env, signals, frame, failure>>

\* An operation begins outside the handler, or in a callback.
Begins(t) ==
    /\ Ready(t)
    /\ frame[t].at = "app" \/ (frame[t].at = "callback" /\ frame[t].stack # <<>>)

\* registerCallback(todo[1], cb), and those that follow.
Registering(todo, cb) ==
    [at |-> "head", todo |-> todo, cb |-> cb, i |-> 0, other |-> 0]

\* What is left to do once the first is done.
Rest(o) == IF Len(o.todo) = 1 THEN NoOp ELSE Registering(Tail(o.todo), o.cb)

\* registerCallback finds the array of heads, or not.
registers(t, todo, cb) ==
    /\ Begins(t)
    /\ Len(items) + Len(todo) <= world.items
    /\ Goes(t, [Registering(todo, cb) EXCEPT !.at = IF hasArray THEN "head" ELSE "array"])
    /\ UNCHANGED <<items, hasArray, g_callbacks, careless, shielded>>

registerCallback(t, ty, cb) == registers(t, <<ty>>, cb)

\* SvcerDumper::addAll.  addDump is registerCallback(t, ty, "dumper").
addAll(t) == registers(t, TypeOrder, "dumper")

\* The array is made, with no item in it.
makesArray(t) ==
    /\ failure = "none" /\ op[t].at = "array"
    /\ hasArray' = TRUE
    /\ g_callbacks' = [ty \in Types |-> 0]
    /\ Fills(IF hasArray THEN 1 ELSE 0)
    /\ Goes(t, [op[t] EXCEPT !.at = "head"])
    /\ UNCHANGED <<items, careless>>

readsHead(t) ==
    /\ failure = "none" /\ op[t].at = "head"
    /\ Goes(t, [op[t] EXCEPT !.at = IF g_callbacks[ListOf(op[t])] = 0 THEN "first" ELSE "again"])
    /\ UNCHANGED <<items, hasArray, g_callbacks, careless, shielded>>

\* A new item, of the callback that is being registered.
New(o) == [ty |-> ListOf(o), cb |-> o.cb, next |-> 0, live |-> TRUE]
Room == Len(items) < world.items

\* The new item becomes the head.
putsFirst(t) ==
    /\ failure = "none" /\ op[t].at = "first" /\ Room
    /\ items' = Append(items, New(op[t]))
    /\ g_callbacks' = [g_callbacks EXCEPT ![ListOf(op[t])] = Len(items) + 1]
    /\ Fills(g_callbacks[ListOf(op[t])])
    /\ Goes(t, Rest(op[t]))
    /\ UNCHANGED <<hasArray, careless>>

\* Mutant: the list is linked to a temporary.
createsTemporary(t) ==
    LET head == g_callbacks[ListOf(op[t])]
    IN  /\ failure = "none" /\ op[t].at = "again" /\ head # 0
        /\ Goes(t, [op[t] EXCEPT !.at = "walk", !.i = head, !.other = Len(items) + 1])
        /\ UNCHANGED <<items, hasArray, g_callbacks, careless, shielded>>

\* The head is read once more, for addNext; it may be gone.
creates(t) ==
    LET head == g_callbacks[ListOf(op[t])]
    IN  /\ failure = "none" /\ op[t].at = "again" /\ Room
        /\ IF head = 0 THEN Fails("nohead")
           ELSE /\ items' = Append(items, New(op[t]))
                /\ Goes(t, [op[t] EXCEPT !.at = "walk", !.i = head, !.other = Len(items) + 1])
                /\ UNCHANGED <<hasArray, g_callbacks, careless, shielded>>

\* addNext looks for the end of the list.
addNext(t) ==
    LET i == op[t].i
    IN  /\ failure = "none" /\ op[t].at = "walk"
        /\ IF Dead(items, i) THEN Fails("freed")
           ELSE /\ Goes(t, IF items[i].next = 0 THEN [op[t] EXCEPT !.at = "link"]
                           ELSE [op[t] EXCEPT !.i = items[i].next])
                /\ UNCHANGED <<items, hasArray, g_callbacks, careless, shielded>>

\* The new item is linked to the one that was the last.
linksLast(t) ==
    LET i == op[t].i
    IN  /\ failure = "none" /\ op[t].at = "link"
        /\ IF Dead(items, i) THEN Fails("freed")
           ELSE /\ items' = [items EXCEPT ![i].next = op[t].other]
                /\ Fills(items[i].next)
                /\ Goes(t, Rest(op[t]))
                /\ UNCHANGED <<hasArray, g_callbacks, careless>>

\* Is a list in use beside t: by an operation of another thread, or by a
\* handler that is at work on a call of its type?
Using(t, ty) ==
    \/ \E u \in Thread \ {t} : op[u].at # "none" /\ ListOf(op[u]) = ty
    \/ \E u \in Thread : frame[u].at # "app" /\ frame[u].call.nr = ty

\* unregisterCallback takes the head.
unregisterCallback(t, ty, cb) ==
    /\ Begins(t)
    /\ g_callbacks[ty] # 0
    /\ careless' = (careless \/ Using(t, ty))
    /\ Goes(t, [at |-> "compare", todo |-> <<ty>>, cb |-> cb, i |-> g_callbacks[ty], other |-> 0])
    /\ UNCHANGED <<items, hasArray, g_callbacks, shielded>>

compares(t) ==
    LET i == op[t].i
    IN  /\ failure = "none" /\ op[t].at = "compare"
        /\ IF Dead(items, i) THEN Fails("freed")
           ELSE /\ Goes(t, [op[t] EXCEPT !.at = IF items[i].cb = op[t].cb THEN "unlink" ELSE "seek"])
                /\ UNCHANGED <<items, hasArray, g_callbacks, careless, shielded>>

unlinks(t) ==
    LET i == op[t].i
    IN  /\ failure = "none" /\ op[t].at = "unlink"
        /\ IF Dead(items, i) THEN Fails("freed")
           ELSE /\ Goes(t, [op[t] EXCEPT !.at = "put", !.other = items[i].next])
                /\ UNCHANGED <<items, hasArray, g_callbacks, careless, shielded>>

\* Mutant: the head is not moved to the next item.
putsHeadNot(t) ==
    /\ failure = "none" /\ op[t].at = "put"
    /\ Goes(t, [op[t] EXCEPT !.at = "delete"])
    /\ UNCHANGED <<items, hasArray, g_callbacks, careless, shielded>>

putsHead(t) ==
    /\ failure = "none" /\ op[t].at = "put"
    /\ g_callbacks' = [g_callbacks EXCEPT ![ListOf(op[t])] = op[t].other]
    /\ Fills(1)
    /\ Goes(t, [op[t] EXCEPT !.at = "delete"])
    /\ UNCHANGED <<items, hasArray, careless>>

\* The callback is looked for behind the head.
seeks(t) ==
    LET i == op[t].i
    IN  /\ failure = "none" /\ op[t].at = "seek"
        /\ IF Dead(items, i) THEN Fails("freed")
           ELSE /\ Goes(t, IF items[i].next = 0 THEN NoOp
                           ELSE [op[t] EXCEPT !.at = "match", !.i = items[i].next])
                /\ UNCHANGED <<items, hasArray, g_callbacks, careless, shielded>>

\* A later item that is the one is deleted, and stays linked.
matches(t) ==
    LET i == op[t].i
    IN  /\ failure = "none" /\ op[t].at = "match"
        /\ IF Dead(items, i) THEN Fails("freed")
           ELSE /\ careless' = (careless \/ items[i].cb = op[t].cb)
                /\ Goes(t, [op[t] EXCEPT !.at = IF items[i].cb = op[t].cb THEN "delete" ELSE "seek"])
                /\ UNCHANGED <<items, hasArray, g_callbacks, shielded>>

deletes(t) ==
    LET i == op[t].i
    IN  /\ failure = "none" /\ op[t].at = "delete"
        /\ IF Dead(items, i) THEN Fails("freed")
           ELSE /\ items' = [items EXCEPT ![i].live = FALSE]
                /\ careless' = (careless \/ Using(t, ListOf(op[t])))
                /\ Fills(1)
                /\ Goes(t, NoOp)
                /\ UNCHANGED <<hasArray, g_callbacks>>

ListStep(t) ==
    \/ makesArray(t) \/ readsHead(t) \/ putsFirst(t) \/ creates(t) \/ addNext(t) \/ linksLast(t)
    \/ compares(t) \/ unlinks(t) \/ putsHead(t) \/ seeks(t) \/ matches(t) \/ deletes(t)

(***************************************************************************)
(* SvcerHooker::init, which one thread calls at a time.                    *)
(***************************************************************************)
initChecks(t) ==
    /\ Ready(t)
    /\ frame[t].at = "app"
    /\ phase.at = "out" /\ ~sInited /\ inits < world.inits
    /\ inits' = inits + 1
    /\ \/ UNCHANGED <<phase, g_default_act>>   \* the kernel is too old: -1
       \/ phase' = [at |-> "checked", by |-> t] /\ g_default_act' = kernel_act
    /\ UNCHANGED <<world, running, covered, filter, sInited, late, kernel_act, others, seen,
                   g_cache_secomp, lists, frame, failure>>

\* The search for the libraries and the handler of SIGSYS.
initCode(sys) ==
    LET ret == search(world.links, world.maps, world.opened)
    IN  IF ret # 0 THEN ret
        ELSE CASE sys = "calloc" -> -10 [] sys = "sigaction" -> -11 [] OTHER -> 0

\* Mutant: the disposition the app is shown is read once the handler is there.
initHandlesReadsLate(sys) ==
    /\ failure = "none" /\ phase.at = "checked"
    /\ phase' = [phase EXCEPT !.at = IF initCode(sys) = 0 THEN "handled" ELSE "out"]
    /\ kernel_act' = IF initCode(sys) = 0 THEN "hooker" ELSE kernel_act
    /\ g_default_act' = kernel_act'
    /\ UNCHANGED <<world, running, covered, inits, filter, sInited, late, others, seen,
                   g_cache_secomp, lists, frame, failure>>

initHandles(sys) ==
    /\ failure = "none" /\ phase.at = "checked"
    /\ phase' = [phase EXCEPT !.at = IF initCode(sys) = 0 THEN "handled" ELSE "out"]
    /\ kernel_act' = IF initCode(sys) = 0 THEN "hooker" ELSE kernel_act
    /\ UNCHANGED <<world, running, covered, inits, filter, sInited, late, others, seen,
                   g_default_act, g_cache_secomp, lists, frame, failure>>

\* The filter.  PR_SET_SECCOMP applies it to the calling thread alone, and the
\* kernel refuses a program with a jump out of it.
initFilters(sys) ==
    LET prog == SvcerProgram(world.arch, world.mode, found(world.maps))
        code == CASE sys = "sigprocmask"  -> -12
                  [] sys = "no_new_privs" -> -13
                  [] sys = "seccomp"      -> -14
                  [] OTHER -> IF Accepted(prog) THEN 0 ELSE -14
    IN  /\ failure = "none" /\ phase.at = "handled"
        /\ phase' = [phase EXCEPT !.at = "out"]
        /\ filter' = IF code = 0 THEN prog ELSE filter
        /\ covered' = IF code = 0 THEN covered \cup {phase.by} ELSE covered
        /\ sInited' = (code = 0)
        /\ late' = (late \/ code # 0)
        /\ shielded' = (code = 0 /\ \A ty \in Types : Shielded(ty))
        /\ UNCHANGED <<world, running, inits, signals,
                       items, hasArray, g_callbacks, op, careless, frame, failure>>

(***************************************************************************)
(* What a call of the app meets.                                           *)
(***************************************************************************)
Parms == <<"p1", "p2", "p3", "p4", "p5", "p6">>

\* The context of a trapped call: what the kernel's registers held.
Context(call) ==
    LET regs == SECCOMP(world.arch)
    IN  [r \in KernelRegs(world.arch) |->
            IF r = regs.nr THEN call.nr ELSE Parms[CHOOSE n \in 1..6 : regs.parm[n] = r]]

\* Where the app makes its calls: in its own code, and in libc.
Sites == {world.maps[n].start : n \in {k \in DOMAIN world.maps : world.maps[k].name \in {"app", "libc"}}}

Own == found(world.maps)["self"].start

\* What the installed filter says of a call; it says it of covered threads only.
Trapped(nr, ip) ==
    filter # <<>> /\ Verdict(filter, SeccompData(NR(world.arch)[nr], ip)) = "trap"

\* The app is shown an action of SIGSYS.
Shows(act) == seen' = (seen \/ act = "hooker")

\* What the kernel does of a call of t that is let through.
Kernel(t, call) ==
    /\ kernel_act' = IF call = [nr |-> "rt_sigaction", ask |-> "set"] THEN "app" ELSE kernel_act
    /\ others' = IF call.ask = "set" /\ call.nr # "rt_sigaction" /\ t \in covered
                 THEN others \cup {call.nr} ELSE others
    /\ IF call = [nr |-> "rt_sigaction", ask |-> "get"] THEN Shows(kernel_act) ELSE UNCHANGED seen

NoKernel == UNCHANGED <<kernel_act, others, seen>>

\* The app makes a call outside the library.  A trapped one raises SIGSYS:
\* the hook's handler runs, or the app's, or the process is killed.
AppCall(t, call, ip) ==
    /\ Ready(t)
    /\ frame[t].at = "app"
    /\ IF ~(t \in covered /\ Trapped(call.nr, ip))
       THEN Kernel(t, call) /\ UNCHANGED <<frame, failure>>
       ELSE /\ frame' = IF kernel_act = "hooker"
                        THEN [frame EXCEPT ![t] =
                                [at |-> "dispatch", call |-> call, stack |-> <<>>, again |-> FALSE,
                                 mItem |-> IF call.nr \in Types THEN g_callbacks[call.nr] ELSE 0,
                                 ctx |-> Context(call), asked |-> <<>>]]
                        ELSE frame
            /\ failure' = IF kernel_act = "default" THEN "killed" ELSE "none"
            /\ NoKernel
    /\ UNCHANGED <<env, g_default_act, g_cache_secomp, lists>>

(***************************************************************************)
(* The handler.                                                            *)
(***************************************************************************)
\* The end of the innermost callback, or of the handler.
Return(f) ==
    IF Len(f.stack) <= 1 THEN NoFrame
    ELSE [f EXCEPT !.stack = Front(@)]

\* doCallOriginSysCall: the call is made from the library, with what the
\* context holds now; its result goes to the context.
doCallOriginSysCall(t, f) ==
    LET macros == SECCOMP(world.arch)
        regs == Call(world.arch, f.ctx[macros.nr], [n \in 1..6 |-> f.ctx[macros.parm[n]]])
        same == regs[macros.nr] = f.call.nr
    IN  IF same /\ Trapped(f.call.nr, Own)
        THEN failure' = "recursion" /\ NoKernel /\ UNCHANGED frame
        ELSE /\ Kernel(t, IF same THEN f.call ELSE [nr |-> "other", ask |-> "path"])
             /\ frame' = [frame EXCEPT ![t] = [f EXCEPT !.asked = Append(@, regs),
                                                        !.ctx[macros.result] = "result"]]
             /\ UNCHANGED failure

\* handleSyscall, doSyscall: the callback of the item is called.
Dispatch(t) ==
    LET f == frame[t]
    IN  /\ Ready(t)
        /\ f.at = "dispatch"
        /\ IF f.mItem = 0 THEN doCallOriginSysCall(t, [f EXCEPT !.at = "callback"])
           ELSE IF Dead(items, f.mItem) THEN failure' = "freed" /\ NoKernel /\ UNCHANGED frame
           ELSE /\ frame' = [frame EXCEPT ![t] =
                            [f EXCEPT !.at = "callback",
                                      !.stack = Append(@, [cb |-> items[f.mItem].cb, calls |-> 0])]]
                /\ NoKernel /\ UNCHANGED failure
        /\ UNCHANGED <<env, g_default_act, g_cache_secomp, lists>>

\* SvcerHookerArgument::doSyscall, called by the innermost callback, up to
\* moveToNext.
doSyscall(t) ==
    LET f == [frame[t] EXCEPT !.stack[Len(frame[t].stack)].calls = @ + 1,
                              !.again = @ \/ Last(frame[t].stack).calls > 0]
        next == items[f.mItem].next
    IN  IF f.mItem = 0 THEN failure' = "null" /\ NoKernel /\ UNCHANGED frame
        ELSE IF Dead(items, f.mItem) THEN failure' = "freed" /\ NoKernel /\ UNCHANGED frame
        ELSE IF next = 0 THEN doCallOriginSysCall(t, [f EXCEPT !.mItem = 0])
        ELSE /\ frame' = [frame EXCEPT ![t] = [f EXCEPT !.at = "dispatch", !.mItem = next]]
             /\ NoKernel /\ UNCHANGED failure

\* Mutant: the dumper goes on to doSyscall once it has answered.
PassesAnswered(f) ==
    LET b == Behaviour[Last(f.stack).cb]
    IN  CASE b = "answer" -> 0
          [] b = "pass"   -> 1
          [] b = "retry"  -> 2
          [] b = "dump"   -> 1

\* How often a callback calls doSyscall.
Passes(f) ==
    LET b == Behaviour[Last(f.stack).cb]
    IN  CASE b = "answer" -> 0
          [] b = "pass"   -> 1
          [] b = "retry"  -> 2
          [] b = "dump"   -> IF f.call.ask = "path" THEN 1 ELSE 0

Pass(t) ==
    /\ Ready(t)
    /\ frame[t].at = "callback" /\ frame[t].stack # <<>>
    /\ Last(frame[t].stack).calls < Passes(frame[t])
    /\ doSyscall(t)
    /\ UNCHANGED <<env, g_default_act, g_cache_secomp, lists>>

\* handleSvcerHookerCallback answers what concerns SIGSYS and seccomp itself,
\* from what it keeps for the app.
dumped(f, call) ==
    f.stack # <<>> /\ Behaviour[Last(f.stack).cb] = "dump" /\ f.call = call

\* The callback returns.  A call it has not passed on is one it has answered.
Finish(t) ==
    LET f == frame[t]
        answered == f.stack # <<>> /\ Last(f.stack).calls = 0
    IN  /\ Ready(t)
        /\ f.at = "callback"
        /\ f.stack # <<>> => Last(f.stack).calls = Passes(f)
        /\ g_default_act' = IF dumped(f, [nr |-> "rt_sigaction", ask |-> "set"]) THEN "app"
                            ELSE g_default_act
        /\ g_cache_secomp' = IF dumped(f, [nr |-> "prctl", ask |-> "set"]) THEN 2 ELSE g_cache_secomp
        /\ IF dumped(f, [nr |-> "rt_sigaction", ask |-> "get"]) THEN Shows(g_default_act)
           ELSE UNCHANGED seen
        /\ frame' = [frame EXCEPT ![t] =
                        Return(IF answered
                               THEN [f EXCEPT !.ctx[SECCOMP(world.arch).result] = "answer"] ELSE f)]
        /\ UNCHANGED <<env, kernel_act, others, lists, failure>>

HookerNext ==
    \/ \E sys \in {"none", "calloc", "sigaction"} : initHandles(sys)
    \/ \E sys \in {"none", "sigprocmask", "no_new_privs", "seccomp"} : initFilters(sys)
    \/ \E t \in Thread :
          \/ \E u \in Thread : Spawn(t, u)
          \/ \E ty \in Types, cb \in world.cbs :
                registerCallback(t, ty, cb) \/ unregisterCallback(t, ty, cb)
          \/ addAll(t)
          \/ ListStep(t)
          \/ initChecks(t)
          \/ \E call \in world.calls, ip \in Sites : AppCall(t, call, ip)
          \/ Dispatch(t) \/ Pass(t) \/ Finish(t)

HookerSpec == HookerInit /\ [][HookerNext]_vars

(***************************************************************************)
(* Properties.                                                             *)
(***************************************************************************)
InOneWindow(r) == r = NoRange \/ High(r.start) = High(r.end)

\* Is ip between the first and the last line of a library?
Covers(lib, ip) ==
    \E n, m \in DOMAIN world.maps :
        /\ world.maps[n].name = lib /\ world.maps[m].name = lib
        /\ world.maps[n].start <= ip /\ ip < world.maps[m].end

\* The filter built by doInitSyscallNumberFilter and doInitSyscallLibFilter
\* traps exactly the three chosen calls, as the tracer's own tables number
\* them, made outside the library itself and the libraries to ignore, wherever
\* the loader has put them; unless one crosses a boundary of 4 GB, where the
\* high word of its start is not that of its end.  (The filter never changes:
\* it is looked at before anything is registered.)
FilterExact ==
    filter # <<>> /\ items = <<>> /\ (\A lib \in Libs : InOneWindow(found(world.maps)[lib])) =>
        LET table == get_sysnums(IF world.arch = "aarch64" THEN "arm64" ELSE world.arch, "DEFAULT").table
        IN  \A pr \in DOMAIN table.entries, ip \in 0..MaxAddr :
                Verdict(filter, SeccompData(table.entries[pr], ip)) = "trap" <=>
                    /\ pr \in {"openat", "prctl", "rt_sigaction"}
                    /\ \A lib \in {"self"} \cup world.mode : ~Covers(lib, ip)

\* A call that doCallOriginSysCall makes is never trapped again: SA_NODEFER
\* would start the handler inside the handler, for ever.  Only a library that
\* crosses a boundary of 4 GB is not safe from it.
NoReentry == failure = "recursion" => ~InOneWindow(found(world.maps)["self"])

\* The hook is on guard: init has succeeded while no thread ran that it does not
\* cover, with no library to ignore and the dumper in every list, before any
\* callback that calls doSyscall again after an answer; and no write to a list
\* has unlinked anything since.
Guarded == sInited /\ shielded /\ world.mode = {} /\ running \subseteq covered

\* While the hook is on guard the app can neither replace the handler of SIGSYS
\* (after which a trapped call is lost, or kills it) nor put a filter of its own
\* in front of the hook's with prctl; seccomp(2), which the filter lets
\* through, does that.
HookIntact == Guarded => kernel_act = "hooker" /\ "prctl" \notin others

\* A freed SvcerHookerItem is touched, by a handler, a registration or another
\* removal, only if an unregisterCallback removed an item that was not the head
\* of its list, or began or deleted while another operation or a handler was at
\* work on that list: whoever removes heads only, while nobody registers or
\* removes a callback of the call and no thread is in the handler for it, is
\* safe, whatever happens to the other lists.
FreedOnlyIfCareless == failure = "freed" => careless

\* Whatever callbacks there are and however often each calls doSyscall, the
\* kernel is asked at most once per trapped call; doSyscall finds a null item
\* only after that; and as long as no callback calls it twice the kernel is
\* given the number and the six arguments of the trapped call in their
\* registers, on every architecture.
KernelAskedOnce ==
    \A t \in Thread : frame[t].at # "app" =>
        /\ Len(frame[t].asked) <= 1
        /\ failure = "null" => \E u \in Thread : frame[u].at # "app" /\ frame[u].asked # <<>>
        /\ ~frame[t].again => \A regs \in ToSet(frame[t].asked) : regs = Context(frame[t].call)

\* While the hook is on guard no thread has been shown the hook's handler when
\* it asked for the action of SIGSYS, by the dumper or by the kernel, unless
\* init failed after it had installed it and was called again.
HookHidden == Guarded /\ ~late => ~seen

=============================================================================
