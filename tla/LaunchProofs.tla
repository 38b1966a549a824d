--------------------------- MODULE LaunchProofs ---------------------------
(***************************************************************************)
(* Theorems about Launch, for any set of processes.                        *)
(***************************************************************************)
EXTENDS Launch, TLAPS

(***************************************************************************)
(* The variables of Launch keep their types.                               *)
(***************************************************************************)
THEOREM LaunchTypeOK == Spec => []TypeOK
<1>1. Init => TypeOK
  BY LaunchAssumption DEF Init, TypeOK, Places
<1>2. TypeOK /\ [Next]_vars => TypeOK'
  <2> SUFFICES ASSUME TypeOK, [Next]_vars PROVE TypeOK'
    OBVIOUS
  <2> USE LaunchAssumption DEF TypeOK, Places, Goto, calls, globals, history
  <2>1. ASSUME NEW c \in App, Call(c) PROVE TypeOK'
    BY <2>1 DEF Call
  <2>2. ASSUME NEW c \in App, CallStep(c) PROVE TypeOK'
    BY <2>2 DEF CallStep, WaitLaunch, Publish, ForkHelper, ForkHelperFails, WaitHelper, Return
  <2>3. ASSUME NEW c \in App, HelperExits(c) \/ WakesByItself(c) PROVE TypeOK'
    BY <2>3 DEF HelperExits, WakesByItself
  <2>4. ASSUME NEW c \in App, Dies(c) PROVE TypeOK'
    BY <2>4 DEF Dies
  <2>5. CASE Launched \/ Notify
    BY <2>5 DEF Launched, Notify, CondSignal
  <2>6. ASSUME NEW c \in App, TakeHelper(c) \/ TakeTracee(c) PROVE TypeOK'
    BY <2>6 DEF TakeHelper, TakeTracee
  <2>7. CASE Attach \/ AttachFails \/ Record \/ Clear \/ NoMoreTracee
    BY <2>7 DEF Attach, AttachFails, Record, Clear, NoMoreTracee
  <2>8. CASE UNCHANGED vars
    BY <2>8 DEF vars
  <2> QED
    BY <2>1, <2>2, <2>3, <2>4, <2>5, <2>6, <2>7, <2>8 DEF Next, Work
<1> QED
  BY <1>1, <1>2, PTL DEF Spec

-----------------------------------------------------------------------------
(***************************************************************************)
(* A published pid is that of a call in progress, overlapping or not.      *)
(***************************************************************************)
LEMMA PublishedInductive ==
    TypeOK /\ Published /\ [Next]_vars => Published'
<1> SUFFICES ASSUME TypeOK, Published, [Next]_vars PROVE Published'
  OBVIOUS
<1> USE LaunchAssumption DEF TypeOK, Places, Published, Goto, calls, globals, history
<1>1. ASSUME NEW c \in App, Call(c) PROVE Published'
  BY <1>1 DEF Call
<1>2. ASSUME NEW c \in App, CallStep(c) PROVE Published'
  <2>1. CASE WaitLaunch(c) \/ ForkHelper(c) \/ ForkHelperFails(c) \/ WaitHelper(c)
    BY <2>1 DEF WaitLaunch, ForkHelper, ForkHelperFails, WaitHelper
  <2>2. CASE Publish(c) \/ Return(c)
    BY <2>2 DEF Publish, Return
  <2> QED
    BY <1>2, <2>1, <2>2 DEF CallStep
<1>3. ASSUME NEW c \in App, HelperExits(c) \/ WakesByItself(c) \/ Dies(c) PROVE Published'
  BY <1>3 DEF HelperExits, WakesByItself, Dies
<1>4. CASE Launched \/ Notify
  BY <1>4 DEF Launched, Notify, CondSignal
<1>5. ASSUME NEW c \in App, TakeHelper(c) \/ TakeTracee(c) PROVE Published'
  BY <1>5 DEF TakeHelper, TakeTracee
<1>6. CASE Attach \/ AttachFails \/ Record \/ Clear \/ NoMoreTracee
  BY <1>6 DEF Attach, AttachFails, Record, Clear, NoMoreTracee
<1>7. CASE UNCHANGED vars
  BY <1>7 DEF vars
<1> QED
  BY <1>1, <1>2, <1>3, <1>4, <1>5, <1>6, <1>7 DEF Next, Work

(***************************************************************************)
(* A process is attached only while a call made for it is in progress,     *)
(* whether or not calls overlap, fork fails, waits end by themselves,      *)
(* PTRACE_ATTACH is refused and processes die.                             *)
(***************************************************************************)
THEOREM AttachOnlyInProgress == Spec => AttachInProgress
<1> DEFINE Step == \A c \in App : app[c] # app'[c] /\ app'[c] = "traced" => InProgress(c)
<1>1. Init => Published
  BY LaunchAssumption DEF Init, Published
<1>2. TypeOK /\ Published /\ [Next]_vars => [Step]_vars
  <2> SUFFICES ASSUME TypeOK, Published, Next PROVE Step
    OBVIOUS
  <2> USE DEF TypeOK, Places, InProgress
  <2>1. CASE Attach
    BY <2>1 DEF Attach, Published
  <2>2. ASSUME NEW c \in App, Dies(c) \/ TakeTracee(c) PROVE Step
    BY <2>2 DEF Dies, TakeTracee
  <2>3. CASE UNCHANGED app
    BY <2>3
  <2>4. ASSUME NEW c \in App, Call(c) \/ CallStep(c) \/ WakesByItself(c) \/ HelperExits(c)
        PROVE  UNCHANGED app
    BY <2>4 DEF Call, CallStep, WaitLaunch, Publish, ForkHelper, ForkHelperFails,
                WaitHelper, Return, WakesByItself, HelperExits
  <2>5. ASSUME NEW c \in App, TakeHelper(c) PROVE UNCHANGED app
    BY <2>5 DEF TakeHelper
  <2>6. CASE Launched \/ AttachFails \/ Record \/ Notify \/ Clear \/ NoMoreTracee
    BY <2>3, <2>6 DEF Launched, AttachFails, Record, Notify, Clear, NoMoreTracee
  <2> QED
    BY <2>1, <2>2, <2>3, <2>4, <2>5, <2>6 DEF Next, Work
<1> QED
  BY <1>1, <1>2, LaunchTypeOK, PublishedInductive, PTL DEF Spec, AttachInProgress

-----------------------------------------------------------------------------
(***************************************************************************)
(* While calls do not overlap and fork does not fail, the invariant that   *)
(* ties the work thread to the call it answers is inductive: from the      *)
(* first wait that ends by itself on, it promises nothing of the answers.  *)
(***************************************************************************)
LEMMA SerialInvInductive ==
    ASSUME ~Concurrent, ~ForkFails
    PROVE  TypeOK /\ SerialInv /\ [Next]_vars => SerialInv'
<1> SUFFICES ASSUME TypeOK, SerialInv, [Next]_vars PROVE SerialInv'
  OBVIOUS
<1>p. Published'
  BY PublishedInductive DEF SerialInv
<1>o. OneCall'
  <2> USE LaunchAssumption
      DEF TypeOK, Places, SerialInv, OneCall, InProgress, Goto, calls, globals, history
  <2>1. ASSUME NEW c \in App, Call(c) PROVE OneCall'
    BY <2>1 DEF Call
  <2>2. ASSUME NEW c \in App, CallStep(c) \/ WakesByItself(c) PROVE OneCall'
    BY <2>2 DEF CallStep, WaitLaunch, Publish, ForkHelper, ForkHelperFails, WaitHelper,
                Return, WakesByItself
  <2>3. CASE Launched \/ Notify
    BY <2>3 DEF Launched, Notify, CondSignal
  <2>4. CASE UNCHANGED pc
    BY <2>4
  <2>5. ASSUME NEW c \in App, HelperExits(c) \/ Dies(c) \/ TakeHelper(c) \/ TakeTracee(c)
        PROVE  UNCHANGED pc
    BY <2>5 DEF HelperExits, Dies, TakeHelper, TakeTracee
  <2>6. CASE Attach \/ AttachFails \/ Record \/ Clear \/ NoMoreTracee
    BY <2>4, <2>6 DEF Attach, AttachFails, Record, Clear, NoMoreTracee
  <2>7. CASE UNCHANGED vars
    BY <2>4, <2>7 DEF vars
  <2> QED
    BY <2>1, <2>2, <2>3, <2>4, <2>5, <2>6, <2>7 DEF Next, Work
<1> DEFINE Rest == Answered /\ Answering
<1>r. ASSUME unsignalled' = {} PROVE Rest'
  <2>0. unsignalled = {} /\ Rest
    <3>1. unsignalled \subseteq unsignalled'
      BY DEF Next, Work, Call, CallStep, WaitLaunch, Publish, ForkHelper, ForkHelperFails,
             WaitHelper, Return, WakesByItself, HelperExits, Dies, Launched, TakeHelper,
             TakeTracee, Attach, AttachFails, Record, Notify, Clear, NoMoreTracee, vars,
             history
    <3> QED
      BY <1>r, <3>1 DEF SerialInv
  <2> USE <2>0, LaunchAssumption
      DEF TypeOK, Places, SerialInv, Published, OneCall, Answered, Answering, InProgress,
          Goto, calls, globals, history
  <2>1. ASSUME NEW c \in App, Call(c) PROVE Rest'
    BY <2>1 DEF Call
  <2>2. ASSUME NEW c \in App, CallStep(c) PROVE Rest'
    <3>1. CASE WaitLaunch(c)
      BY <3>1 DEF WaitLaunch
    <3>2. CASE Publish(c)
      BY <3>2 DEF Publish
    <3>3. CASE ForkHelper(c) \/ ForkHelperFails(c) \/ WaitHelper(c)
      BY <3>3 DEF ForkHelper, ForkHelperFails, WaitHelper
    <3>4. CASE Return(c)
      BY <3>4 DEF Return
    <3> QED
      BY <2>2, <3>1, <3>2, <3>3, <3>4 DEF CallStep
  <2>3. ASSUME NEW c \in App, HelperExits(c) \/ Dies(c) PROVE Rest'
    BY <2>3 DEF HelperExits, Dies
  <2>4. CASE Launched
    BY <2>4 DEF Launched, CondSignal
  <2>5. CASE Notify
    BY <2>5 DEF Notify, CondSignal
  <2>6. ASSUME NEW c \in App, TakeHelper(c) \/ TakeTracee(c) PROVE Rest'
    BY <2>6 DEF TakeHelper, TakeTracee
  <2>7. CASE Attach
    BY <2>7 DEF Attach
  <2>8. CASE AttachFails \/ Record \/ Clear \/ NoMoreTracee
    BY <2>8 DEF AttachFails, Record, Clear, NoMoreTracee
  <2>9. CASE UNCHANGED vars
    BY <2>9 DEF vars
  <2>10. ASSUME NEW c \in App, WakesByItself(c) PROVE Rest'
    BY <1>r, <2>10 DEF WakesByItself
  <2> QED
    BY <2>1, <2>2, <2>3, <2>4, <2>5, <2>6, <2>7, <2>8, <2>9, <2>10 DEF Next, Work
<1> QED
  BY <1>p, <1>o, <1>r DEF SerialInv

LEMMA SerialInvHolds ==
    ASSUME ~Concurrent, ~ForkFails
    PROVE  Spec => []SerialInv
<1>1. Init => SerialInv
  BY LaunchAssumption DEF Init, SerialInv, Published, OneCall, Answered, Answering, InProgress
<1> QED
  BY <1>1, SerialInvInductive, LaunchTypeOK, PTL DEF Spec

(***************************************************************************)
(* When calls do not overlap and fork does not fail, and for as long as    *)
(* every wait was ended by a signal, trace_new_pid returns only for a      *)
(* process that is traced or has died; deaths and refused attachments are  *)
(* allowed.                                                                *)
(***************************************************************************)
THEOREM SerialReturnMeansTraced ==
    ASSUME ~Concurrent, ~ForkFails
    PROVE  Spec => []ReturnMeansTraced
<1>1. SerialInv => ReturnMeansTraced
  BY DEF SerialInv, Answered, ReturnMeansTraced
<1> QED
  BY <1>1, SerialInvHolds, PTL

(***************************************************************************)
(* When calls do not overlap and fork does not fail, and for as long as    *)
(* every wait was ended by a signal, the structure made for a process      *)
(* bears the pid that was attached.                                        *)
(***************************************************************************)
THEOREM SerialRootIsTarget ==
    ASSUME ~Concurrent, ~ForkFails
    PROVE  Spec => []RootIsTarget
<1>1. Init => RootIsTarget
  BY DEF Init, RootIsTarget
<1>2. SerialInv /\ RootIsTarget /\ [Next]_vars => RootIsTarget'
  <2> SUFFICES ASSUME SerialInv, RootIsTarget, [Next]_vars PROVE RootIsTarget'
    OBVIOUS
  <2> USE DEF RootIsTarget, calls, globals, history
  <2>1. ASSUME NEW c \in App, Call(c) \/ CallStep(c) \/ HelperExits(c) \/ Dies(c)
        PROVE  UNCHANGED <<work, target, roots, unsignalled>>
    BY <2>1 DEF Call, CallStep, WaitLaunch, Publish, ForkHelper, ForkHelperFails,
                WaitHelper, Return, HelperExits, Dies
  <2>2. ASSUME NEW c \in App, TakeHelper(c) \/ TakeTracee(c) PROVE RootIsTarget'
    BY <2>2 DEF TakeHelper, TakeTracee
  <2>3. CASE Record
    BY <2>3 DEF Record, SerialInv, Answering
  <2>4. CASE Launched \/ Attach \/ AttachFails \/ Notify \/ Clear \/ NoMoreTracee
    BY <2>4 DEF Launched, Attach, AttachFails, Notify, Clear, NoMoreTracee
  <2>5. ASSUME NEW c \in App, WakesByItself(c) PROVE RootIsTarget'
    BY <2>5 DEF WakesByItself
  <2>6. CASE UNCHANGED vars
    BY <2>6 DEF vars
  <2> QED
    BY <2>1, <2>2, <2>3, <2>4, <2>5, <2>6 DEF Next, Work
<1> QED
  BY <1>1, <1>2, SerialInvHolds, PTL DEF Spec

=============================================================================
