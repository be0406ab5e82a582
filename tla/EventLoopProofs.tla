-------------------------- MODULE EventLoopProofs --------------------------
(***************************************************************************)
(* Proofs that the safety properties of EventLoop hold for any number of   *)
(* descriptors, any size of events[] and any number of connections.        *)
(***************************************************************************)
EXTENDS EventLoop, TLAPS

-----------------------------------------------------------------------------
(***************************************************************************)
(* The inductive invariant.  The three properties about callbacks hold     *)
(* together or not at all, and need to know that epoll_wait reports a      *)
(* descriptor once, so that the event being served is no longer among      *)
(* those to come, and that the listener is never closed.                   *)
(***************************************************************************)
OneEventPerFd == \A e, f \in batch : e.fd = f.fd => e = f
ServedOnce == pc = "callback" => \A e \in batch : e.fd # cur
BatchOnlyInFor == pc \in {"setup", "armed", "test", "enter", "blocked"} => batch = {}
StaticOpen == StaticFds \subseteq open
LateOnce ==
  late = 0 \/ (late = 1 /\ ~running /\ pc \notin {"setup", "armed", "enter", "blocked"})

DispatchInv ==
  /\ NoStaleDispatch /\ CallbackAlive /\ RegistrationCurrent
  /\ OneEventPerFd /\ ServedOnce /\ BatchOnlyInFor /\ StaticOpen

IInv == TypeOK /\ DispatchInv /\ LateOnce

-----------------------------------------------------------------------------
(***************************************************************************)
(* The types of the loop's members are kept by every step.                 *)
(***************************************************************************)
LEMMA InitType == Init => TypeOK
<1> SUFFICES ASSUME Init PROVE TypeOK
  OBVIOUS
<1>1. gen \in [Fds -> Nat] /\ readers \in [Fds -> Nat]
  BY DEF Init
<1>2. running \in BOOLEAN /\ sigint \in BOOLEAN
  BY Zenon DEF Init
<1> QED BY <1>1, <1>2, LoopAssumption DEF Init, TypeOK, Locations

LEMMA NextType == TypeOK /\ [Next]_vars => TypeOK'
<1> SUFFICES ASSUME TypeOK, [Next]_vars PROVE TypeOK'
  OBVIOUS
<1> USE DEF TypeOK
<1>1. CASE Loop
  <2>1. CASE SetGLoop /\ Quiet
    BY <2>1 DEF SetGLoop, Quiet, Locations
  <2>2. CASE Run /\ Quiet
    BY <2>2 DEF Run, Quiet, Locations
  <2>3. CASE Test /\ Quiet
    BY <2>3 DEF Test, Quiet, Locations
  <2>4. CASE Block /\ Quiet
    BY <2>4 DEF Block, Quiet, Locations
  <2>5. CASE EndBatch /\ Quiet
    BY <2>5 DEF EndBatch, Quiet, Locations
  <2>6. ASSUME NEW B \in SUBSET Reportable, EpollWait(B), Quiet PROVE TypeOK'
    <3>1. ASSUME NEW fd \in B
          PROVE [fd |-> fd, gen |-> gen[fd], epollin |-> fd \in ready] \in Events
      <4>1. fd \in Fds /\ gen[fd] \in Nat
        BY DEF Reportable
      <4>2. (fd \in ready) \in BOOLEAN
        OBVIOUS
      <4> QED BY <4>1, <4>2, Zenon DEF Events
    <3>2. batch' \subseteq Events
      BY <2>6, <3>1, Zenon DEF EpollWait
    <3> QED BY <2>6, <3>2 DEF EpollWait, Quiet, Locations
  <2>7. ASSUME NEW e \in batch, Dispatch(e), Quiet PROVE TypeOK'
    BY <2>7 DEF Dispatch, Quiet, Events, Locations
  <2> QED BY <1>1, <2>1, <2>2, <2>3, <2>4, <2>5, <2>6, <2>7 DEF Loop
<1>2. CASE Callback
  <2>1. CASE CbRead
    BY <2>1 DEF CbRead, loopVars
  <2>2. CASE CbClose
    BY <2>2 DEF CbClose, close
  <2>3. CASE (CbKilled \/ CbReturn) /\ Quiet
    BY <2>3 DEF CbKilled, CbReturn, Quiet, Locations
  <2>4. ASSUME NEW fd \in Fds, CbAccept(fd) PROVE TypeOK'
    BY <2>4 DEF CbAccept, accept, add_reader, Locations
  <2>5. ASSUME NEW fd \in Fds, CbRemove(fd) PROVE TypeOK'
    BY <2>5 DEF CbRemove
  <2> QED BY <1>2, <2>1, <2>2, <2>3, <2>4, <2>5 DEF Callback
<1>3. CASE Sigint /\ Quiet
  BY <1>3 DEF Sigint, Quiet, Locations
<1>4. CASE Kernel
  BY <1>4 DEF Kernel, Arrive, Fault, loopVars
<1>5. CASE UNCHANGED vars
  BY <1>5 DEF vars, loopVars
<1> QED BY <1>1, <1>2, <1>3, <1>4, <1>5 DEF Next

-----------------------------------------------------------------------------
(***************************************************************************)
(* No step dispatches, erases or overwrites the wrong callback.            *)
(***************************************************************************)
LEMMA InitDispatch == Init => DispatchInv
BY LoopAssumption DEF Init, DispatchInv, NoStaleDispatch, CallbackAlive, RegistrationCurrent,
   OneEventPerFd, ServedOnce, BatchOnlyInFor, StaticOpen

LEMMA NextDispatch == TypeOK /\ DispatchInv /\ [Next]_vars => DispatchInv'
<1> SUFFICES ASSUME TypeOK, DispatchInv, [Next]_vars PROVE DispatchInv'
  OBVIOUS
<1> USE DEF DispatchInv, NoStaleDispatch, CallbackAlive, RegistrationCurrent,
            OneEventPerFd, ServedOnce, BatchOnlyInFor, StaticOpen
<1>1. CASE Loop
  <2>1. CASE (SetGLoop \/ Run \/ Test \/ Block \/ EndBatch) /\ Quiet
    BY <2>1 DEF SetGLoop, Run, Test, Block, EndBatch
  <2>2. ASSUME NEW B \in SUBSET Reportable, EpollWait(B) PROVE DispatchInv'
    BY <2>2 DEF EpollWait, Reportable, TypeOK
  <2>3. ASSUME NEW e \in batch, Dispatch(e) PROVE DispatchInv'
    BY <2>3 DEF Dispatch, TypeOK, Events
  <2> QED BY <1>1, <2>1, <2>2, <2>3 DEF Loop
<1>2. CASE Callback
  <2>1. CASE CbRead
    BY <2>1 DEF CbRead, loopVars
  <2>2. CASE CbClose
    BY <2>2 DEF CbClose, close
  <2>3. CASE CbKilled \/ CbReturn
    BY <2>3 DEF CbKilled, CbReturn
  <2>4. ASSUME NEW fd \in Fds, CbAccept(fd) PROVE DispatchInv'
    <3>1. fd \notin open /\ cur # fd
      BY <2>4 DEF CbAccept, accept
    <3>2. /\ open' = open \cup {fd} /\ cur' = cur /\ batch' = batch
          /\ \A f \in Fds \ {fd} : gen'[f] = gen[f] /\ readers'[f] = readers[f]
          /\ readers'[fd] = gen'[fd]
      BY <2>4 DEF CbAccept, accept, add_reader, TypeOK
    <3>3. epoll' \subseteq epoll \cup {fd} /\ pc' \in {pc, "fatal"} /\ pc = "callback"
      BY <2>4 DEF CbAccept, accept
    <3> QED BY <3>1, <3>2, <3>3 DEF TypeOK, Events
  <2>5. ASSUME NEW fd \in Fds, CbRemove(fd) PROVE DispatchInv'
    BY <2>5 DEF CbRemove, TypeOK, Events
  <2> QED BY <1>2, <2>1, <2>2, <2>3, <2>4, <2>5 DEF Callback
<1>3. CASE Sigint
  BY <1>3 DEF Sigint
<1>4. CASE Kernel
  BY <1>4 DEF Kernel, Arrive, Fault, loopVars
<1>5. CASE UNCHANGED vars
  BY <1>5 DEF vars, loopVars
<1> QED BY <1>1, <1>2, <1>3, <1>4, <1>5 DEF Next

-----------------------------------------------------------------------------
(***************************************************************************)
(* The count of epoll_wait calls that return events after stop().          *)
(***************************************************************************)
LEMMA NextLate == TypeOK /\ LateOnce /\ [Next]_vars => LateOnce'
<1> SUFFICES ASSUME TypeOK, LateOnce, [Next]_vars PROVE LateOnce'
  OBVIOUS
<1> USE DEF LateOnce
<1>1. CASE Loop
  <2>1. CASE (SetGLoop \/ Run \/ Test \/ Block \/ EndBatch) /\ Quiet
    BY <2>1 DEF SetGLoop, Run, Test, Block, EndBatch, TypeOK
  <2>2. ASSUME NEW B \in SUBSET Reportable, EpollWait(B) PROVE LateOnce'
    BY <2>2 DEF EpollWait, TypeOK
  <2>3. ASSUME NEW e \in batch, Dispatch(e) PROVE LateOnce'
    BY <2>3 DEF Dispatch
  <2> QED BY <1>1, <2>1, <2>2, <2>3 DEF Loop
<1>2. CASE Callback
  <2>1. CASE CbRead \/ CbClose \/ CbKilled \/ CbReturn
    BY <2>1 DEF CbRead, CbClose, close, CbKilled, CbReturn, loopVars
  <2>2. ASSUME NEW fd \in Fds, CbAccept(fd) \/ CbRemove(fd) PROVE LateOnce'
    BY <2>2 DEF CbAccept, accept, CbRemove
  <2> QED BY <1>2, <2>1, <2>2 DEF Callback
<1>3. CASE Sigint
  BY <1>3 DEF Sigint, TypeOK
<1>4. CASE Kernel
  BY <1>4 DEF Kernel, Arrive, Fault, loopVars
<1>5. CASE UNCHANGED vars
  BY <1>5 DEF vars, loopVars
<1> QED BY <1>1, <1>2, <1>3, <1>4, <1>5 DEF Next

-----------------------------------------------------------------------------
(***************************************************************************)
(* The inductive invariant holds in every state of every behaviour of the  *)
(* loop and its callbacks (event_loop.hpp).                                *)
(***************************************************************************)
THEOREM Invariance == Spec => []IInv
<1>1. Init => IInv
  BY InitType, InitDispatch DEF IInv, LateOnce, Init
<1>2. IInv /\ [Next]_vars => IInv'
  BY NextType, NextDispatch, NextLate DEF IInv
<1> QED BY <1>1, <1>2, PTL DEF Spec

(***************************************************************************)
(* Type correctness of the loop's members and the kernel's state.          *)
(***************************************************************************)
THEOREM TypeCorrect == Spec => []TypeOK
BY Invariance, PTL DEF IInv

(***************************************************************************)
(* Descriptor reuse never makes run() call the callback of an earlier      *)
(* connection, for any number of descriptors and of connections.           *)
(***************************************************************************)
THEOREM NeverStale == Spec => []NoStaleDispatch
<1>1. IInv => NoStaleDispatch
  BY DEF IInv, DispatchInv
<1> QED BY <1>1, Invariance, PTL

(***************************************************************************)
(* The callback run() is executing is never erased or replaced under it.   *)
(***************************************************************************)
THEOREM CallbackStaysAlive == Spec => []CallbackAlive
<1>1. IInv => CallbackAlive
  BY DEF IInv, DispatchInv
<1> QED BY <1>1, Invariance, PTL

(***************************************************************************)
(* Whatever close() leaves behind in readers_, a descriptor in the epoll   *)
(* set has the callback that add_reader stored for this incarnation.       *)
(***************************************************************************)
THEOREM RegistrationStaysCurrent == Spec => []RegistrationCurrent
<1>1. IInv => RegistrationCurrent
  BY DEF IInv, DispatchInv
<1> QED BY <1>1, Invariance, PTL

(***************************************************************************)
(* After stop() at most one more epoll_wait returns events.                *)
(***************************************************************************)
THEOREM StopIsPrompt == Spec => []StopTakesEffect
<1>1. IInv => StopTakesEffect
  BY DEF IInv, LateOnce, StopTakesEffect
<1> QED BY <1>1, Invariance, PTL
=============================================================================
