----------------------------- MODULE EventLoop -----------------------------
(***************************************************************************)
(* The epoll event loop (src/src/event/event_loop.hpp) together with the   *)
(* part of main() that arms and stops it (src/src/main.cpp).               *)
(*                                                                         *)
(* One thread runs the loop; the only thing that interleaves with it is    *)
(* the SIGINT handler.  A callback is left abstract here, as the list of   *)
(* things the callbacks of this program do to the loop and to the kernel:  *)
(* read their own descriptor, accept a connection and register a reader    *)
(* for it, or close their own descriptor.  remove() is part of the class's *)
(* interface and is modelled too, for a descriptor other than the one      *)
(* being served; no callback of the program calls it.  DoIpServer fills    *)
(* the callbacks in and is checked to implement this module.               *)
(*                                                                         *)
(* A descriptor number is reused by the kernel after close(); gen counts   *)
(* the incarnations of each number, so that "the callback stored for an    *)
(* earlier connection" can be told from "the callback of this one".        *)
(*                                                                         *)
(* A name with an underscore suffix (Test_NoCheck) is a faulty variant of  *)
(* the definition that follows it; see the README.                         *)
(***************************************************************************)
EXTENDS Naturals, FiniteSets

CONSTANTS
  Fds,         \* descriptor numbers
  StaticFds,   \* descriptors open for the life of the process: CAN, SD, DoIP listener
  NoFd,        \* no callback on the stack
  MAX_EVENTS,  \* size of events[] in run() (32 in the code)
  MaxGen       \* bound: incarnations of one descriptor number

ASSUME LoopAssumption ==
  /\ StaticFds \subseteq Fds
  /\ NoFd \notin Fds
  /\ MAX_EVENTS \in Nat \ {0}
  /\ MaxGen \in Nat

VARIABLES
  pc,       \* where the thread is
  running,  \* running_
  readers,  \* readers_: the incarnation whose callback is stored, 0 for no entry
  epoll,    \* kernel: the interest list of epoll_fd_
  open,     \* kernel: open descriptors
  gen,      \* kernel: incarnations opened so far (history)
  ready,    \* kernel: descriptors on which EPOLLIN holds
  err,      \* kernel: descriptors on which EPOLLERR holds
  batch,    \* events[i .. n-1], those not yet looked at
  cur,      \* descriptor whose callback is on the stack
  sigint,   \* history: the SIGINT handler has run
  late      \* history: epoll_wait calls that returned events after stop()

loopVars == <<pc, running, readers, epoll, open, gen, batch, cur, sigint, late>>
vars == <<loopVars, ready, err>>

Locations == {"setup", "armed", "test", "enter", "blocked", "batch", "callback",
              "exited", "fatal", "killed"}
Terminated == pc \in {"exited", "fatal", "killed"}

Events == [fd : Fds, gen : Nat, epollin : BOOLEAN]

(***************************************************************************)
(* Every static reader is registered before g_loop is set (main.cpp:72-144)*)
(***************************************************************************)
Init ==
  /\ pc = "setup" /\ running = FALSE
  /\ gen = [fd \in Fds |-> IF fd \in StaticFds THEN 1 ELSE 0]
  /\ readers = gen
  /\ epoll = StaticFds /\ open = StaticFds
  /\ ready = {} /\ err = {}
  /\ batch = {} /\ cur = NoFd
  /\ sigint = FALSE /\ late = 0

-----------------------------------------------------------------------------
(***************************************************************************)
(* main() and run().                                                       *)
(***************************************************************************)
SetGLoop ==                                     \* g_loop = &loop
  /\ pc = "setup" /\ pc' = "armed"
  /\ UNCHANGED <<running, readers, epoll, open, gen, batch, cur, sigint, late>>

Run ==                                          \* running_ = true
  /\ pc = "armed" /\ pc' = "test" /\ running' = TRUE
  /\ UNCHANGED <<readers, epoll, open, gen, batch, cur, sigint, late>>

Test_NoCheck ==
  /\ pc = "test" /\ pc' = "enter"
  /\ UNCHANGED <<running, readers, epoll, open, gen, batch, cur, sigint, late>>

Test ==                                         \* while (running_)
  /\ pc = "test"
  /\ pc' = IF running THEN "enter" ELSE "exited"
  /\ UNCHANGED <<running, readers, epoll, open, gen, batch, cur, sigint, late>>

Reportable == epoll \cap (ready \cup err)

Block ==                                        \* epoll_wait finds nothing
  /\ pc = "enter" /\ Reportable = {}
  /\ pc' = "blocked"
  /\ UNCHANGED <<running, readers, epoll, open, gen, batch, cur, sigint, late>>

EpollWait(B) ==                                 \* epoll_wait returns the events of B
  /\ pc \in {"enter", "blocked"}
  /\ B \subseteq Reportable /\ B # {} /\ Cardinality(B) <= MAX_EVENTS
  /\ batch' = {[fd |-> fd, gen |-> gen[fd], epollin |-> fd \in ready] : fd \in B}
  /\ late' = IF running THEN late ELSE late + 1
  /\ pc' = "batch"
  /\ UNCHANGED <<running, readers, epoll, open, gen, cur, sigint>>

Dispatch_Skip(e) ==
  /\ pc = "batch" /\ e \in batch
  /\ batch' = batch \ {e}
  /\ IF e.epollin /\ readers[e.fd] # 0 /\ batch' # {}
       THEN pc' = "callback" /\ cur' = e.fd ELSE UNCHANGED <<pc, cur>>
  /\ UNCHANGED <<running, readers, epoll, open, gen, sigint, late>>

Dispatch(e) ==                                  \* one iteration of the for loop
  /\ pc = "batch" /\ e \in batch
  /\ batch' = batch \ {e}
  /\ IF e.epollin /\ readers[e.fd] # 0
       THEN pc' = "callback" /\ cur' = e.fd
       ELSE UNCHANGED <<pc, cur>>
  /\ UNCHANGED <<running, readers, epoll, open, gen, sigint, late>>

EndBatch ==
  /\ pc = "batch" /\ batch = {} /\ pc' = "test"
  /\ UNCHANGED <<running, readers, epoll, open, gen, batch, cur, sigint, late>>

(***************************************************************************)
(* handle_sigint: does nothing to the loop while g_loop is null, else      *)
(* stop().  It makes a blocked epoll_wait return EINTR; it does not keep a *)
(* thread that has tested running_ from entering epoll_wait.               *)
(***************************************************************************)
Sigint ==
  /\ ~Terminated
  /\ sigint' = TRUE
  /\ running' = IF pc = "setup" THEN running ELSE FALSE
  /\ pc' = IF pc = "blocked" THEN "test" ELSE pc
  /\ UNCHANGED <<readers, epoll, open, gen, batch, cur, late>>

-----------------------------------------------------------------------------
(***************************************************************************)
(* What a callback does.                                                   *)
(***************************************************************************)
CbRead ==                                       \* reads some or all of the input
  /\ pc = "callback"
  /\ ready' \in {ready, ready \ {cur}}
  /\ err' = err \ {cur}
  /\ UNCHANGED loopVars

add_reader_Emplace(fd) ==
  readers' = [readers EXCEPT ![fd] = IF @ = 0 THEN gen'[fd] ELSE @]

add_reader(fd) ==                               \* readers_[fd] = std::move(cb)
  readers' = [readers EXCEPT ![fd] = gen'[fd]]

(***************************************************************************)
(* accept() returns fd and the callback calls add_reader for it.  When     *)
(* epoll_ctl fails, add_reader throws through run() to the catch in main:  *)
(* the process ends with the entry already stored.                         *)
(***************************************************************************)
accept(fd) ==
  /\ fd \in Fds \ open
  /\ open' = open \cup {fd}
  /\ gen' = [gen EXCEPT ![fd] = @ + 1]
  /\ add_reader(fd)
  /\ \/ epoll' = epoll \cup {fd} /\ pc' = pc
     \/ epoll' = epoll /\ pc' = "fatal"
  /\ UNCHANGED <<running, batch, cur, sigint, late>>

CbAccept_NoCheck(fd) ==         \* add_reader(-1): the entry is stored, epoll_ctl gives EBADF
  /\ pc = "callback" /\ cur \in StaticFds /\ pc' = "fatal"
  /\ readers' = [f \in Fds \cup {NoFd} |-> IF f = NoFd THEN 1 ELSE readers[f]]
  /\ UNCHANGED <<running, epoll, open, gen, batch, cur, sigint, late, ready, err>>

CbAccept(fd) ==
  /\ pc = "callback" /\ cur \in StaticFds
  /\ gen[fd] < MaxGen
  /\ accept(fd)
  /\ ready' \in {r \cup R : r \in {ready, ready \ {cur}}, R \in SUBSET {fd}}
  /\ err' = err

close_Remove(fd) ==
  /\ open' = open \ {fd} /\ epoll' = epoll \ {fd}
  /\ readers' = [readers EXCEPT ![fd] = 0]
  /\ UNCHANGED <<pc, running, gen, batch, cur, sigint, late>>

(***************************************************************************)
(* close(): the kernel drops the descriptor from the interest list, the    *)
(* entry of readers_ stays.                                                *)
(***************************************************************************)
close(fd) ==
  /\ open' = open \ {fd} /\ epoll' = epoll \ {fd}
  /\ UNCHANGED <<pc, running, readers, gen, batch, cur, sigint, late>>

CbClose_Other ==
  /\ pc = "callback" /\ cur \notin StaticFds
  /\ \E fd \in open \ StaticFds :
       close(fd) /\ ready' = ready \ {fd} /\ err' = err \ {fd}

CbClose ==
  /\ pc = "callback" /\ cur \in open \ StaticFds
  /\ close(cur)
  /\ ready' = ready \ {cur} /\ err' = err \ {cur}

CbRemove(fd) ==                                 \* remove() of another descriptor
  /\ pc = "callback" /\ fd \in open \ (StaticFds \cup {cur})
  /\ readers' = [readers EXCEPT ![fd] = 0]
  /\ epoll' = epoll \ {fd}
  /\ UNCHANGED <<pc, running, open, gen, batch, cur, sigint, late, ready, err>>

CbKilled ==                                     \* SIGPIPE out of send()
  /\ pc = "callback" /\ pc' = "killed"
  /\ UNCHANGED <<running, readers, epoll, open, gen, batch, cur, sigint, late>>

CbReturn ==
  /\ pc = "callback" /\ pc' = "batch" /\ cur' = NoFd
  /\ UNCHANGED <<running, readers, epoll, open, gen, batch, sigint, late>>

-----------------------------------------------------------------------------
(***************************************************************************)
(* The kernel: input arrives; a static socket reports an error condition   *)
(* without input (a CAN interface that goes down raises EPOLLERR alone).   *)
(***************************************************************************)
Arrive(fd) ==
  /\ fd \in open \ ready /\ ~Terminated
  /\ ready' = ready \cup {fd}
  /\ UNCHANGED <<loopVars, err>>

Fault(fd) ==
  /\ fd \in StaticFds \ err /\ ~Terminated
  /\ err' = err \cup {fd}
  /\ UNCHANGED <<loopVars, ready>>

Quiet == UNCHANGED <<ready, err>>               \* no change of readiness

Loop ==
  \/ (SetGLoop \/ Run \/ Test \/ Block \/ EndBatch) /\ Quiet
  \/ \E B \in SUBSET Reportable : EpollWait(B) /\ Quiet
  \/ \E e \in batch : Dispatch(e) /\ Quiet
Callback ==
  \/ CbRead \/ CbClose
  \/ (CbKilled \/ CbReturn) /\ Quiet
  \/ \E fd \in Fds : CbAccept(fd) \/ CbRemove(fd)
Kernel == \E fd \in Fds : Arrive(fd) \/ Fault(fd)

Next == Loop \/ Callback \/ (Sigint /\ Quiet) \/ Kernel

(***************************************************************************)
(* The thread is scheduled and callbacks return.  The kernel's ready list  *)
(* is a queue on which a level-triggered descriptor is put back at the     *)
(* tail, so a descriptor that stays ready is reported again and again      *)
(* even when more than MAX_EVENTS are ready.                               *)
(***************************************************************************)
Fairness ==
  /\ WF_vars(Loop) /\ WF_vars(CbReturn /\ Quiet)
  /\ \A fd \in Fds : SF_vars(\E B \in SUBSET Reportable : fd \in B /\ EpollWait(B) /\ Quiet)

Spec == Init /\ [][Next]_vars
FairSpec == Spec /\ Fairness

-----------------------------------------------------------------------------
(***************************************************************************)
(* Types of the loop's members and of the kernel's state.  readers_ has    *)
(* entries for descriptors only, and each is the callback of an            *)
(* incarnation that was opened: accept() failing never reaches add_reader, *)
(* which stores the entry before it asks epoll_ctl (event_loop.hpp).       *)
(***************************************************************************)
TypeOK ==
  /\ pc \in Locations /\ running \in BOOLEAN /\ sigint \in BOOLEAN /\ late \in Nat
  /\ gen \in [Fds -> Nat] /\ readers \in [Fds -> Nat]
  /\ \A fd \in Fds : readers[fd] <= gen[fd]
  /\ open \subseteq Fds /\ epoll \subseteq Fds /\ ready \subseteq Fds /\ err \subseteq Fds
  /\ batch \subseteq Events
  /\ cur \in Fds \cup {NoFd}

(***************************************************************************)
(* Descriptor reuse inside one batch: an event of events[] that is still   *)
(* to be handled is about the incarnation of its descriptor that was ready *)
(* when epoll_wait returned, and what readers_ holds for it is that        *)
(* incarnation's callback or nothing (run(), the for loop).                *)
(***************************************************************************)
NoStaleDispatch ==
  \A e \in batch :
    e.fd \in open /\ gen[e.fd] = e.gen /\ readers[e.fd] \in {0, e.gen}

(***************************************************************************)
(* The std::function being executed lives in readers_: it is neither       *)
(* erased nor overwritten while it runs, even when the callback closes its *)
(* own descriptor (readers_[fd]() in run()).                               *)
(***************************************************************************)
CallbackAlive == pc = "callback" => cur \in Fds /\ readers[cur] # 0 /\ readers[cur] = gen[cur]

(***************************************************************************)
(* A descriptor in the epoll set is open and its stored callback was       *)
(* registered for this incarnation, although close() leaves entries behind *)
(* in readers_ (add_reader).                                               *)
(***************************************************************************)
RegistrationCurrent == \A fd \in epoll : fd \in open /\ readers[fd] = gen[fd]

(***************************************************************************)
(* Once stop() has cleared running_, at most one more epoll_wait returns   *)
(* events before run() leaves its loop (run(), stop()).                    *)
(***************************************************************************)
StopTakesEffect == late <= 1

(***************************************************************************)
(* No starvation: the callback of a descriptor with input eventually runs, *)
(* however many descriptors are ready and whatever events are skipped,     *)
(* unless the input is gone, the reader is removed or the process ends.    *)
(***************************************************************************)
EveryReadyServed ==
  \A fd \in Fds :
    (fd \in ready \cap epoll) ~>
      (cur = fd \/ fd \notin ready \cap epoll \/ Terminated)

(***************************************************************************)
(* What the handler's message "Shutting down..." says (main.cpp:27): once  *)
(* stop() has been called on the running loop, the process leaves run().   *)
(***************************************************************************)
StopEndsRun == (~running /\ pc \notin {"setup", "armed"}) ~> Terminated
=============================================================================
