------------------------------ MODULE BufferPool ------------------------------
(***************************************************************************)
(* omxa::BufferPool (omx/buffer_pool.cpp, .h): the buffer headers of one   *)
(* port of the encoder, a free list guarded by a mutex, and a condition    *)
(* variable that threads out of buffers sleep on.                          *)
(*                                                                         *)
(* A critical section of lock_ is one step.  What happens outside it is a  *)
(* step of its own: the notify_one() after releaseBuf() unlocks, the       *)
(* notify_all() and the OMX_FreeBuffer() calls after final() unlocks.  A   *)
(* sleeping thread that is notified (or wakes spuriously) competes for the *)
(* lock again, so a thread that arrives meanwhile may take the buffer.     *)
(*                                                                         *)
(* One object after another: Create is make_shared(), final() runs in the  *)
(* destructor or when init() fails.                                        *)
(***************************************************************************)
EXTENDS Naturals, Sequences, FiniteSets, Functions

CONSTANTS Buffers,  \* the headers the port is configured for
          Threads   \* the threads that call allocBuf() and releaseBuf()

ASSUME PoolAssumption == IsFiniteSet(Buffers) /\ IsFiniteSet(Threads)

VARIABLES
    phase,  \* "gone", "init", "open", "interrupt" (ready_ cleared) or "freeing"
    ready,  \* ready_
    free,   \* free_
    live,   \* the entries of buffers_ that hold an allocated header
    out,    \* headers returned by allocBuf() and not given back
    pc      \* what each thread does in the pool

vars == <<phase, ready, free, live, out, pc>>

Asleep == {t \in Threads : pc[t] = "asleep"}
Awake == {t \in Threads : pc[t] \in {"woken", "notify"}}

(* Types, and that the object's life follows ready_.                       *)
TypeOK ==
    /\ phase \in {"gone", "init", "open", "interrupt", "freeing"}
    /\ ready = (phase = "open")
    /\ free \in Seq(Buffers)
    /\ live \subseteq Buffers
    /\ out \subseteq Buffers
    /\ pc \in [Threads -> {"idle", "asleep", "woken", "notify"}]

Init ==
    /\ phase = "gone" /\ ready = FALSE
    /\ free = <<>> /\ live = {} /\ out = {}
    /\ pc = [t \in Threads |-> "idle"]

-----------------------------------------------------------------------------
(* init() *)

(* The new object; no thread still runs in the destroyed one.              *)
Create ==
    /\ phase = "gone" /\ \A t \in Threads : pc[t] = "idle"
    /\ phase' = "init"
    /\ free' = <<>> /\ out' = {}
    /\ UNCHANGED <<ready, live, pc>>

(* MUTANT: the header is pushed before the error code is looked at.        *)
AllocateBufferUnchecked(b) ==
    /\ phase = "init" /\ b \notin live
    /\ free' = Append(free, "NULL")
    /\ UNCHANGED <<phase, ready, live, out, pc>>

(* One iteration of the loop that fills buffers_; when OMX_AllocateBuffer  *)
(* fails instead, FinalBegin follows.                                      *)
AllocateBuffer(b) ==
    /\ phase = "init" /\ b \notin live
    /\ live' = live \union {b}
    /\ free' = Append(free, b)
    /\ UNCHANGED <<phase, ready, out, pc>>

InitDone ==
    /\ phase = "init" /\ live = Buffers
    /\ ready' = TRUE
    /\ phase' = "open"
    /\ UNCHANGED <<free, live, out, pc>>

-----------------------------------------------------------------------------
(* allocBuf() *)

(* MUTANT: the wait predicate forgets ready_.                              *)
WaitOverUnlessReady == free # <<>>

(* The predicate of cv_.wait().                                            *)
WaitOver == free # <<>> \/ ~ready

(* MUTANT: "if (free_.empty())" in place of the ready_ test.               *)
InterruptedIfEmpty == free = <<>>

(* "i.e interrupted": allocBuf() returns NULL.                             *)
Interrupted == ~ready

(* MUTANT: front() without pop_front().                                    *)
TakeFrontPeek(t) ==
    /\ out' = out \union {Head(free)}
    /\ pc' = [pc EXCEPT ![t] = "idle"]
    /\ UNCHANGED free

TakeFront(t) ==
    /\ out' = out \union {Head(free)}
    /\ free' = Tail(free)
    /\ pc' = [pc EXCEPT ![t] = "idle"]

Take(t) ==
    /\ WaitOver /\ ~Interrupted
    /\ TakeFront(t)
    /\ UNCHANGED <<phase, ready, live>>

TakeNothing(t) ==
    /\ WaitOver /\ Interrupted
    /\ pc' = [pc EXCEPT ![t] = "idle"]
    /\ UNCHANGED <<phase, ready, free, live, out>>

Sleep(t) ==
    /\ ~WaitOver
    /\ pc' = [pc EXCEPT ![t] = "asleep"]
    /\ UNCHANGED <<phase, ready, free, live, out>>

(* The thread has lock_: it takes a buffer, gives up, or waits.            *)
Attempt(t) == Take(t) \/ TakeNothing(t) \/ Sleep(t)

AllocBuf(t) == phase \notin {"gone", "init"} /\ pc[t] = "idle" /\ Attempt(t)

(* cv_.wait() returns a thread with no notification (C++11 30.5.1).        *)
WakeSpuriously(t) ==
    /\ pc[t] = "asleep"
    /\ pc' = [pc EXCEPT ![t] = "woken"]
    /\ UNCHANGED <<phase, ready, free, live, out>>

Resume(t) == pc[t] = "woken" /\ Attempt(t)

-----------------------------------------------------------------------------
(* releaseBuf() *)

(* MUTANT: notify only a pool that was empty ("it is enough to signal the  *)
(* transition").                                                           *)
PcAfterPushIfEmpty(t) == [pc EXCEPT ![t] = IF free = <<>> THEN "notify" ELSE "idle"]

PcAfterPush(t) == [pc EXCEPT ![t] = "notify"]

(* Whatever header it is given: that it is one of the pool's and is out is *)
(* the callers' discipline (Step).                                         *)
ReleaseBuf(t, b) ==
    /\ phase \notin {"gone", "init"}
    /\ pc[t] = "idle"
    /\ out' = out \ {b}
    /\ free' = Append(free, b)
    /\ pc' = PcAfterPush(t)
    /\ UNCHANGED <<phase, ready, live>>

(* cv_.notify_one(), after the unlock: some sleeper, if there is one.      *)
NotifyOne(t) ==
    /\ pc[t] = "notify"
    /\ \/ /\ Asleep = {}
          /\ pc' = [pc EXCEPT ![t] = "idle"]
       \/ \E s \in Asleep : pc' = [pc EXCEPT ![t] = "idle", ![s] = "woken"]
    /\ UNCHANGED <<phase, ready, free, live, out>>

-----------------------------------------------------------------------------
(* final() *)

(* Under lock_; from the destructor, or on the error path of init().       *)
FinalBegin ==
    /\ phase = "open" \/ (phase = "init" /\ live # Buffers)
    /\ ready' = FALSE
    /\ phase' = "interrupt"
    /\ UNCHANGED <<free, live, out, pc>>

(* cv_.notify_all().                                                       *)
FinalNotify ==
    /\ phase = "interrupt"
    /\ pc' = [t \in Threads |-> IF pc[t] = "asleep" THEN "woken" ELSE pc[t]]
    /\ phase' = "freeing"
    /\ UNCHANGED <<ready, free, live, out>>

(* OMX_FreeBuffer on one entry of buffers_; free_ keeps its pointer.       *)
FinalFree(b) ==
    /\ phase = "freeing" /\ b \in live
    /\ live' = live \ {b}
    /\ UNCHANGED <<phase, ready, free, out, pc>>

FinalDone ==
    /\ phase = "freeing" /\ live = {}
    /\ phase' = "gone"
    /\ UNCHANGED <<ready, free, live, out, pc>>

-----------------------------------------------------------------------------
Final == FinalBegin \/ FinalNotify \/ FinalDone \/ \E b \in Buffers : FinalFree(b)

(* Threads give back what they took, once, and while it exists.            *)
Step(t) ==
    \/ AllocBuf(t) \/ WakeSpuriously(t) \/ Resume(t) \/ NotifyOne(t)
    \/ \E b \in out \intersect live : ReleaseBuf(t, b)

Next ==
    \/ Create \/ InitDone \/ Final
    \/ \E b \in Buffers : AllocateBuffer(b)
    \/ \E t \in Threads : Step(t)

Spec == Init /\ [][Next]_vars

(* A destructor that began runs to its end, a woken thread gets the lock,  *)
(* a thread past the unlock in releaseBuf() reaches notify_one().  Nothing *)
(* is assumed of callers: no thread need ever give a buffer back.          *)
Fairness ==
    /\ WF_vars(FinalNotify \/ FinalDone \/ \E b \in Buffers : FinalFree(b))
    /\ \A t \in Threads : WF_vars(Resume(t)) /\ WF_vars(NotifyOne(t))

FairSpec == Spec /\ Fairness

-----------------------------------------------------------------------------
(* Every header of an open pool is either in free_, once, or with exactly  *)
(* one caller: none is lost, duplicated or handed out twice, whatever the  *)
(* interleaving of allocBuf() and releaseBuf() (buffer_pool.h:51 "Offers   *)
(* MT-safe allocation of a buffer out of the pool").                       *)
Conservation ==
    /\ IsInjective(free)
    /\ Range(free) \intersect out = {}
    /\ phase = "open" => live = Buffers /\ Range(free) \union out = Buffers

(* No lost wakeup: while threads sleep in allocBuf(), every buffer in the  *)
(* free list has a thread on its way that will take it or wake a sleeper.  *)
(* It is what the notify_one() of releaseBuf(), issued after the unlock,   *)
(* has to guarantee.                                                       *)
NoLostWakeup ==
    ready /\ Asleep # {} => Len(free) <= Cardinality(Awake)

(* final() interrupts waiting threads (buffer_pool.cpp:78): a thread that  *)
(* sleeps in allocBuf() when ready_ is cleared comes back from it.         *)
InterruptWakesAll ==
    \A t \in Threads :
        (phase = "interrupt" /\ pc[t] = "asleep") ~> (pc[t] = "idle")

(* The pool hands out only headers that exist and that nobody holds, only  *)
(* while it is open, and frees headers only once it is closed - although   *)
(* free_ keeps pointers to headers that final() has freed.                 *)
Abstract == INSTANCE ResourcePool WITH
    Resources <- Buffers,
    owned <- live,
    held <- out,
    status <- CASE phase = "init" -> "building"
                [] phase = "open" -> "serving"
                [] OTHER -> "closed"

Refines == Abstract!Spec
=============================================================================
