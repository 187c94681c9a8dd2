------------------------------ MODULE PollLooper ------------------------------
(***************************************************************************)
(* What the poll loopers on epoll and kqueue have in common                *)
(* (src/src/pollasync.h).  The looper itself keeps nothing: who waits for  *)
(* what is in the kernel, in entries that hold the address of a poll_ctx.  *)
(* PollEpoll and PollKqueue say how each uses its kernel, PollAsync has    *)
(* the operations, PollUsers, IoAsyncPoll and CurlAsync the programs that  *)
(* call them.                                                              *)
(***************************************************************************)
EXTENDS Integers, Sequences, FiniteSets, Functions

CONSTANTS Ctxs,       \* poll_ctx structures
          Fds,        \* descriptors
          FdOf,       \* the descriptor a poll_ctx is used for
          Conditions, \* the conditions of each descriptor that occur
          MaxEvents,  \* the length of the array given to wait_events
          Backends,   \* the kernels that are looked at
          NULL        \* no callback, nobody

ASSUME FdOfAssumption == FdOf \in [Ctxs -> Fds]
ASSUME MaxEventsAssumption == MaxEvents \in Nat \ {0}
ASSUME ConditionsAssumption == Conditions \in [Fds -> SUBSET {"in", "out", "err", "hup"}]
ASSUME NullAssumption == NULL \notin Ctxs
ASSUME BackendsAssumption == Backends \subseteq {"epoll", "kqueue"}

VARIABLES backend,  \* which kernel the program runs on
          cond,     \* kernel: the conditions a descriptor is in
          interest, \* kernel: the entries of a descriptor
          pctx,     \* the poll_ctx structures
          batch,    \* the results of the wait that are not processed yet
          calling   \* the poll_ctx whose callback runs, or NULL

pollvars == <<backend, cond, interest, pctx, batch, calling>>

Idle == batch = << >> /\ calling = NULL  \* outside of process_events

(* once: the kernel itself drops the entry when it reports it.             *)
Entries == [ctx : Ctxs, events : SUBSET {"in", "out"}, once : BOOLEAN]

PollInit ==
  /\ backend \in Backends
  /\ cond \in { k \in [Fds -> SUBSET UNION Range(Conditions)] : \A f \in Fds : k[f] \subseteq Conditions[f] }
  /\ interest = [f \in Fds |-> {}]
  /\ pctx = [c \in Ctxs |-> [once |-> FALSE, cb |-> NULL, udata |-> NULL, events |-> {}]]
  /\ batch = << >>
  /\ calling = NULL

PollTypeOK ==
  /\ backend \in Backends
  /\ cond \in [Fds -> SUBSET {"in", "out", "err", "hup"}]
  /\ interest \in [Fds -> SUBSET Entries]
  /\ batch \in Seq([ctx : Ctxs, events : SUBSET {"in", "out", "err", "hup"}])
  /\ Len(batch) <= MaxEvents
  /\ calling \in Ctxs \cup {NULL}
=============================================================================
