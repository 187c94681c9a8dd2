------------------------------ MODULE PollAsync ------------------------------
(***************************************************************************)
(* The operations of a poll looper, on whichever kernel.                   *)
(***************************************************************************)
EXTENDS PollEpoll, PollKqueue

poll_register(c, once, evs, cb, udata) ==
  /\ pctx' = [pctx EXCEPT ![c] = [once |-> once, cb |-> cb, udata |-> udata, events |-> {}]]
  /\ interest' = [interest EXCEPT ![FdOf[c]] =
                    IF backend = "epoll" THEN EpollEntry(c, evs) ELSE KqueueEntries(c, once, evs)]

poll_unregister(c) ==
  /\ interest' \in IF backend = "epoll" THEN {EpollDelete(c)} ELSE KqueueDelete(c)
  /\ UNCHANGED pctx

-----------------------------------------------------------------------------
(* What the kernel tells of an entry: errors always.                       *)
Reported(f, e) == cond[f] \cap (e.events \cup {"err", "hup"})

Ready == UNION { {f} \X { e \in interest[f] : Reported(f, e) # {} } : f \in Fds }

(* Any of what is ready, in any order, as much as fits.                    *)
poll_looper_wait_events ==
  /\ Idle
  /\ \E n \in 1 .. MaxEvents :
        /\ n \in {MaxEvents, Cardinality(Ready)}
        /\ \E told \in Injection(1 .. n, Ready) :
           /\ batch' = [i \in 1 .. n |-> [ctx |-> told[i][2].ctx,
                                          events |-> Reported(told[i][1], told[i][2])]]
           /\ interest' = [f \in Fds |-> { e \in interest[f] : ~(e.once /\ <<f, e>> \in Range(told)) }]
  /\ UNCHANGED <<backend, cond, pctx, calling>>

PollEvents(evs) == IF backend = "epoll" THEN EpollEvents(evs) ELSE KqueueEvents(evs)

AfterOnce(c) == IF backend = "epoll" THEN EpollAfterOnce(c) ELSE interest

(* One turn of the loop of poll_looper_process_events, up to the callback. *)
ProcessEvent ==
  /\ calling = NULL
  /\ batch # << >>
  /\ LET c == Head(batch).ctx
     IN  /\ pctx' = [pctx EXCEPT ![c].events = PollEvents(Head(batch).events)]
         /\ interest' = AfterOnce(c)
         /\ calling' = IF pctx[c].cb = NULL THEN NULL ELSE c
  /\ batch' = Tail(batch)
  /\ UNCHANGED <<backend, cond>>

CallbackReturns ==
  /\ calling # NULL
  /\ calling' = NULL
  /\ UNCHANGED <<backend, cond, interest, pctx, batch>>

-----------------------------------------------------------------------------
(* Data comes, a peer closes, a buffer drains or fills.                    *)
ConditionChanges(f) ==
  /\ \E e \in Conditions[f] :
        cond' = [cond EXCEPT ![f] = IF e \in @ THEN @ \ {e} ELSE @ \cup {e}]
  /\ UNCHANGED <<backend, interest, pctx, batch, calling>>
=============================================================================
