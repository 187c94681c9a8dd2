------------------------------ MODULE PollUsers ------------------------------
(***************************************************************************)
(* The poll looper with any users of pollasync.h: between the turns of the *)
(* loop and in their callbacks they register and unregister, while the     *)
(* conditions of the descriptors change as they like.                      *)
(***************************************************************************)
EXTENDS PollAsync

CONSTANTS AskedSets,   \* the sets of events that users ask for
          TouchOthers  \* does a callback (un)register other contexts than its own?

ASSUME AskedAssumption == AskedSets \subseteq SUBSET {"in", "out"} /\ NULL \notin AskedSets
ASSUME TouchOthersAssumption == TouchOthers \in BOOLEAN

VARIABLE asked  \* history: what a user waits for with a poll_ctx, or NULL

usersvars == <<backend, cond, interest, pctx, batch, calling, asked>>

UsersInit == PollInit /\ asked = [c \in Ctxs |-> NULL]

(* The users run outside of the loop and in a callback.                    *)
MayTouch(c) == Idle \/ calling = c \/ (calling # NULL /\ TouchOthers)

(* A user that registers a descriptor again takes it over.                 *)
Register(c, once, evs) ==
  /\ MayTouch(c)
  /\ poll_register(c, once, evs, "user", c)
  /\ asked' = [d \in Ctxs |-> IF d = c THEN evs
                              ELSE IF FdOf[d] = FdOf[c] THEN NULL
                              ELSE asked[d]]
  /\ UNCHANGED <<backend, cond, batch, calling>>

Unregister(c) ==
  /\ MayTouch(c)
  /\ asked[c] # NULL
  /\ poll_unregister(c)
  /\ asked' = [asked EXCEPT ![c] = NULL]
  /\ UNCHANGED <<backend, cond, batch, calling>>

UsersWait == poll_looper_wait_events /\ UNCHANGED asked

UsersServe ==
  /\ ProcessEvent
  /\ LET c == Head(batch).ctx
     IN  asked' = IF pctx[c].once THEN [asked EXCEPT ![c] = NULL] ELSE asked

Return == CallbackReturns /\ UNCHANGED asked

UsersNext ==
  \/ \E c \in Ctxs, once \in BOOLEAN, evs \in AskedSets : Register(c, once, evs)
  \/ \E c \in Ctxs : Unregister(c)
  \/ UsersWait
  \/ UsersServe
  \/ Return
  \/ \E f \in Fds : ConditionChanges(f) /\ UNCHANGED asked

UsersSpec == UsersInit /\ [][UsersNext]_usersvars

-----------------------------------------------------------------------------
UsersTypeOK ==
  /\ PollTypeOK
  /\ pctx \in [Ctxs -> [once : BOOLEAN, cb : {"user", NULL}, udata : Ctxs \cup {NULL},
                        events : SUBSET {"in", "out", "error"}]]
  /\ asked \in [Ctxs -> AskedSets \cup {NULL}]

(* The kernel waits for what the users wait for: no call and no event      *)
(* still to be processed takes a registration away or leaves one behind.   *)
Agreed == \A c \in Ctxs :
  LET mine == { e \in interest[FdOf[c]] : e.ctx = c }
  IN  IF asked[c] # NULL THEN interest[FdOf[c]] = mine /\ { e.events : e \in mine } = {asked[c]}
                         ELSE mine = {}

(* pollasync.h:118, "unregister from poll looper": a callback runs only    *)
(* for a context that waits, and with the events it waits for.  An event   *)
(* that an earlier callback of the same batch has made void is delivered   *)
(* all the same (lines 86-106 of pollasync_epoll.c).                       *)
CalledAsAsked ==
  [][calling' # calling /\ calling' # NULL =>
       /\ asked[calling'] # NULL
       /\ pctx'[calling'].events \subseteq asked[calling'] \cup {"error"}]_usersvars

=============================================================================
