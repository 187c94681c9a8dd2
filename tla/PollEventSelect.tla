---------------------------- MODULE PollEventSelect ----------------------------
(***************************************************************************)
(* The poll looper of src/src/pollasync_eventselect.c: a table of event    *)
(* objects and poll_ctx structures.  A thread of the host waits for the    *)
(* objects and hands the index it got to the main thread, which processes  *)
(* it, calls back and closes the holes of the table, while the other one   *)
(* stays blocked.  Users register and unregister on the main thread.       *)
(*                                                                         *)
(* Winsock notes the network events of a socket and signals the object the *)
(* socket was last selected with; what it notes depends on the network.    *)
(* Its calls may fail, and one that fails changes nothing.                 *)
(***************************************************************************)
EXTENDS Integers, FiniteSets

CONSTANTS Ctxs,       \* poll_ctx structures
          Fds,        \* sockets
          FdOf,       \* the socket a poll_ctx is used for
          Data,       \* the callbacks, with the user data, that users give
          AskedSets,  \* the sets of events that users ask for
          MaxEvents,  \* MAX_POLL_EVENTS: the length of the table
          Refusable,  \* bound: the sockets for which calls of Winsock may fail
          Brings,     \* bound: the events that the network brings of each socket
          KeepsData,  \* does a user who registers a context again keep its callback?
          NULL        \* nothing in a place of the table, nobody

ASSUME FdOfAssumption == FdOf \in [Ctxs -> Fds]
ASSUME MaxEventsAssumption == MaxEvents \in Nat \ {0, 1}
ASSUME AskedAssumption == AskedSets \subseteq SUBSET {"in", "out"}
ASSUME KeepsAssumption == KeepsData \in BOOLEAN
ASSUME NullAssumption ==
  NULL \notin Ctxs /\ NULL \notin Data /\ NULL \notin Nat /\ NULL \notin AskedSets

VARIABLES pollcount,  \* how many places of the table are in use, holes included
          pollevents, \* the event objects, numbered as they are created
          pollctxs,   \* the contexts
          created,    \* how many event objects there are
          pctx,       \* the fields of the poll_ctx structures that outlast a callback
          called,     \* the context whose callback runs, and its events, or NULL
          selected,   \* Winsock: the object and the mask of a socket, or NULL
          noted,      \* Winsock: the network events not asked about yet
          signaled,   \* the objects that are signaled
          waiting,    \* how many objects the waiting thread waits for, or 0
          hand,       \* the index it got, on its way to the main thread, or NULL
          pc,         \* where the main thread is: users, a callback, closing holes
          l, r,       \* the local variables of poll_looper_clear_null_ctx
          asked,      \* history: what a user waits for with a context, or NULL
          given,      \* history: the callback and data given last with a context
          refused,    \* history: the contexts that are in the table although
                      \* Winsock has refused their registration
          unread      \* history: those whose events it has refused to tell, since
                      \* they were told last

table == <<pollcount, pollevents, pollctxs, created>>
winsock == <<selected, noted>>
thread == <<waiting, hand>>
loop == <<pc, l, r>>
users == <<asked, given, refused, unread>>
vars == <<table, pctx, winsock, signaled, thread, loop, called, users>>

Places == 0 .. MaxEvents - 1

(* poll_looper_create makes the object that wakes the waiting thread.      *)
Init ==
  /\ pollcount = 1
  /\ pollevents = [i \in Places |-> IF i = 0 THEN 0 ELSE NULL]
  /\ pollctxs = [i \in Places |-> NULL]
  /\ created = 1
  /\ pctx = [c \in Ctxs |-> [once |-> FALSE, udata |-> NULL]]
  /\ selected = [f \in Fds |-> NULL]
  /\ noted = [f \in Fds |-> {}]
  /\ signaled = {}
  /\ waiting = 0
  /\ hand = NULL
  /\ pc = "users" /\ l = 1 /\ r = 0
  /\ called = NULL
  /\ asked = [c \in Ctxs |-> NULL]
  /\ given = [c \in Ctxs |-> NULL]
  /\ refused = {} /\ unread = {}

-----------------------------------------------------------------------------
(* WSAEventSelect forgets what was noted, notes what is the case already,  *)
(* and signals the object if there is something.                           *)
WSAEventSelect(f, object, mask, also) ==
  \E now \in SUBSET (mask \cap Brings[f]) :
    /\ selected' = [selected EXCEPT ![f] = [event |-> object, mask |-> mask]]
    /\ noted' = [noted EXCEPT ![f] = now]
    /\ signaled' = signaled \cup (IF now = {} THEN {} ELSE {object}) \cup also

Mask(evs) == evs \cup {"close"}

-----------------------------------------------------------------------------
(* poll_register and poll_unregister.                                      *)

UsersRun == pc \in {"users", "call"}

PlacesOf(f) == { i \in 0 .. pollcount - 1 : pollctxs[i] # NULL /\ FdOf[pollctxs[i]] = f }

\* BUG: the waiting thread is not woken to wait for the new object
WakeForgotten == {}
Wake == {pollevents[0]}

Sharing(c) == { d \in Ctxs : FdOf[d] = FdOf[c] }

(* A user who registers a socket takes it over from the others; one who is *)
(* told of an error does not wait, either.                                 *)
Asks(c, evs) ==
  /\ asked' = [d \in Ctxs |-> IF d = c THEN evs ELSE IF d \in Sharing(c) THEN NULL ELSE asked[d]]
  /\ refused' = (refused \ Sharing(c)) \cup (IF evs = NULL THEN {c} ELSE {})
  /\ unread' = unread \ Sharing(c)

(* The context is in the table by now; if Winsock refuses to select its    *)
(* socket it stays there, and the waiting thread is not woken.             *)
Accepted(c, object, evs) ==
  /\ WSAEventSelect(FdOf[c], object, Mask(evs), Wake)
  /\ Asks(c, evs)
Refused(c) ==
  /\ FdOf[c] \in Refusable
  /\ UNCHANGED <<winsock, signaled>>
  /\ Asks(c, NULL)
Select(c, object, evs) == Accepted(c, object, evs) \/ Refused(c)

(* The socket is in the table: callback and data of a context that stands  *)
(* there already stay as they are, and no field is reset.                  *)
RegisterAgain(c, once, evs, u) ==
  \E i \in PlacesOf(FdOf[c]) :
    /\ KeepsData /\ pollctxs[i] = c => u = pctx[c].udata
    /\ pollctxs' = [pollctxs EXCEPT ![i] = c]
    /\ pctx' = [pctx EXCEPT ![c].once = once,
                            ![c].udata = IF pollctxs[i] = c THEN @ ELSE u]
    /\ Select(c, pollevents[i], evs)
    /\ UNCHANGED <<pollcount, pollevents, created>>

(* The next place, with the object that an earlier context has left there. *)
FreePlace(c) == PlacesOf(FdOf[c]) = {} /\ pollcount < MaxEvents

RegisterNew(c, once, evs, u) ==
  LET fresh == pollevents[pollcount] = NULL
      object == IF fresh THEN created ELSE pollevents[pollcount]
  IN  /\ FreePlace(c)
      /\ pctx' = [pctx EXCEPT ![c] = [once |-> once, udata |-> u]]
      /\ created' = IF fresh THEN created + 1 ELSE created
      /\ pollevents' = [pollevents EXCEPT ![pollcount] = object]
      /\ pollctxs' = [pollctxs EXCEPT ![pollcount] = c]
      /\ pollcount' = pollcount + 1
      /\ Select(c, object, evs)

(* CreateEvent fails: the fields of the context are overwritten by then.   *)
RegisterFails(c, u) ==
  /\ FreePlace(c)
  /\ pollevents[pollcount] = NULL
  /\ pctx' = [pctx EXCEPT ![c].udata = u]
  /\ UNCHANGED <<table, winsock, signaled, asked, refused, unread>>

poll_register(c, once, evs, u) ==
  /\ UsersRun
  /\ \/ RegisterAgain(c, once, evs, u)
     \/ RegisterNew(c, once, evs, u)
     \/ RegisterFails(c, u)
  /\ given' = [given EXCEPT ![c] = u]
  /\ UNCHANGED <<thread, loop, called>>

(* Whoever holds the socket of the context is removed, and nobody is told. *)
(* The place becomes a hole, and the object stays in it.                   *)
poll_unregister(c) ==
  /\ UsersRun
  /\ pctx[c].udata # NULL
  /\ \E i \in PlacesOf(FdOf[c]) : pollctxs' = [pollctxs EXCEPT ![i] = NULL]
  /\ \/ /\ selected' = [selected EXCEPT ![FdOf[c]] = NULL]
        /\ noted' = [noted EXCEPT ![FdOf[c]] = {}]
     \/ FdOf[c] \in Refusable /\ UNCHANGED winsock
  /\ asked' = [d \in Ctxs |-> IF d \in Sharing(c) THEN NULL ELSE asked[d]]
  /\ refused' = refused \ Sharing(c)
  /\ unread' = unread \ Sharing(c)
  /\ UNCHANGED <<pollcount, pollevents, created, pctx, signaled, thread, loop, called, given>>

poll_looper_wake ==
  /\ UsersRun
  /\ signaled' = signaled \cup {pollevents[0]}
  /\ UNCHANGED <<table, pctx, winsock, thread, loop, called, users>>

-----------------------------------------------------------------------------
(* The thread that waits: it sees the table as it is when the wait begins, *)
(* and gets the first object that is signaled, which resets it.            *)

WaitBegins ==
  /\ pc = "users"
  /\ waiting = 0 /\ hand = NULL
  /\ waiting' = pollcount
  /\ UNCHANGED <<table, pctx, winsock, signaled, hand, loop, called, users>>

poll_looper_wait_events ==
  /\ waiting > 0
  /\ \E i \in 0 .. waiting - 1 :
        /\ pollevents[i] \in signaled
        /\ \A j \in 0 .. i - 1 : pollevents[j] \notin signaled
        /\ hand' = i
        /\ signaled' = signaled \ {pollevents[i]}
  /\ waiting' = 0
  /\ UNCHANGED <<table, pctx, winsock, loop, called, users>>

-----------------------------------------------------------------------------
(* poll_looper_process_events on the main thread.                          *)

CloseHoles == pc' = "holes" /\ called' = NULL /\ UNCHANGED <<l, r>>

ProcessNobody ==
  /\ pc = "users" /\ hand # NULL
  /\ pollctxs[hand] = NULL
  /\ hand' = NULL
  /\ CloseHoles
  /\ UNCHANGED <<table, pctx, winsock, signaled, waiting, users>>

(* A closed socket can be read and written; an event that has failed is an *)
(* error instead.                                                          *)
PollEvents(evs, failed) ==
  ((evs \ failed) \cap {"in", "out"})
    \cup (IF "close" \in evs \ failed THEN {"in", "out"} ELSE {})
    \cup (IF evs \cap failed # {} THEN {"error"} ELSE {})

\* BUG: POLL_FLAG_ONCE is not looked at
AfterOnceKept(c) == pollctxs
AfterOnce(c) == IF pctx[c].once THEN [pollctxs EXCEPT ![hand] = NULL] ELSE pollctxs

(* The callback runs, and POLL_FLAG_ONCE has left a hole.                  *)
Call(c, evs) ==
  /\ pc' = "call" /\ UNCHANGED <<l, r>>
  /\ called' = [ctx |-> c, events |-> evs]
  /\ pollctxs' = AfterOnce(c)
  /\ asked' = IF pctx[c].once THEN [asked EXCEPT ![c] = NULL] ELSE asked
  /\ refused' = IF pctx[c].once THEN refused \ {c} ELSE refused

(* WSAEnumNetworkEvents tells what was noted, forgets it, and resets the   *)
(* object.  Without POLL_FLAG_ONCE, and with it, the socket stays selected.*)
Enumerated(c) ==
  /\ noted' = [noted EXCEPT ![FdOf[c]] = {}]
  /\ signaled' = signaled \ {pollevents[hand]}
  /\ unread' = unread \ {c}
  /\ \/ /\ noted[FdOf[c]] = {}
        /\ CloseHoles
        /\ UNCHANGED <<pollctxs, asked, refused>>
     \/ /\ noted[FdOf[c]] # {}
        /\ \E failed \in SUBSET noted[FdOf[c]] : Call(c, PollEvents(noted[FdOf[c]], failed))

(* It fails: an error is told, also if nothing was noted.                  *)
NotEnumerated(c) ==
  /\ FdOf[c] \in Refusable
  /\ Call(c, {"error"})
  /\ unread' = IF pctx[c].once THEN unread \ {c} ELSE unread \cup {c}
  /\ UNCHANGED <<noted, signaled>>

ProcessEvent ==
  /\ pc = "users" /\ hand # NULL
  /\ pollctxs[hand] # NULL
  /\ Enumerated(pollctxs[hand]) \/ NotEnumerated(pollctxs[hand])
  /\ hand' = NULL
  /\ UNCHANGED <<pollcount, pollevents, created, pctx, selected, waiting, given>>

CallbackReturns ==
  /\ pc = "call"
  /\ CloseHoles
  /\ UNCHANGED <<table, pctx, winsock, signaled, thread, users>>

-----------------------------------------------------------------------------
(* poll_looper_clear_null_ctx: contexts move to the front, r takes the     *)
(* next one and l is the place for it, and the objects change places.      *)

\* BUG: the object is copied to its new place, not exchanged
EventsOverwritten == [pollevents EXCEPT ![l] = pollevents[r]]
\* BUG: the context moves without its object
EventsLeftBehind == pollevents
EventsMoved == [pollevents EXCEPT ![r] = pollevents[l], ![l] = pollevents[r]]

ClearStep ==
  /\ pc = "holes" /\ r < pollcount
  /\ IF pollctxs[r] = NULL
       THEN UNCHANGED <<pollctxs, pollevents, l>>
       ELSE /\ pollctxs' = [pollctxs EXCEPT ![l] = pollctxs[r]]
            /\ pollevents' = IF r = l THEN pollevents ELSE EventsMoved
            /\ l' = l + 1
  /\ r' = r + 1
  /\ UNCHANGED <<pollcount, created, pctx, winsock, signaled, thread, pc, called, users>>

ClearEnd ==
  /\ pc = "holes" /\ r >= pollcount
  /\ pollctxs' = [i \in Places |-> IF i \in l .. pollcount - 1 THEN NULL ELSE pollctxs[i]]
  /\ pollcount' = l
  /\ pc' = "users" /\ l' = 1 /\ r' = 0
  /\ UNCHANGED <<pollevents, created, pctx, winsock, signaled, thread, called, users>>

-----------------------------------------------------------------------------
(* The network.                                                            *)
NetworkEvent(f) ==
  /\ selected[f] # NULL
  /\ \E e \in selected[f].mask \cap Brings[f] : noted' = [noted EXCEPT ![f] = @ \cup {e}]
  /\ signaled' = signaled \cup {selected[f].event}
  /\ UNCHANGED <<table, pctx, selected, thread, loop, called, users>>

Process == ProcessNobody \/ ProcessEvent \/ CallbackReturns \/ ClearStep \/ ClearEnd

Next == \/ \E c \in Ctxs, once \in BOOLEAN, evs \in AskedSets, u \in Data :
              poll_register(c, once, evs, u)
        \/ \E c \in Ctxs : poll_unregister(c)
        \/ poll_looper_wake
        \/ WaitBegins
        \/ poll_looper_wait_events
        \/ Process
        \/ \E f \in Fds : NetworkEvent(f)

Spec == Init /\ [][Next]_vars

-----------------------------------------------------------------------------
TypeOK ==
  /\ pollcount \in 1 .. MaxEvents
  /\ created \in 1 .. MaxEvents
  /\ pollevents \in [Places -> 0 .. MaxEvents - 1 \cup {NULL}]
  /\ pollctxs \in [Places -> Ctxs \cup {NULL}]
  /\ pctx \in [Ctxs -> [once : BOOLEAN, udata : Data \cup {NULL}]]
  /\ called = NULL \/ called \in [ctx : Ctxs, events : SUBSET {"in", "out", "error"}]
  /\ \A f \in Fds : \/ selected[f] = NULL
                    \/ selected[f] \in [event : 1 .. MaxEvents - 1,
                                        mask : SUBSET {"in", "out", "close"}]
  /\ noted \in [Fds -> SUBSET {"in", "out", "close"}]
  /\ signaled \subseteq 0 .. MaxEvents - 1
  /\ waiting \in 0 .. MaxEvents
  /\ hand \in Places \cup {NULL}
  /\ pc \in {"users", "call", "holes"}
  /\ l \in 1 .. MaxEvents /\ r \in 0 .. MaxEvents
  /\ refused \subseteq Ctxs /\ unread \subseteq Ctxs

(* The places whose context counts; while holes are closed, those between  *)
(* l and r have been dealt with.                                           *)
InUse == { i \in 1 .. pollcount - 1 : pollctxs[i] # NULL /\ (pc = "holes" => i < l \/ i >= r) }

(* poll_looper_destroy closes the objects from the first to the first NULL *)
(* (lines 75-80): these are all there are, each once, and every place in   *)
(* use has one.                                                            *)
ObjectsAreKept ==
  /\ \A i \in Places : pollevents[i] # NULL <=> i < created
  /\ \A i, j \in 0 .. created - 1 : pollevents[i] = pollevents[j] => i = j
  /\ pollcount <= created
  /\ pollevents[0] = 0

(* A context that a user waits with is in the table, and its socket, which *)
(* is there once, is selected with the object of its place and for what    *)
(* was asked, also while places are exchanged.  In the table besides are   *)
(* only contexts whose registration Winsock has refused (line 244).        *)
SelectedWhereItStands ==
  /\ \A c \in Ctxs : asked[c] # NULL => \E i \in InUse : pollctxs[i] = c
  /\ \A i, j \in InUse : FdOf[pollctxs[i]] = FdOf[pollctxs[j]] => i = j
  /\ \A i \in InUse :
        LET c == pollctxs[i]
        IN  IF asked[c] = NULL THEN c \in refused
            ELSE selected[FdOf[c]] = [event |-> pollevents[i], mask |-> Mask(asked[c])]

(* No wake-up is lost of a socket whose registration was accepted: where   *)
(* something is noted, its object is signaled or its index is on the way,  *)
(* unless Winsock has refused to tell the events; and a thread that waits  *)
(* for a part of the table only is woken to wait again.                    *)
NoLostWake ==
  /\ \A i \in InUse :
        pollctxs[i] \notin refused \cup unread /\ noted[FdOf[pollctxs[i]]] # {}
          => pollevents[i] \in signaled \/ hand = i
  /\ waiting > 0 =>
       \A i \in InUse :
          pollctxs[i] \notin refused /\ i >= waiting /\ pollevents[i] \in signaled
            => pollevents[0] \in signaled

(* A callback runs for a context that waits, and for what it waits for or  *)
(* an error (a closed socket can be read and written), or for one whose    *)
(* registration was refused; with the callback and the data given last.    *)
CalledAsAsked ==
  [][called' # NULL /\ called' # called =>
       LET c == called'.ctx
       IN  /\ asked[c] # NULL \/ c \in refused
           /\ asked[c] # NULL => \/ called'.events \subseteq asked[c] \cup {"error"}
                                 \/ "close" \in noted[FdOf[c]]
           /\ pctx[c].udata = given[c]]_vars
=============================================================================
