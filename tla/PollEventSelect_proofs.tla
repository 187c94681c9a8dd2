------------------------- MODULE PollEventSelect_proofs -------------------------
(***************************************************************************)
(* Proofs about the table of event objects, for any number of contexts and *)
(* sockets and a table of any length, at every step of the closing of its  *)
(* holes.                                                                  *)
(***************************************************************************)
EXTENDS PollEventSelect, TLAPS

-----------------------------------------------------------------------------
(* The invariant.                                                          *)
Object == 1 .. MaxEvents - 1
NetEvents == SUBSET {"in", "out", "close"}
Selection == [event : Object, mask : NetEvents]

Types ==
  /\ pollcount \in 1 .. MaxEvents /\ created \in 1 .. MaxEvents
  /\ pollevents \in [Places -> Places \cup {NULL}]
  /\ pollctxs \in [Places -> Ctxs \cup {NULL}]
  /\ pctx \in [Ctxs -> [once : BOOLEAN, udata : Data \cup {NULL}]]
  /\ called = NULL \/ called \in [ctx : Ctxs, events : SUBSET {"in", "out", "error"}]
  /\ selected \in [Fds -> Selection \cup {NULL}]
  /\ noted \in [Fds -> NetEvents]
  /\ signaled \subseteq Places
  /\ waiting \in 0 .. MaxEvents
  /\ hand \in Places \cup {NULL}
  /\ pc \in {"users", "call", "holes"}
  /\ l \in 1 .. MaxEvents /\ r \in 0 .. MaxEvents
  /\ asked \in [Ctxs -> AskedSets \cup {NULL}]
  /\ given \in [Ctxs -> Data \cup {NULL}]
  /\ refused \subseteq Ctxs /\ unread \subseteq Ctxs

(* The objects are numbered as they are created.                           *)
Objects == ObjectsAreKept /\ \A i \in 0 .. created - 1 : pollevents[i] \in 0 .. created - 1

(* The place of the object that wakes is nobody's, and what is closed      *)
(* moves to the front.                                                     *)
Closing ==
  /\ pollctxs[0] = NULL
  /\ IF pc = "holes" THEN r <= pollcount /\ (l <= r \/ (l = 1 /\ r = 0)) ELSE l = 1 /\ r = 0

(* While the thread waits, or its index is on the way, the table does not  *)
(* shrink; and where it has grown, the thread is about to be woken.        *)
Blocked ==
  /\ waiting <= pollcount
  /\ hand # NULL => hand < pollcount /\ waiting = 0
  /\ waiting > 0 \/ hand # NULL => pc = "users"

Woken == waiting > 0 =>
  \A i \in InUse : pollctxs[i] \notin refused /\ i >= waiting => pollevents[0] \in signaled

(* What Winsock has noted was asked for, and is on its way.                *)
Noted == \A i \in InUse :
  LET c == pollctxs[i]
  IN  /\ asked[c] # NULL => noted[FdOf[c]] \subseteq Mask(asked[c])
      /\ c \notin refused \cup unread /\ noted[FdOf[c]] # {} => pollevents[i] \in signaled \/ hand = i

(* A user who keeps the data of a context finds what was given last.       *)
Given == KeepsData => \A c \in Ctxs : pctx[c].udata = given[c]

Inv == /\ Types /\ Objects /\ Closing /\ Blocked /\ Woken
       /\ SelectedWhereItStands /\ Noted /\ Given

-----------------------------------------------------------------------------
(* The places in use.                                                      *)
LEMMA Used ==
  ASSUME Inv, NEW i \in InUse
  PROVE  /\ i \in 1 .. pollcount - 1 /\ i \in Places /\ i \in 0 .. created - 1
         /\ pollctxs[i] \in Ctxs /\ FdOf[pollctxs[i]] \in Fds
         /\ pollevents[i] \in Object
         /\ \A j \in 0 .. created - 1 : pollevents[j] = pollevents[i] => j = i
<1>1. i \in 1 .. pollcount - 1 /\ pollctxs[i] # NULL
  BY DEF InUse
<1>2. i \in Places /\ i \in 0 .. created - 1 /\ 0 \in 0 .. created - 1 /\ i # 0
  BY <1>1, MaxEventsAssumption DEF Inv, Types, Objects, ObjectsAreKept, Places
<1>3. pollctxs[i] \in Ctxs /\ FdOf[pollctxs[i]] \in Fds
  BY <1>1, <1>2, FdOfAssumption DEF Inv, Types
<1>4. pollevents[i] \in 0 .. created - 1 /\ pollevents[i] # 0
  BY <1>2 DEF Inv, Objects, ObjectsAreKept
<1>5. pollevents[i] \in Object
  BY <1>4, MaxEventsAssumption DEF Inv, Types, Object
<1> QED
  BY <1>1, <1>2, <1>3, <1>5 DEF Inv, Objects, ObjectsAreKept

LEMMA UsedByUsers ==
  ASSUME Inv, pc # "holes"
  PROVE  /\ InUse = { i \in 1 .. pollcount - 1 : pollctxs[i] # NULL }
         /\ \A i \in 0 .. pollcount - 1 : pollctxs[i] # NULL => i \in InUse
         /\ \A f \in Fds : PlacesOf(f) = { i \in InUse : FdOf[pollctxs[i]] = f }
<1>1. InUse = { i \in 1 .. pollcount - 1 : pollctxs[i] # NULL }
  BY DEF InUse
<1>2. pollctxs[0] = NULL /\ pollcount \in Nat
  BY MaxEventsAssumption DEF Inv, Closing, Types
<1>3. \A i \in 0 .. pollcount - 1 : pollctxs[i] # NULL => i \in InUse
  BY <1>1, <1>2
<1> QED
  BY <1>1, <1>2, <1>3 DEF PlacesOf

LEMMA MaskTyped ==
  ASSUME NEW evs \in AskedSets
  PROVE  Mask(evs) \in NetEvents /\ evs # NULL
BY AskedAssumption, NullAssumption DEF Mask, NetEvents

LEMMA InvInit ==
  ASSUME Init
  PROVE  Inv
<1> USE DEF Init
<1>1. 0 \in Places /\ MaxEvents \in Nat /\ MaxEvents > 1
  BY MaxEventsAssumption DEF Places
<1>2. InUse = {}
  BY DEF InUse
<1>3. Types
  BY <1>1 DEF Types, Places, NetEvents
<1>4. Objects
  BY <1>1, NullAssumption DEF Objects, ObjectsAreKept, Places
<1>5. Closing /\ Blocked
  BY <1>1 DEF Closing, Blocked
<1>6. SelectedWhereItStands /\ Noted /\ Woken /\ Given
  BY <1>2 DEF SelectedWhereItStands, Noted, Woken, Given
<1> QED
  BY <1>3, <1>4, <1>5, <1>6 DEF Inv

-----------------------------------------------------------------------------
(* What a user is told, and what Winsock does with the socket.             *)
LEMMA AsksSays ==
  ASSUME Inv, NEW c \in Ctxs, NEW a \in AskedSets \cup {NULL}, Asks(c, a)
  PROVE  /\ asked'[c] = a /\ (c \in refused' <=> a = NULL) /\ c \notin unread'
         /\ \A d \in Ctxs : d # c /\ FdOf[d] = FdOf[c] => asked'[d] = NULL
         /\ \A d \in Ctxs : FdOf[d] # FdOf[c] =>
              /\ asked'[d] = asked[d]
              /\ d \in refused' <=> d \in refused
              /\ d \in unread' <=> d \in unread
         /\ asked' \in [Ctxs -> AskedSets \cup {NULL}] /\ refused' \subseteq Ctxs /\ unread' \subseteq Ctxs
BY DEF Asks, Sharing, Inv, Types

LEMMA SelectSays ==
  ASSUME Inv, NEW c \in Ctxs, NEW evs \in AskedSets, NEW object \in Object, Select(c, object, evs)
  PROVE  /\ \/ /\ Asks(c, evs)
               /\ selected'[FdOf[c]] = [event |-> object, mask |-> Mask(evs)]
               /\ noted'[FdOf[c]] \subseteq Mask(evs)
               /\ noted'[FdOf[c]] # {} => object \in signaled'
               /\ pollevents[0] \in signaled'
            \/ Asks(c, NULL)
         /\ \A g \in Fds : g # FdOf[c] => selected'[g] = selected[g] /\ noted'[g] = noted[g]
         /\ signaled \subseteq signaled'
         /\ selected' \in [Fds -> Selection \cup {NULL}] /\ noted' \in [Fds -> NetEvents]
         /\ signaled' \subseteq Places
<1> DEFINE f == FdOf[c]
<1>1. f \in Fds /\ pollevents[0] \in Places
  BY FdOfAssumption, MaxEventsAssumption DEF Inv, Objects, ObjectsAreKept, Places
<1>2. CASE Accepted(c, object, evs)
  <2>1. PICK now \in SUBSET Mask(evs) :
          /\ selected' = [selected EXCEPT ![f] = [event |-> object, mask |-> Mask(evs)]]
          /\ noted' = [noted EXCEPT ![f] = now]
          /\ signaled' = signaled \cup (IF now = {} THEN {} ELSE {object}) \cup {pollevents[0]}
    BY <1>2 DEF Accepted, WSAEventSelect, Wake
  <2>2. [event |-> object, mask |-> Mask(evs)] \in Selection /\ now \in NetEvents /\ object \in Places
    BY MaskTyped, MaxEventsAssumption DEF Selection, NetEvents, Object, Places
  <2>3. selected' \in [Fds -> Selection \cup {NULL}] /\ noted' \in [Fds -> NetEvents] /\ signaled' \subseteq Places
    BY <1>1, <2>1, <2>2 DEF Inv, Types
  <2>4. /\ selected'[f] = [event |-> object, mask |-> Mask(evs)] /\ noted'[f] = now
        /\ \A g \in Fds : g # f => selected'[g] = selected[g] /\ noted'[g] = noted[g]
    BY <1>1, <2>1 DEF Inv, Types
  <2>5. signaled \subseteq signaled' /\ pollevents[0] \in signaled' /\ (now # {} => object \in signaled')
    BY <2>1
  <2> QED
    BY <1>2, <2>3, <2>4, <2>5 DEF Accepted
<1>3. CASE Refused(c)
  <2>1. Asks(c, NULL) /\ UNCHANGED <<selected, noted, signaled>>
    BY <1>3 DEF Refused, winsock
  <2> QED
    BY <2>1 DEF Inv, Types
<1> QED
  BY <1>2, <1>3 DEF Select

(* A user registers a context: at a place k, whose object is selected or   *)
(* refused.                                                                *)
LEMMA SelectedByRegister ==
  ASSUME Inv, NEW c \in Ctxs, NEW evs \in AskedSets, NEW k \in Places,
         InUse' = InUse \cup {k}, pollctxs' = [pollctxs EXCEPT ![k] = c],
         \A i \in InUse : i # k <=> FdOf[pollctxs[i]] # FdOf[c],
         \A i \in InUse : pollevents'[i] = pollevents[i],
         pollevents'[0] = pollevents[0], pollevents'[k] \in Object,
         Select(c, pollevents'[k], evs), UNCHANGED <<hand, waiting>>
  PROVE  SelectedWhereItStands' /\ Noted' /\ Woken'
<1> DEFINE f == FdOf[c]
           object == pollevents'[k]
           accepted == /\ selected'[f] = [event |-> object, mask |-> Mask(evs)]
                       /\ noted'[f] \subseteq Mask(evs)
                       /\ noted'[f] # {} => object \in signaled'
                       /\ pollevents[0] \in signaled'
<1>1. /\ pollctxs'[k] = c
      /\ \A i \in InUse : i # k => pollctxs'[i] = pollctxs[i]
      /\ f \in Fds
  BY Used, FdOfAssumption DEF Inv, Types
<1> HIDE DEF object
<1>2. /\ (Asks(c, evs) /\ accepted) \/ Asks(c, NULL)
      /\ \A g \in Fds : g # f => selected'[g] = selected[g] /\ noted'[g] = noted[g]
      /\ signaled \subseteq signaled'
  <2>1. PICK o \in Object : o = object /\ Select(c, o, evs)
    BY DEF object
  <2>2. /\ \/ /\ Asks(c, evs)
              /\ selected'[f] = [event |-> o, mask |-> Mask(evs)]
              /\ noted'[f] \subseteq Mask(evs)
              /\ noted'[f] # {} => o \in signaled'
              /\ pollevents[0] \in signaled'
           \/ Asks(c, NULL)
        /\ \A g \in Fds : g # f => selected'[g] = selected[g] /\ noted'[g] = noted[g]
        /\ signaled \subseteq signaled'
    BY <2>1, SelectSays
  <2> QED
    BY <2>1, <2>2
<1> HIDE DEF accepted
<1>3. PICK a \in AskedSets \cup {NULL} : Asks(c, a) /\ (a = NULL \/ (a = evs /\ accepted))
  BY <1>2
<1>4. /\ asked'[c] = a /\ (c \in refused' <=> a = NULL) /\ c \notin unread'
      /\ \A d \in Ctxs : d # c /\ FdOf[d] = f => asked'[d] = NULL
      /\ \A d \in Ctxs : FdOf[d] # f =>
           /\ asked'[d] = asked[d]
           /\ d \in refused' <=> d \in refused
           /\ d \in unread' <=> d \in unread
  BY <1>3, AsksSays
<1>5. \A i \in InUse : i # k =>
        /\ pollctxs[i] \in Ctxs /\ FdOf[pollctxs[i]] \in Fds /\ FdOf[pollctxs[i]] # f
        /\ pollctxs'[i] = pollctxs[i]
        /\ asked'[pollctxs[i]] = asked[pollctxs[i]]
        /\ selected'[FdOf[pollctxs[i]]] = selected[FdOf[pollctxs[i]]]
        /\ noted'[FdOf[pollctxs[i]]] = noted[FdOf[pollctxs[i]]]
        /\ pollctxs[i] \in refused' <=> pollctxs[i] \in refused
        /\ pollctxs[i] \in unread' <=> pollctxs[i] \in unread
  BY <1>1, <1>2, <1>4, Used
<1> HIDE DEF f
<1>6. \A d \in Ctxs : asked'[d] # NULL => \E i \in InUse' : pollctxs'[i] = d
  <2> SUFFICES ASSUME NEW d \in Ctxs, asked'[d] # NULL
               PROVE  \E i \in InUse' : pollctxs'[i] = d
    OBVIOUS
  <2>1. CASE d = c
    BY <1>1, <2>1
  <2>2. CASE d # c
    <3>1. FdOf[d] # f /\ asked[d] # NULL
      BY <1>4, <2>2
    <3>2. PICK i \in InUse : pollctxs[i] = d
      BY <3>1 DEF Inv, SelectedWhereItStands
    <3>3. i # k
      BY <3>1, <3>2 DEF f
    <3> QED
      BY <1>5, <3>2, <3>3
  <2> QED
    BY <2>1, <2>2
<1>7. \A i, j \in InUse' : FdOf[pollctxs'[i]] = FdOf[pollctxs'[j]] => i = j
  BY <1>1, <1>5 DEF Inv, SelectedWhereItStands, f
<1>8. \A i \in InUse' :
        IF asked'[pollctxs'[i]] = NULL THEN pollctxs'[i] \in refused'
        ELSE selected'[FdOf[pollctxs'[i]]] = [event |-> pollevents'[i], mask |-> Mask(asked'[pollctxs'[i]])]
  <2>1. CASE a = NULL
    BY <1>1, <1>4, <1>5, <2>1 DEF Inv, SelectedWhereItStands
  <2>2. CASE a = evs /\ accepted
    <3>1. selected'[FdOf[pollctxs'[k]]] = [event |-> pollevents'[k], mask |-> Mask(asked'[pollctxs'[k]])]
      BY <1>1, <1>4, <2>2 DEF accepted, object, f
    <3>2. asked'[pollctxs'[k]] # NULL
      BY <1>1, <1>4, <2>2, MaskTyped
    <3> QED
      BY <1>5, <3>1, <3>2 DEF Inv, SelectedWhereItStands
  <2> QED
    BY <1>3, <2>1, <2>2
<1>9. Noted'
  <2> SUFFICES ASSUME NEW i \in InUse'
               PROVE  /\ asked'[pollctxs'[i]] # NULL =>
                           noted'[FdOf[pollctxs'[i]]] \subseteq Mask(asked'[pollctxs'[i]])
                      /\ pollctxs'[i] \notin refused' \cup unread' /\ noted'[FdOf[pollctxs'[i]]] # {} =>
                           pollevents'[i] \in signaled' \/ hand' = i
    BY DEF Noted
  <2>1. CASE i = k
    BY <1>1, <1>3, <1>4, <2>1 DEF accepted, object, f
  <2>2. CASE i # k
    BY <1>2, <1>5, <2>2 DEF Inv, Noted
  <2> QED
    BY <2>1, <2>2
<1>10. Woken'
  <2> SUFFICES ASSUME waiting > 0, NEW i \in InUse', pollctxs'[i] \notin refused', i >= waiting
               PROVE  pollevents[0] \in signaled'
    BY DEF Woken
  <2>1. CASE i = k
    BY <1>1, <1>3, <1>4, <2>1 DEF accepted
  <2>2. CASE i # k
    BY <1>2, <1>5, <2>2 DEF Inv, Woken
  <2> QED
    BY <2>1, <2>2
<1> QED
  BY <1>6, <1>7, <1>8, <1>9, <1>10 DEF SelectedWhereItStands

LEMMA RegisterTyped ==
  ASSUME Inv, NEW c \in Ctxs, NEW evs \in AskedSets, NEW object \in Object, Select(c, object, evs)
  PROVE  /\ selected' \in [Fds -> Selection \cup {NULL}] /\ noted' \in [Fds -> NetEvents]
         /\ signaled' \subseteq Places
         /\ asked' \in [Ctxs -> AskedSets \cup {NULL}] /\ refused' \subseteq Ctxs /\ unread' \subseteq Ctxs
<1>1. \E a \in AskedSets \cup {NULL} : Asks(c, a)
  BY SelectSays
<1>2. asked' \in [Ctxs -> AskedSets \cup {NULL}] /\ refused' \subseteq Ctxs /\ unread' \subseteq Ctxs
  BY <1>1, AsksSays
<1>3. /\ selected' \in [Fds -> Selection \cup {NULL}] /\ noted' \in [Fds -> NetEvents]
      /\ signaled' \subseteq Places
  BY SelectSays
<1> QED
  BY <1>2, <1>3

LEMMA AgainKeeps ==
  ASSUME Inv, NEW c \in Ctxs, NEW once \in BOOLEAN, NEW evs \in AskedSets, NEW u \in Data,
         UsersRun, RegisterAgain(c, once, evs, u), given' = [given EXCEPT ![c] = u],
         UNCHANGED <<thread, loop, called>>
  PROVE  Inv'
<1>1. PICK k \in PlacesOf(FdOf[c]) :
    /\ KeepsData /\ pollctxs[k] = c => u = pctx[c].udata
    /\ pollctxs' = [pollctxs EXCEPT ![k] = c]
    /\ pctx' = [pctx EXCEPT ![c].once = once, ![c].udata = IF pollctxs[k] = c THEN @ ELSE u]
    /\ Select(c, pollevents[k], evs)
    /\ UNCHANGED <<pollcount, pollevents, created>>
  BY DEF RegisterAgain
<1>2. pc # "holes" /\ UNCHANGED <<waiting, hand, pc, l, r, called>>
  BY DEF UsersRun, thread, loop
<1>3. FdOf[c] \in Fds /\ k \in InUse /\ FdOf[pollctxs[k]] = FdOf[c]
  BY <1>1, <1>2, UsedByUsers, FdOfAssumption
<1>4. k \in 1 .. pollcount - 1 /\ k \in Places /\ k # 0 /\ pollevents[k] \in Object /\ pollctxs[k] # NULL
  BY <1>3, Used DEF InUse
<1>5. 0 \in Places /\ pollevents[0] \in Places
  BY MaxEventsAssumption DEF Inv, Objects, ObjectsAreKept, Places
<1>6. InUse' = InUse
  <2>1. \A i \in 1 .. pollcount - 1 : pollctxs'[i] # NULL <=> pollctxs[i] # NULL
    <3>1. 1 .. pollcount - 1 \subseteq Places
      BY MaxEventsAssumption DEF Inv, Types, Places
    <3> QED
      BY <1>1, <1>4, <3>1, NullAssumption DEF Inv, Types
  <2> QED
    BY <1>1, <1>2, <2>1 DEF InUse
<1>7. SelectedWhereItStands' /\ Noted' /\ Woken'
  <2>1. InUse' = InUse \cup {k}
    BY <1>3, <1>6
  <2>2. \A i \in InUse : i # k <=> FdOf[pollctxs[i]] # FdOf[c]
    BY <1>3 DEF Inv, SelectedWhereItStands
  <2> QED
    BY <1>1, <1>2, <1>4, <2>1, <2>2, SelectedByRegister
<1>8. Types' /\ Given'
  <2>1. /\ selected' \in [Fds -> Selection \cup {NULL}] /\ noted' \in [Fds -> NetEvents]
        /\ signaled' \subseteq Places
        /\ asked' \in [Ctxs -> AskedSets \cup {NULL}] /\ refused' \subseteq Ctxs /\ unread' \subseteq Ctxs
    BY <1>1, <1>4, RegisterTyped
  <2>2. pctx' \in [Ctxs -> [once : BOOLEAN, udata : Data \cup {NULL}]]
    <3> DEFINE x == [pctx EXCEPT ![c].once = once]
    <3>1. x \in [Ctxs -> [once : BOOLEAN, udata : Data \cup {NULL}]]
      BY DEF Inv, Types
    <3>2. pctx' = [x EXCEPT ![c].udata = IF pollctxs[k] = c THEN @ ELSE u]
      BY <1>1
    <3> HIDE DEF x
    <3> QED
      BY <3>1, <3>2
  <2>3. pollctxs' \in [Places -> Ctxs \cup {NULL}]
    BY <1>1, <1>4 DEF Inv, Types
  <2>4. given' \in [Ctxs -> Data \cup {NULL}]
    BY DEF Inv, Types
  <2>5. Given'
    <3> DEFINE x == [pctx EXCEPT ![c].once = once]
    <3>1. /\ x \in [Ctxs -> [once : BOOLEAN, udata : Data \cup {NULL}]]
          /\ x[c].udata = pctx[c].udata /\ \A d \in Ctxs : d # c => x[d] = pctx[d]
      BY DEF Inv, Types
    <3>2. pctx' = [x EXCEPT ![c].udata = IF pollctxs[k] = c THEN @ ELSE u]
      BY <1>1
    <3> HIDE DEF x
    <3>3. /\ pctx'[c].udata = (IF pollctxs[k] = c THEN pctx[c].udata ELSE u)
          /\ \A d \in Ctxs : d # c => pctx'[d] = pctx[d]
      BY <3>1, <3>2
    <3>4. given'[c] = u /\ \A d \in Ctxs : d # c => given'[d] = given[d]
      BY DEF Inv, Types
    <3>5. CASE KeepsData
      <4>1. pctx'[c].udata = u
        BY <1>1, <3>3, <3>5
      <4>2. \A d \in Ctxs : d # c => pctx'[d].udata = given'[d]
        BY <3>3, <3>4, <3>5 DEF Inv, Given
      <4> QED
        BY <3>4, <4>1, <4>2 DEF Given
    <3>6. CASE ~KeepsData
      BY <3>6 DEF Given
    <3> QED
      BY <3>5, <3>6
  <2> QED
    BY <1>1, <1>2, <2>1, <2>2, <2>3, <2>4, <2>5 DEF Inv, Types
<1>9. Objects' /\ Closing' /\ Blocked'
  <2>1. pollctxs'[0] = NULL
    BY <1>1, <1>4, <1>5 DEF Inv, Types, Closing
  <2>2. Objects'
    BY <1>1 DEF Inv, Objects, ObjectsAreKept
  <2>3. Blocked'
    BY <1>1, <1>2 DEF Inv, Blocked
  <2> QED
    BY <1>1, <1>2, <2>1, <2>2, <2>3 DEF Inv, Closing
<1> QED
  BY <1>7, <1>8, <1>9 DEF Inv

LEMMA NewKeeps ==
  ASSUME Inv, NEW c \in Ctxs, NEW once \in BOOLEAN, NEW evs \in AskedSets, NEW u \in Data,
         UsersRun, RegisterNew(c, once, evs, u), given' = [given EXCEPT ![c] = u],
         UNCHANGED <<thread, loop, called>>
  PROVE  Inv'
<1> DEFINE k == pollcount
           fresh == pollevents[k] = NULL
           object == IF fresh THEN created ELSE pollevents[k]
<1>1. /\ PlacesOf(FdOf[c]) = {}
      /\ k < MaxEvents
      /\ pctx' = [pctx EXCEPT ![c] = [once |-> once, udata |-> u]]
      /\ created' = IF fresh THEN created + 1 ELSE created
      /\ pollevents' = [pollevents EXCEPT ![k] = object]
      /\ pollctxs' = [pollctxs EXCEPT ![k] = c]
      /\ pollcount' = k + 1
      /\ Select(c, object, evs)
  BY DEF RegisterNew, FreePlace
<1>2. pc # "holes" /\ UNCHANGED <<waiting, hand, pc, l, r, called>>
  BY DEF UsersRun, thread, loop
<1>3. /\ k \in Places /\ k \in 1 .. created /\ k + 1 \in 1 .. MaxEvents
      /\ created \in 1 .. MaxEvents /\ FdOf[c] \in Fds
      /\ 0 \in Places /\ pollevents[0] = 0 /\ MaxEvents \in Nat
  <2>1. /\ MaxEvents \in Nat /\ MaxEvents > 1 /\ FdOf[c] \in Fds
        /\ k \in 1 .. MaxEvents /\ created \in 1 .. MaxEvents
        /\ pollevents[0] = 0 /\ k <= created
    <3>1. MaxEvents \in Nat /\ MaxEvents > 1 /\ FdOf[c] \in Fds
      BY MaxEventsAssumption, FdOfAssumption
    <3>2. pollcount \in 1 .. MaxEvents /\ created \in 1 .. MaxEvents
      BY DEF Inv, Types
    <3>3. pollevents[0] = 0 /\ pollcount <= created
      BY DEF Inv, Objects, ObjectsAreKept
    <3> QED
      BY <3>1, <3>2, <3>3
  <2>2. k < MaxEvents
    BY <1>1
  <2> HIDE DEF k
  <2> QED
    BY <2>1, <2>2 DEF Places
<1>4. fresh <=> k = created
  BY <1>3 DEF Inv, Objects, ObjectsAreKept
<1>5. pollevents' \in [Places -> Places \cup {NULL}] /\ pollevents'[k] = object
      /\ \A i \in Places \ {k} : pollevents'[i] = pollevents[i]
  <2>1. object \in Places \cup {NULL}
    BY <1>1, <1>3, <1>4 DEF Inv, Types, Places
  <2> HIDE DEF object
  <2> QED
    BY <1>1, <1>3, <2>1 DEF Inv, Types
<1>6. object \in 0 .. created' - 1 /\ object # 0 /\ created' \in 1 .. MaxEvents /\ k + 1 <= created'
  <2>1. CASE fresh
    BY <1>1, <1>3, <1>4, <2>1
  <2>2. CASE ~fresh
    <3>1. k \in 0 .. created - 1 /\ 0 \in 0 .. created - 1 /\ k # 0
      BY <1>3, <1>4, <2>2
    <3> QED
      BY <1>1, <1>3, <2>2, <3>1 DEF Inv, Objects, ObjectsAreKept
  <2> QED
    BY <2>1, <2>2
<1>7. Objects'
  <2> HIDE DEF object, fresh, k
  <2>1. \A i \in 0 .. created' - 1 : i \in Places
    <3>1. PICK n \in 1 .. MaxEvents : created' = n
      BY <1>6
    <3> QED
      BY <1>3, <3>1 DEF Places
  <2>2. \A i \in 0 .. created' - 1 : i # k => i \in 0 .. created - 1
    BY <1>1, <1>3, <1>4 DEF fresh
  <2>3. \A i \in Places : pollevents'[i] # NULL <=> i < created'
    <3>1. object # NULL
      BY <1>6, NullAssumption
    <3>2. \A i \in Places : i # k => (i < created' <=> i < created)
      BY <1>1, <1>3, <1>4 DEF Places
    <3>3. k < created'
      BY <1>3, <1>6
    <3> QED
      BY <1>5, <3>1, <3>2, <3>3 DEF Inv, Objects, ObjectsAreKept
  <2>4. \A i \in 0 .. created' - 1 : i # k => pollevents'[i] = pollevents[i] /\ pollevents[i] # object
    <3> SUFFICES ASSUME NEW i \in 0 .. created' - 1, i # k
                 PROVE  pollevents'[i] = pollevents[i] /\ pollevents[i] # object
      OBVIOUS
    <3>1. pollevents'[i] = pollevents[i] /\ i \in 0 .. created - 1
      BY <1>5, <2>1, <2>2
    <3>2. pollevents[i] \in 0 .. created - 1
      BY <3>1 DEF Inv, Objects
    <3>3. CASE fresh
      BY <1>3, <3>1, <3>2, <3>3 DEF object
    <3>4. CASE ~fresh
      <4>1. k \in 0 .. created - 1
        BY <1>3, <1>4, <3>4
      <4> QED
        BY <3>1, <3>4, <4>1 DEF Inv, Objects, ObjectsAreKept, object
    <3> QED
      BY <3>3, <3>4
  <2>5. \A i, j \in 0 .. created' - 1 : pollevents'[i] = pollevents'[j] => i = j
    BY <1>5, <2>2, <2>4 DEF Inv, Objects, ObjectsAreKept
  <2>6. \A i \in 0 .. created' - 1 : pollevents'[i] \in 0 .. created' - 1
    <3>1. PICK n \in 1 .. MaxEvents : created' = n
      BY <1>6
    <3>2. 0 .. created - 1 \subseteq 0 .. created' - 1
      <4>1. created <= n
        BY <1>1, <1>3, <3>1
      <4> QED
        BY <1>3, <3>1, <4>1
    <3> QED
      BY <1>5, <1>6, <2>2, <2>4, <3>2 DEF Inv, Objects
  <2>7. pollevents'[0] = 0 /\ pollcount' <= created'
    BY <1>1, <1>3, <1>5, <1>6 DEF k
  <2> QED
    BY <2>3, <2>5, <2>6, <2>7 DEF Objects, ObjectsAreKept
<1>8. object \in Object
  BY <1>3, <1>6 DEF Object
<1> HIDE DEF object, fresh
<1>9. InUse' = InUse \cup {k} /\ k \notin InUse
  <2>1. 1 .. k + 1 - 1 = (1 .. k - 1) \cup {k} /\ k \notin 1 .. k - 1
    BY <1>3
  <2>2. \A i \in 1 .. k - 1 : i \in Places /\ i # k
    BY <1>3 DEF Places
  <2>3. pollctxs'[k] # NULL /\ \A i \in 1 .. k - 1 : pollctxs'[i] = pollctxs[i]
    BY <1>1, <1>3, <2>2, NullAssumption DEF Inv, Types
  <2>4. InUse' = { i \in 1 .. k + 1 - 1 : pollctxs'[i] # NULL }
    <3>1. pollcount' = k + 1
      BY <1>1
    <3>2. pc' # "holes"
      BY <1>2
    <3> QED
      BY <1>3, <3>1, <3>2 DEF InUse
  <2>5. InUse = { i \in 1 .. k - 1 : pollctxs[i] # NULL }
    BY <1>2, UsedByUsers
  <2> QED
    BY <2>1, <2>3, <2>4, <2>5
<1>10. SelectedWhereItStands' /\ Noted' /\ Woken'
  <2>1. \A i \in InUse : i # k /\ FdOf[pollctxs[i]] # FdOf[c]
    BY <1>1, <1>2, <1>3, <1>9, UsedByUsers
  <2>2. \A i \in InUse : pollevents'[i] = pollevents[i]
    BY <1>5, <1>9, Used
  <2>3. pollevents'[0] = pollevents[0]
    BY <1>3, <1>5
  <2>4. Select(c, pollevents'[k], evs) /\ pollevents'[k] \in Object
    BY <1>1, <1>5, <1>8
  <2>5. \A i \in InUse : i # k <=> FdOf[pollctxs[i]] # FdOf[c]
    BY <2>1
  <2> QED
    BY <1>1, <1>2, <1>3, <1>9, <2>2, <2>3, <2>4, <2>5, SelectedByRegister
<1>11. /\ selected' \in [Fds -> Selection \cup {NULL}] /\ noted' \in [Fds -> NetEvents]
       /\ signaled' \subseteq Places
       /\ asked' \in [Ctxs -> AskedSets \cup {NULL}] /\ refused' \subseteq Ctxs /\ unread' \subseteq Ctxs
  BY <1>1, <1>8, RegisterTyped
<1>12. Types' /\ Given'
  <2>1. /\ pctx' \in [Ctxs -> [once : BOOLEAN, udata : Data \cup {NULL}]]
        /\ pctx'[c].udata = u /\ \A d \in Ctxs : d # c => pctx'[d] = pctx[d]
    BY <1>1 DEF Inv, Types
  <2>2. pollctxs' \in [Places -> Ctxs \cup {NULL}]
    BY <1>1, <1>3 DEF Inv, Types
  <2>3. /\ given' \in [Ctxs -> Data \cup {NULL}]
        /\ given'[c] = u /\ \A d \in Ctxs : d # c => given'[d] = given[d]
    BY DEF Inv, Types
  <2>4. Given'
    BY <2>1, <2>3 DEF Inv, Given
  <2> QED
    BY <1>1, <1>2, <1>3, <1>5, <1>6, <1>11, <2>1, <2>2, <2>3, <2>4 DEF Inv, Types
<1>13. Closing' /\ Blocked'
  <2>1. pollctxs'[0] = NULL /\ pollevents'[0] = pollevents[0]
    BY <1>1, <1>3, <1>5 DEF Inv, Types, Closing
  <2>2. waiting <= pollcount' /\ (hand # NULL => hand < pollcount')
    BY <1>1, <1>3 DEF Inv, Types, Blocked, Places
  <2> QED
    BY <1>2, <2>1, <2>2 DEF Inv, Closing, Blocked
<1> QED
  BY <1>7, <1>10, <1>12, <1>13 DEF Inv

(* No event object could be made: only the context has changed.            *)
LEMMA NoObjectKeeps ==
  ASSUME Inv, NEW c \in Ctxs, NEW u \in Data, RegisterFails(c, u), given' = [given EXCEPT ![c] = u],
         UNCHANGED <<thread, loop, called>>
  PROVE  Inv'
<1>1. /\ pctx' = [pctx EXCEPT ![c].udata = u]
      /\ UNCHANGED <<pollcount, pollevents, pollctxs, created, selected, noted, signaled, waiting, hand,
                     pc, l, r, called, asked, refused, unread>>
  BY DEF RegisterFails, table, winsock, thread, loop
<1>2. InUse' = InUse
  BY <1>1 DEF InUse
<1>3. /\ pctx' \in [Ctxs -> [once : BOOLEAN, udata : Data \cup {NULL}]]
      /\ pctx'[c].udata = u /\ \A d \in Ctxs : d # c => pctx'[d] = pctx[d]
  BY <1>1 DEF Inv, Types
<1>4. /\ given' \in [Ctxs -> Data \cup {NULL}]
      /\ given'[c] = u /\ \A d \in Ctxs : d # c => given'[d] = given[d]
  BY DEF Inv, Types
<1>5. Types' /\ Given'
  BY <1>1, <1>3, <1>4 DEF Inv, Types, Given
<1> QED
  BY <1>1, <1>2, <1>5 DEF Inv, Objects, ObjectsAreKept, Closing, Blocked, Woken, SelectedWhereItStands, Noted

LEMMA RegisterKeeps ==
  ASSUME Inv, NEW c \in Ctxs, NEW once \in BOOLEAN, NEW evs \in AskedSets, NEW u \in Data,
         poll_register(c, once, evs, u)
  PROVE  Inv'
BY AgainKeeps, NewKeeps, NoObjectKeeps DEF poll_register

-----------------------------------------------------------------------------
(* A context leaves the table: its place becomes a hole.                   *)
LEMMA SelectedByLeave ==
  ASSUME Inv, NEW k \in InUse, InUse' = InUse \ {k}, pollctxs' = [pollctxs EXCEPT ![k] = NULL],
         \A d \in Ctxs : asked'[d] # NULL => asked[d] # NULL /\ d # pollctxs[k],
         \A d \in Ctxs : FdOf[d] # FdOf[pollctxs[k]] =>
            asked'[d] = asked[d] /\ (d \in refused' <=> d \in refused),
         \A f \in Fds : f # FdOf[pollctxs[k]] => selected'[f] = selected[f],
         UNCHANGED pollevents
  PROVE  SelectedWhereItStands'
<1>1. \A i \in InUse' : /\ i \in InUse /\ i # k /\ pollctxs'[i] = pollctxs[i] /\ pollctxs[i] \in Ctxs
                        /\ FdOf[pollctxs[i]] \in Fds /\ FdOf[pollctxs[i]] # FdOf[pollctxs[k]]
                        /\ asked'[pollctxs[i]] = asked[pollctxs[i]]
                        /\ pollctxs[i] \in refused' <=> pollctxs[i] \in refused
  BY Used DEF Inv, Types, SelectedWhereItStands
<1>2. \A c \in Ctxs : asked'[c] # NULL => \E i \in InUse' : pollctxs'[i] = c
  BY <1>1 DEF Inv, SelectedWhereItStands
<1> QED
  BY <1>1, <1>2 DEF Inv, SelectedWhereItStands

LEMMA UnregisterKeeps ==
  ASSUME Inv, NEW c \in Ctxs, poll_unregister(c)
  PROVE  Inv'
<1> DEFINE f == FdOf[c]
<1>1. PICK k \in PlacesOf(f) : pollctxs' = [pollctxs EXCEPT ![k] = NULL]
  BY DEF poll_unregister
<1>2. /\ pc # "holes"
      /\ \/ selected' = [selected EXCEPT ![f] = NULL] /\ noted' = [noted EXCEPT ![f] = {}]
         \/ UNCHANGED <<selected, noted>>
      /\ asked' = [d \in Ctxs |-> IF FdOf[d] = f THEN NULL ELSE asked[d]]
      /\ refused' = refused \ Sharing(c) /\ unread' = unread \ Sharing(c)
      /\ UNCHANGED <<pollcount, pollevents, created, pctx, signaled, waiting, hand, pc, l, r, called, given>>
  BY DEF poll_unregister, UsersRun, thread, loop, winsock, Sharing
<1>3. f \in Fds /\ k \in InUse /\ FdOf[pollctxs[k]] = f
  BY <1>1, <1>2, UsedByUsers, FdOfAssumption
<1>4. k \in 1 .. pollcount - 1 /\ k \in Places /\ k # 0 /\ pollctxs[k] \in Ctxs
  BY <1>3, Used
<1>5. \A d \in Ctxs : /\ FdOf[d] = f => asked'[d] = NULL
                      /\ FdOf[d] # f =>
                           /\ asked'[d] = asked[d]
                           /\ d \in refused' <=> d \in refused
                           /\ d \in unread' <=> d \in unread
  BY <1>2 DEF Sharing
<1>6. InUse' = InUse \ {k}
  <2>1. \A i \in 1 .. pollcount - 1 : i \in Places
    BY MaxEventsAssumption DEF Inv, Types, Places
  <2>2. \A i \in 1 .. pollcount - 1 : pollctxs'[i] # NULL <=> pollctxs[i] # NULL /\ i # k
    BY <1>1, <1>4, <2>1 DEF Inv, Types
  <2> QED
    BY <1>2, <2>2 DEF InUse
<1>7. \A g \in Fds : g # f => selected'[g] = selected[g] /\ noted'[g] = noted[g]
  BY <1>2 DEF Inv, Types
<1>8. Types'
  <2>1. noted' \in [Fds -> NetEvents] /\ selected' \in [Fds -> Selection \cup {NULL}]
    <3>1. {} \in NetEvents /\ NULL \in Selection \cup {NULL}
      BY DEF NetEvents
    <3>2. noted \in [Fds -> NetEvents] /\ selected \in [Fds -> Selection \cup {NULL}]
      BY DEF Inv, Types
    <3>3. CASE selected' = [selected EXCEPT ![f] = NULL] /\ noted' = [noted EXCEPT ![f] = {}]
      BY <3>1, <3>2, <3>3
    <3>4. CASE UNCHANGED <<selected, noted>>
      BY <3>2, <3>4
    <3> QED
      BY <1>2, <3>3, <3>4
  <2>2. /\ asked' \in [Ctxs -> AskedSets \cup {NULL}] /\ pollctxs' \in [Places -> Ctxs \cup {NULL}]
        /\ refused' \subseteq Ctxs /\ unread' \subseteq Ctxs
    BY <1>1, <1>2 DEF Inv, Types
  <2> QED
    BY <1>2, <2>1, <2>2 DEF Inv, Types
<1> HIDE DEF f
<1>9. \A i \in InUse' : /\ i \in InUse /\ i # k /\ pollctxs'[i] = pollctxs[i] /\ pollctxs[i] \in Ctxs
                        /\ FdOf[pollctxs[i]] \in Fds /\ FdOf[pollctxs[i]] # f
  BY <1>1, <1>3, <1>4, <1>6, Used DEF Inv, Types, SelectedWhereItStands
<1>10. SelectedWhereItStands'
  <2>1. ASSUME NEW d \in Ctxs, asked'[d] # NULL
        PROVE  asked[d] # NULL /\ d # pollctxs[k]
    <3>1. FdOf[d] # f
      BY <1>5, <2>1
    <3> QED
      BY <1>3, <1>5, <2>1, <3>1
  <2>2. \A d \in Ctxs : FdOf[d] # FdOf[pollctxs[k]] =>
          asked'[d] = asked[d] /\ (d \in refused' <=> d \in refused)
    BY <1>3, <1>5
  <2>3. \A g \in Fds : g # FdOf[pollctxs[k]] => selected'[g] = selected[g]
    BY <1>3, <1>7
  <2> QED
    BY <1>1, <1>2, <1>3, <1>6, <2>1, <2>2, <2>3, SelectedByLeave
<1>11. Noted' /\ Woken'
  <2>1. \A i \in InUse' : /\ asked'[pollctxs'[i]] = asked[pollctxs[i]]
                          /\ noted'[FdOf[pollctxs'[i]]] = noted[FdOf[pollctxs[i]]]
                          /\ pollctxs'[i] \in refused' <=> pollctxs[i] \in refused
                          /\ pollctxs'[i] \in unread' <=> pollctxs[i] \in unread
    BY <1>5, <1>7, <1>9
  <2>2. Noted'
    BY <1>2, <1>9, <2>1 DEF Inv, Noted
  <2>3. Woken'
    BY <1>2, <1>9, <2>1 DEF Inv, Woken
  <2> QED
    BY <2>2, <2>3
<1>12. Objects' /\ Blocked' /\ Given'
  BY <1>2 DEF Inv, Objects, ObjectsAreKept, Blocked, Given
<1>13. Closing'
  <2>1. 0 \in Places
    BY MaxEventsAssumption DEF Places
  <2> QED
    BY <1>1, <1>2, <1>4, <2>1 DEF Inv, Types, Closing
<1> QED
  BY <1>8, <1>10, <1>11, <1>12, <1>13 DEF Inv

-----------------------------------------------------------------------------
(* The thread that waits, and the wake-ups.                                *)
LEMMA WakeKeeps ==
  ASSUME Inv, poll_looper_wake
  PROVE  Inv'
<1>1. /\ signaled' = signaled \cup {pollevents[0]} /\ pollevents[0] \in Places
      /\ UNCHANGED <<pollcount, pollevents, pollctxs, created, pctx, selected, noted, waiting, hand, pc, l, r, called, asked, given, refused, unread>>
  BY MaxEventsAssumption DEF poll_looper_wake, table, winsock, thread, loop, users, Inv, Objects, ObjectsAreKept, Places
<1>2. InUse' = InUse
  BY <1>1 DEF InUse
<1>3. Types'
  BY <1>1 DEF Inv, Types
<1>4. Noted' /\ Woken'
  BY <1>1, <1>2 DEF Inv, Noted, Woken
<1> QED
  BY <1>1, <1>2, <1>3, <1>4 DEF Inv, Objects, ObjectsAreKept, Closing, Blocked, SelectedWhereItStands, Given

LEMMA WaitBeginsKeeps ==
  ASSUME Inv, WaitBegins
  PROVE  Inv'
<1>1. /\ pc = "users" /\ hand = NULL /\ waiting' = pollcount
      /\ UNCHANGED <<pollcount, pollevents, pollctxs, created, pctx, selected, noted, signaled, hand, pc, l, r, called, asked, given, refused, unread>>
  BY DEF WaitBegins, table, winsock, loop, users
<1>2. InUse' = InUse
  BY <1>1 DEF InUse
<1>3. pollcount \in 0 .. MaxEvents /\ pollcount <= pollcount /\ ~(pollcount < pollcount)
  BY MaxEventsAssumption DEF Inv, Types
<1>4. Types' /\ Blocked'
  BY <1>1, <1>3 DEF Inv, Types, Blocked
<1>5. Woken'
  <2>1. \A i \in InUse : ~(i >= pollcount)
    <3>1. \A i \in 1 .. pollcount - 1 : ~(i >= pollcount)
      BY <1>3
    <3> QED
      BY <3>1 DEF InUse
  <2> QED
    BY <1>1, <1>2, <2>1 DEF Woken
<1> QED
  BY <1>1, <1>2, <1>4, <1>5 DEF Inv, Objects, ObjectsAreKept, Closing, SelectedWhereItStands, Noted, Given

LEMMA WaitEndsKeeps ==
  ASSUME Inv, poll_looper_wait_events
  PROVE  Inv'
<1>1. PICK i \in 0 .. waiting - 1 : hand' = i /\ signaled' = signaled \ {pollevents[i]}
  BY DEF poll_looper_wait_events
<1>2. /\ waiting > 0 /\ waiting' = 0
      /\ UNCHANGED <<pollcount, pollevents, pollctxs, created, pctx, selected, noted, pc, l, r, called, asked, given, refused, unread>>
  BY DEF poll_looper_wait_events, table, winsock, loop, users
<1>3. /\ pc = "users" /\ hand = NULL /\ waiting <= pollcount
      /\ waiting \in 0 .. MaxEvents /\ pollcount \in 1 .. MaxEvents /\ pollcount <= created
      /\ created \in 1 .. MaxEvents
  BY <1>2 DEF Inv, Blocked, Types, Objects, ObjectsAreKept
<1>4. i \in Places /\ i < pollcount /\ i \in 0 .. created - 1
  BY <1>3, MaxEventsAssumption DEF Places
<1>5. InUse' = InUse
  BY <1>2 DEF InUse
<1>6. Types' /\ Blocked'
  <2>1. i # NULL /\ 0 \in 0 .. MaxEvents /\ ~(0 > 0) /\ 0 <= pollcount
    BY <1>3, MaxEventsAssumption, NullAssumption
  <2> QED
    BY <1>1, <1>2, <1>3, <1>4, <2>1 DEF Inv, Types, Blocked
<1>7. Noted'
  <2>1. \A j \in InUse : pollevents[j] = pollevents[i] => j = i
    BY <1>4, Used
  <2>2. \A j \in InUse : j # NULL
    BY Used, NullAssumption
  <2> QED
    BY <1>1, <1>2, <1>3, <1>5, <2>1, <2>2 DEF Inv, Noted
<1> QED
  BY <1>2, <1>5, <1>6, <1>7 DEF Inv, Objects, ObjectsAreKept, Closing, SelectedWhereItStands, Woken, Given

-----------------------------------------------------------------------------
(* The main thread processes the index that it was handed.                 *)
LEMMA NobodyKeeps ==
  ASSUME Inv, ProcessNobody
  PROVE  Inv'
<1>1. /\ pc = "users" /\ hand # NULL /\ pollctxs[hand] = NULL /\ hand' = NULL /\ pc' = "holes" /\ called' = NULL
      /\ UNCHANGED <<pollcount, pollevents, pollctxs, created, pctx, selected, noted, signaled, waiting, l, r, asked, given, refused, unread>>
  BY DEF ProcessNobody, CloseHoles, table, winsock, users
<1>2. l = 1 /\ r = 0 /\ waiting = 0 /\ r <= pollcount /\ pollcount \in 1 .. MaxEvents
  BY <1>1, MaxEventsAssumption DEF Inv, Closing, Blocked, Types
<1>3. InUse' = InUse
  BY <1>1, <1>2 DEF InUse
<1>4. Types' /\ Closing' /\ Blocked'
  BY <1>1, <1>2 DEF Inv, Types, Closing, Blocked
<1>5. hand \notin InUse
  BY <1>1 DEF InUse
<1>6. Noted'
  BY <1>1, <1>3, <1>5 DEF Inv, Noted
<1> QED
  BY <1>1, <1>2, <1>3, <1>4, <1>6 DEF Inv, Objects, ObjectsAreKept, SelectedWhereItStands, Woken, Given

LEMMA ReturnsKeeps ==
  ASSUME Inv, CallbackReturns
  PROVE  Inv'
<1>1. /\ pc = "call" /\ pc' = "holes" /\ called' = NULL
      /\ UNCHANGED <<pollcount, pollevents, pollctxs, created, pctx, selected, noted, signaled, waiting, hand, l, r, asked, given, refused, unread>>
  BY DEF CallbackReturns, CloseHoles, table, winsock, thread, users
<1>2. l = 1 /\ r = 0 /\ waiting = 0 /\ hand = NULL /\ r <= pollcount
  BY <1>1, MaxEventsAssumption DEF Inv, Closing, Blocked, Types
<1>3. InUse' = InUse
  BY <1>1, <1>2 DEF InUse
<1>4. Types' /\ Closing' /\ Blocked'
  BY <1>1, <1>2 DEF Inv, Types, Closing, Blocked
<1> QED
  BY <1>1, <1>2, <1>3, <1>4 DEF Inv, Objects, ObjectsAreKept, SelectedWhereItStands, Noted, Woken, Given

(* The context that ProcessEvent calls is one in use.                      *)
LEMMA HandInUse ==
  ASSUME Inv, hand # NULL, pollctxs[hand] # NULL
  PROVE  hand \in InUse /\ pc = "users"
<1>1. hand \in Places /\ hand < pollcount /\ pc = "users" /\ hand # 0
  BY DEF Inv, Types, Blocked, Closing
<1> QED
  BY <1>1, MaxEventsAssumption DEF Inv, Types, Places, InUse

(* Processing an index disturbs its context only, which leaves the table   *)
(* or stays; what is noted of it afterwards is signaled, or excused.       *)
LEMMA EventTables ==
  ASSUME Inv, hand \in InUse, InUse' = InUse \/ InUse' = InUse \ {hand},
         InUse' = InUse => UNCHANGED <<pollctxs, asked, refused>>,
         InUse' # InUse => /\ pollctxs' = [pollctxs EXCEPT ![hand] = NULL]
                           /\ asked' = [asked EXCEPT ![pollctxs[hand]] = NULL]
                           /\ refused' = refused \ {pollctxs[hand]},
         \A g \in Fds : g # FdOf[pollctxs[hand]] => noted'[g] = noted[g],
         noted'[FdOf[pollctxs[hand]]] = {} \/ (noted' = noted /\ (hand \in InUse' => pollctxs[hand] \in unread')),
         \A d \in Ctxs : d # pollctxs[hand] => (d \in unread' <=> d \in unread),
         \A i \in InUse : i # hand /\ pollevents[i] \in signaled => pollevents[i] \in signaled',
         UNCHANGED <<pollevents, selected>>
  PROVE  SelectedWhereItStands' /\ Noted'
<1> DEFINE k == hand
           c == pollctxs[k]
           f == FdOf[c]
<1>1. k \in InUse /\ c \in Ctxs /\ f \in Fds
  BY Used
<1>2. \A i \in InUse : i # k => /\ pollctxs[i] \in Ctxs /\ FdOf[pollctxs[i]] \in Fds /\ i \in Places
                                /\ FdOf[pollctxs[i]] # f /\ pollctxs[i] # c
  BY <1>1, Used DEF Inv, SelectedWhereItStands
<1>3. CASE InUse' = InUse
  <2>1. UNCHANGED <<pollctxs, asked, refused>>
    BY <1>3
  <2>2. SelectedWhereItStands'
    BY <1>3, <2>1 DEF Inv, SelectedWhereItStands
  <2>3. ASSUME NEW i \in InUse
        PROVE  LET d == pollctxs[i]
               IN  /\ asked[d] # NULL => noted'[FdOf[d]] \subseteq Mask(asked[d])
                   /\ d \notin refused \cup unread' /\ noted'[FdOf[d]] # {}
                        => pollevents[i] \in signaled' \/ hand' = i
    <3>1. CASE i = k
      BY <1>1, <1>3, <3>1 DEF Inv, Noted
    <3>2. CASE i # k
      BY <1>2, <3>2 DEF Inv, Noted
    <3> QED
      BY <3>1, <3>2
  <2> QED
    BY <1>3, <2>1, <2>2, <2>3 DEF Noted
<1>4. CASE InUse' = InUse \ {k} /\ InUse' # InUse
  <2>1. /\ pollctxs' = [pollctxs EXCEPT ![k] = NULL] /\ asked' = [asked EXCEPT ![c] = NULL]
        /\ refused' = refused \ {c}
    BY <1>4
  <2>2. \A d \in Ctxs : /\ asked'[d] # NULL => asked[d] # NULL /\ d # c
                        /\ d # c => asked'[d] = asked[d]
                        /\ d # c => (d \in refused' <=> d \in refused)
    BY <2>1 DEF Inv, Types
  <2>3. SelectedWhereItStands'
    <3>1. \A d \in Ctxs : asked'[d] # NULL => asked[d] # NULL /\ d # pollctxs[k]
      BY <2>2
    <3>2. \A d \in Ctxs : FdOf[d] # FdOf[pollctxs[k]] =>
            asked'[d] = asked[d] /\ (d \in refused' <=> d \in refused)
      BY <2>2
    <3>3. \A g \in Fds : g # FdOf[pollctxs[k]] => selected'[g] = selected[g]
      OBVIOUS
    <3> QED
      BY <1>1, <1>4, <2>1, <3>1, <3>2, <3>3, SelectedByLeave
  <2>4. ASSUME NEW i \in InUse'
        PROVE  LET d == pollctxs'[i]
               IN  /\ asked'[d] # NULL => noted'[FdOf[d]] \subseteq Mask(asked'[d])
                   /\ d \notin refused' \cup unread' /\ noted'[FdOf[d]] # {}
                        => pollevents[i] \in signaled' \/ hand' = i
    <3>1. i \in InUse /\ i # k
      BY <1>4
    <3>2. pollctxs'[i] = pollctxs[i]
      BY <1>2, <2>1, <3>1 DEF Inv, Types
    <3>3. /\ asked'[pollctxs[i]] = asked[pollctxs[i]] /\ noted'[FdOf[pollctxs[i]]] = noted[FdOf[pollctxs[i]]]
          /\ pollctxs[i] \in refused' <=> pollctxs[i] \in refused
          /\ pollctxs[i] \in unread' <=> pollctxs[i] \in unread
      BY <1>2, <2>2, <3>1
    <3>4. pollevents[i] \in signaled \/ hand = i => pollevents[i] \in signaled'
      BY <3>1
    <3> QED
      BY <3>1, <3>2, <3>3, <3>4 DEF Inv, Noted
  <2> QED
    BY <2>3, <2>4 DEF Noted
<1> QED
  BY <1>3, <1>4

LEMMA EventKeeps ==
  ASSUME Inv, ProcessEvent
  PROVE  Inv'
<1> DEFINE k == hand
           c == pollctxs[k]
           f == FdOf[c]
<1>1. /\ hand # NULL /\ c # NULL /\ hand' = NULL
      /\ Enumerated(c) \/ NotEnumerated(c)
      /\ UNCHANGED <<pollcount, pollevents, created, pctx, selected, waiting, given>>
  BY DEF ProcessEvent
<1>2. /\ \/ noted' = [noted EXCEPT ![f] = {}] /\ signaled' = signaled \ {pollevents[k]} /\ unread' = unread \ {c}
         \/ /\ UNCHANGED <<noted, signaled>>
            /\ unread' = IF pctx[c].once THEN unread \ {c} ELSE unread \cup {c}
            /\ pc' = "call"
      /\ \/ pc' = "holes" /\ called' = NULL /\ UNCHANGED <<pollctxs, asked, refused>>
         \/ /\ pc' = "call" /\ pollctxs' = AfterOnce(c)
            /\ asked' = IF pctx[c].once THEN [asked EXCEPT ![c] = NULL] ELSE asked
            /\ refused' = IF pctx[c].once THEN refused \ {c} ELSE refused
            /\ \E evs \in SUBSET {"in", "out", "error"} : called' = [ctx |-> c, events |-> evs]
      /\ UNCHANGED <<l, r>>
  <2>1. CASE Enumerated(c)
    <3>1. \A failed : PollEvents(noted[f], failed) \in SUBSET {"in", "out", "error"}
      BY DEF PollEvents
    <3> QED
      BY <2>1, <3>1 DEF Enumerated, CloseHoles, Call
  <2>2. CASE NotEnumerated(c)
    BY <2>2 DEF NotEnumerated, Call
  <2> QED
    BY <1>1, <2>1, <2>2
<1>3. k \in InUse /\ pc = "users" /\ waiting = 0 /\ l = 1 /\ r = 0
  BY <1>1, HandInUse DEF Inv, Blocked, Closing
<1>4. k \in 1 .. pollcount - 1 /\ k \in Places /\ c \in Ctxs /\ f \in Fds /\ k # 0
      /\ \A i \in InUse : pollevents[i] = pollevents[k] => i = k
  BY <1>3, Used
<1> HIDE DEF f, c, k
<1>5. \/ UNCHANGED <<pollctxs, asked, refused>> /\ (pc' = "call" => ~pctx[c].once)
      \/ /\ pollctxs' = [pollctxs EXCEPT ![k] = NULL] /\ asked' = [asked EXCEPT ![c] = NULL]
         /\ refused' = refused \ {c}
  BY <1>2 DEF AfterOnce, k
<1>6. \/ UNCHANGED <<pollctxs, asked, refused>> /\ (pc' = "call" => ~pctx[c].once) /\ InUse' = InUse
      \/ /\ pollctxs' = [pollctxs EXCEPT ![k] = NULL] /\ asked' = [asked EXCEPT ![c] = NULL]
         /\ refused' = refused \ {c} /\ InUse' = InUse \ {k} /\ InUse' # InUse
  <2>1. InUse' = { i \in 1 .. pollcount - 1 : pollctxs'[i] # NULL }
    <3>1. l' = 1 /\ r' = 0 /\ pollcount' = pollcount
      BY <1>1, <1>2, <1>3
    <3>2. \A i \in 1 .. pollcount - 1 : i >= r'
      BY <3>1, MaxEventsAssumption DEF Inv, Types
    <3> QED
      BY <3>1, <3>2 DEF InUse
  <2>2. InUse = { i \in 1 .. pollcount - 1 : pollctxs[i] # NULL }
    BY <1>3, UsedByUsers
  <2>3. CASE pollctxs' = [pollctxs EXCEPT ![k] = NULL]
    <3>1. \A i \in 1 .. pollcount - 1 : i \in Places
      BY MaxEventsAssumption DEF Inv, Types, Places
    <3>2. \A i \in 1 .. pollcount - 1 : pollctxs'[i] # NULL <=> pollctxs[i] # NULL /\ i # k
      BY <1>4, <2>3, <3>1 DEF Inv, Types
    <3>3. InUse' = InUse \ {k} /\ InUse' # InUse
      BY <1>3, <2>1, <2>2, <3>2
    <3> QED
      BY <1>5, <2>1, <2>2, <3>3
  <2>4. CASE UNCHANGED pollctxs
    BY <1>4, <1>5, <2>1, <2>2, <2>3, <2>4
  <2> QED
    BY <1>5, <2>3, <2>4
<1>7. SelectedWhereItStands' /\ Noted'
  <2>1. \A g \in Fds : g # f => noted'[g] = noted[g]
    BY <1>2 DEF Inv, Types
  <2>2. noted'[f] = {} \/ (noted' = noted /\ (k \in InUse' => c \in unread'))
    <3>1. CASE noted' = [noted EXCEPT ![f] = {}]
      BY <1>4, <3>1 DEF Inv, Types
    <3>2. CASE ~(noted' = [noted EXCEPT ![f] = {}])
      <4>1. noted' = noted /\ unread' = (IF pctx[c].once THEN unread \ {c} ELSE unread \cup {c}) /\ pc' = "call"
        BY <1>2, <3>2
      <4>2. k \in InUse' => ~pctx[c].once
        BY <1>6, <4>1
      <4> QED
        BY <4>1, <4>2
    <3> QED
      BY <3>1, <3>2
  <2>3. \A d \in Ctxs : d # c => (d \in unread' <=> d \in unread)
    BY <1>2
  <2>4. \A i \in InUse : i # k /\ pollevents[i] \in signaled => pollevents[i] \in signaled'
    BY <1>2, <1>4
  <2> QED
    BY <1>1, <1>3, <1>6, <2>1, <2>2, <2>3, <2>4, EventTables DEF f, c, k
<1>8. Types'
  <2>1. noted' \in [Fds -> NetEvents] /\ signaled' \subseteq Places /\ unread' \subseteq Ctxs
    BY <1>2, <1>4 DEF Inv, Types, NetEvents
  <2>2. called' = NULL \/ called' \in [ctx : Ctxs, events : SUBSET {"in", "out", "error"}]
    BY <1>2, <1>4
  <2>3. /\ pollctxs' \in [Places -> Ctxs \cup {NULL}] /\ asked' \in [Ctxs -> AskedSets \cup {NULL}]
        /\ refused' \subseteq Ctxs
    BY <1>6 DEF Inv, Types
  <2>4. pc' \in {"users", "call", "holes"}
    BY <1>2
  <2> QED
    BY <1>1, <1>2, <2>1, <2>2, <2>3, <2>4 DEF Inv, Types
<1>9. Closing' /\ Blocked'
  <2>1. pollctxs'[0] = NULL
    <3>1. 0 \in Places /\ pollctxs[0] = NULL
      BY MaxEventsAssumption DEF Inv, Closing, Places
    <3> QED
      BY <1>6, <3>1 DEF Inv, Types
  <2>2. pollcount \in Nat /\ 0 <= pollcount /\ ~(waiting > 0)
    BY <1>3, MaxEventsAssumption DEF Inv, Types
  <2> QED
    BY <1>1, <1>2, <1>3, <2>1, <2>2 DEF Closing, Blocked
<1>10. Woken' /\ Given'
  BY <1>1, <1>3 DEF Inv, Woken, Given
<1> QED
  BY <1>1, <1>7, <1>8, <1>9, <1>10 DEF Inv, Objects, ObjectsAreKept

-----------------------------------------------------------------------------
(* The holes are closed: a context and its object move to the front.       *)
LEMMA ClearStepKeeps ==
  ASSUME Inv, ClearStep
  PROVE  Inv'
<1>1. /\ pc = "holes" /\ r < pollcount /\ r' = r + 1
      /\ UNCHANGED <<pollcount, created, pctx, selected, noted, signaled, waiting, hand, pc, called, asked, given, refused, unread>>
  BY DEF ClearStep, winsock, thread, users
<1>2. /\ pollcount \in 1 .. MaxEvents /\ MaxEvents \in Nat /\ l \in 1 .. MaxEvents /\ r \in 0 .. MaxEvents
      /\ pollcount <= created /\ created \in 1 .. MaxEvents
      /\ waiting = 0 /\ hand = NULL /\ pollctxs[0] = NULL
      /\ l <= r \/ (l = 1 /\ r = 0)
      /\ \A i : i \in InUse <=> i \in 1 .. pollcount - 1 /\ pollctxs[i] # NULL /\ (i < l \/ i >= r)
  <2>1. \A i : i \in InUse <=> i \in 1 .. pollcount - 1 /\ pollctxs[i] # NULL /\ (i < l \/ i >= r)
    BY <1>1 DEF InUse
  <2> QED
    BY <1>1, <2>1, MaxEventsAssumption DEF Inv, Types, Objects, ObjectsAreKept, Blocked, Closing
<1>3. r' \in 0 .. MaxEvents /\ r' <= pollcount'
  BY <1>1, <1>2
<1>4. \A i : i \in InUse' <=> i \in 1 .. pollcount - 1 /\ pollctxs'[i] # NULL /\ (i < l' \/ i >= r + 1)
  BY <1>1 DEF InUse
<1>5. CASE pollctxs[r] = NULL
  <2>1. UNCHANGED <<pollctxs, pollevents, l>>
    BY <1>5 DEF ClearStep
  <2>2. InUse' = InUse
    <3> SUFFICES ASSUME NEW i \in 1 .. pollcount - 1, pollctxs[i] # NULL
                 PROVE  i < l \/ i >= r <=> i < l \/ i >= r + 1
      BY <1>2, <1>4, <2>1
    <3>1. i # r
      BY <1>5
    <3> QED
      BY <1>2, <3>1
  <2>3. l' <= r' \/ (l' = 1 /\ r' = 0)
    BY <1>1, <1>2, <2>1
  <2>4. Types' /\ Closing' /\ Blocked'
    BY <1>1, <1>2, <1>3, <2>1, <2>3 DEF Inv, Types, Closing, Blocked
  <2> QED
    BY <1>1, <1>2, <2>1, <2>2, <2>4 DEF Inv, Objects, ObjectsAreKept, SelectedWhereItStands, Noted, Woken, Given
<1>6. CASE pollctxs[r] # NULL
  <2>1. /\ l \in 1 .. r /\ r \in 1 .. pollcount - 1 /\ r \in Places /\ l \in Places /\ 0 \in Places
        /\ r \in InUse /\ r \in 0 .. created - 1 /\ l \in 0 .. created - 1
    <3>1. l <= r /\ r # 0
      BY <1>2, <1>6
    <3> QED
      BY <1>1, <1>2, <1>6, <3>1 DEF Places
  <2>2. /\ pollctxs' = [pollctxs EXCEPT ![l] = pollctxs[r]]
        /\ pollevents' = IF r = l THEN pollevents ELSE [pollevents EXCEPT ![r] = pollevents[l], ![l] = pollevents[r]]
        /\ l' = l + 1
    BY <1>6 DEF ClearStep, EventsMoved
  <2>3. /\ pollctxs'[l] = pollctxs[r] /\ \A i \in Places : i # l => pollctxs'[i] = pollctxs[i]
        /\ pollctxs' \in [Places -> Ctxs \cup {NULL}]
    BY <2>1, <2>2 DEF Inv, Types
  <2>4. /\ pollevents'[l] = pollevents[r] /\ pollevents'[r] = pollevents[l]
        /\ \A i \in Places : i # l /\ i # r => pollevents'[i] = pollevents[i]
        /\ pollevents' \in [Places -> Places \cup {NULL}]
    BY <2>1, <2>2 DEF Inv, Types
  <2>5. \A i \in 1 .. pollcount - 1 : i \in Places
    BY <1>2 DEF Places
  <2>6. InUse' = (InUse \ {r}) \cup {l}
    <3>1. \A i \in 1 .. pollcount - 1 : i < l + 1 \/ i >= r + 1 <=> i = l \/ (i # r /\ (i < l \/ i >= r))
      BY <1>2, <2>1
    <3>2. l \in 1 .. pollcount - 1
      BY <2>1, <1>2
    <3>3. \A i \in 1 .. pollcount - 1 : i \in InUse' <=> i = l \/ (i # r /\ i \in InUse)
      <4>1. \A i \in 1 .. pollcount - 1 : i \in InUse' <=> pollctxs'[i] # NULL /\ (i = l \/ (i # r /\ (i < l \/ i >= r)))
        BY <1>4, <2>2, <3>1
      <4> QED
        BY <1>2, <1>6, <2>3, <2>5, <4>1
    <3>4. \A i \in InUse' : i \in 1 .. pollcount - 1
      BY <1>4
    <3>5. \A i \in InUse : i \in 1 .. pollcount - 1
      BY <1>2
    <3> QED
      BY <3>2, <3>3, <3>4, <3>5
  <2>7. /\ pollctxs'[l] = pollctxs[r] /\ pollevents'[l] = pollevents[r]
        /\ \A i \in InUse' : i # l => i \in InUse \ {r} /\ pollctxs'[i] = pollctxs[i] /\ pollevents'[i] = pollevents[i]
        /\ \A i \in InUse : i # r => i \in InUse' /\ (i = l => l = r)
    <3>1. l \in InUse => l = r
      BY <1>2, <2>1
    <3> QED
      BY <2>3, <2>4, <2>6, <3>1, Used
  <2> DEFINE from(i) == IF i = l THEN r ELSE i
  <2>8. \A i \in InUse' : /\ from(i) \in InUse
                          /\ pollctxs'[i] = pollctxs[from(i)] /\ pollevents'[i] = pollevents[from(i)]
    BY <2>1, <2>7
  <2>9. \A i, j \in InUse' : from(i) = from(j) => i = j
    BY <2>6
  <2> HIDE DEF from
  <2>10. SelectedWhereItStands'
    <3>1. \A c \in Ctxs : (\E i \in InUse' : pollctxs'[i] = c) <=> (\E i \in InUse : pollctxs[i] = c)
      BY <2>1, <2>6, <2>7
    <3>2. \A i, j \in InUse' : FdOf[pollctxs'[i]] = FdOf[pollctxs'[j]] => i = j
      BY <2>8, <2>9 DEF Inv, SelectedWhereItStands
    <3>3. \A i \in InUse' :
            IF asked[pollctxs'[i]] = NULL THEN pollctxs'[i] \in refused
            ELSE selected[FdOf[pollctxs'[i]]] = [event |-> pollevents'[i], mask |-> Mask(asked[pollctxs'[i]])]
      BY <2>8 DEF Inv, SelectedWhereItStands
    <3> QED
      BY <1>1, <3>1, <3>2, <3>3 DEF Inv, SelectedWhereItStands
  <2>11. Noted'
    <3>1. \A i \in InUse : i # NULL
      BY Used, NullAssumption
    <3>2. \A i \in InUse : pollctxs[i] \notin refused \cup unread /\ noted[FdOf[pollctxs[i]]] # {}
                          => pollevents[i] \in signaled
      BY <1>2, <3>1 DEF Inv, Noted
    <3> QED
      BY <1>1, <2>8, <3>2 DEF Inv, Noted
  <2>12. Objects'
    <3>1. \A i \in Places : pollevents'[i] # NULL <=> i < created
      <4>1. pollevents[l] # NULL /\ pollevents[r] # NULL /\ l < created /\ r < created
        BY <1>2, <2>1 DEF Inv, Objects, ObjectsAreKept
      <4> QED
        BY <2>1, <2>4, <4>1 DEF Inv, Objects, ObjectsAreKept
    <3>2. \A i \in 0 .. created - 1 : i \in Places
      BY <1>2 DEF Places
    <3>3. \A i, j \in 0 .. created - 1 : pollevents'[i] = pollevents'[j] => i = j
      BY <2>1, <2>4, <3>2 DEF Inv, Objects, ObjectsAreKept
    <3>4. \A i \in 0 .. created - 1 : pollevents'[i] \in 0 .. created - 1
      BY <2>1, <2>4, <3>2 DEF Inv, Objects
    <3>5. pollevents'[0] = 0
      BY <2>1, <2>4 DEF Inv, Objects, ObjectsAreKept
    <3> QED
      BY <1>1, <3>1, <3>3, <3>4, <3>5 DEF Inv, Objects, ObjectsAreKept
  <2>13. pollctxs'[0] = NULL /\ l' <= r' /\ l' \in 1 .. MaxEvents
    BY <1>1, <1>2, <2>1, <2>2, <2>3
  <2>14. Types' /\ Closing' /\ Blocked'
    BY <1>1, <1>2, <1>3, <2>3, <2>4, <2>13 DEF Inv, Types, Closing, Blocked
  <2>15. Woken' /\ Given'
    BY <1>1, <1>2 DEF Inv, Woken, Given
  <2> QED
    BY <2>10, <2>11, <2>12, <2>14, <2>15 DEF Inv
<1> QED
  BY <1>5, <1>6

LEMMA ClearEndKeeps ==
  ASSUME Inv, ClearEnd
  PROVE  Inv'
<1>1. /\ pc = "holes" /\ r >= pollcount
      /\ pollctxs' = [i \in Places |-> IF i \in l .. pollcount - 1 THEN NULL ELSE pollctxs[i]]
      /\ pollcount' = l /\ pc' = "users" /\ l' = 1 /\ r' = 0
      /\ UNCHANGED <<pollevents, created, pctx, selected, noted, signaled, waiting, hand, called, asked, given, refused, unread>>
  BY DEF ClearEnd, winsock, thread, users
<1>2. /\ pollcount \in 1 .. MaxEvents /\ MaxEvents \in Nat /\ l \in 1 .. MaxEvents /\ r \in 0 .. MaxEvents
      /\ pollcount <= created /\ created \in 1 .. MaxEvents
      /\ waiting = 0 /\ hand = NULL /\ pollctxs[0] = NULL /\ r = pollcount /\ l <= pollcount
  BY <1>1, MaxEventsAssumption DEF Inv, Types, Objects, ObjectsAreKept, Blocked, Closing
<1>3. \A i \in 0 .. l - 1 : i \in Places /\ pollctxs'[i] = pollctxs[i]
  BY <1>1, <1>2 DEF Places
<1>4. InUse' = InUse
  <2>1. \A i : i \in InUse <=> i \in 1 .. pollcount - 1 /\ pollctxs[i] # NULL /\ (i < l \/ i >= r)
    BY <1>1 DEF InUse
  <2>2. \A i : i \in InUse' <=> i \in 1 .. l - 1 /\ pollctxs'[i] # NULL
    BY <1>1, <1>2 DEF InUse
  <2>3. \A i : i \in 1 .. pollcount - 1 /\ (i < l \/ i >= r) <=> i \in 1 .. l - 1
    BY <1>2
  <2>4. \A i \in 1 .. l - 1 : pollctxs'[i] = pollctxs[i]
    BY <1>2, <1>3
  <2> QED
    BY <2>1, <2>2, <2>3, <2>4
<1>5. \A i \in InUse : pollctxs'[i] = pollctxs[i]
  <2>1. \A i \in InUse : i \in 0 .. l - 1
    BY <1>1, <1>2 DEF InUse
  <2> QED
    BY <1>3, <2>1
<1>6. pollctxs' \in [Places -> Ctxs \cup {NULL}] /\ pollctxs'[0] = NULL
  <2>1. 0 \in 0 .. l - 1
    BY <1>2
  <2>2. pollctxs' \in [Places -> Ctxs \cup {NULL}]
    BY <1>1 DEF Inv, Types
  <2> QED
    BY <1>2, <1>3, <2>1, <2>2
<1>7. Types' /\ Closing' /\ Blocked'
  BY <1>1, <1>2, <1>6 DEF Inv, Types, Closing, Blocked
<1>8. Objects'
  BY <1>1, <1>2 DEF Inv, Objects, ObjectsAreKept
<1>9. SelectedWhereItStands'
  <2>1. \A c \in Ctxs : asked'[c] # NULL => \E i \in InUse' : pollctxs'[i] = c
    BY <1>1, <1>4, <1>5 DEF Inv, SelectedWhereItStands
  <2>2. \A i, j \in InUse' : FdOf[pollctxs'[i]] = FdOf[pollctxs'[j]] => i = j
    BY <1>4, <1>5 DEF Inv, SelectedWhereItStands
  <2>3. \A i \in InUse' :
          IF asked'[pollctxs'[i]] = NULL THEN pollctxs'[i] \in refused'
          ELSE selected'[FdOf[pollctxs'[i]]] = [event |-> pollevents'[i], mask |-> Mask(asked'[pollctxs'[i]])]
    BY <1>1, <1>4, <1>5 DEF Inv, SelectedWhereItStands
  <2> QED
    BY <2>1, <2>2, <2>3 DEF SelectedWhereItStands
<1>10. Noted'
  BY <1>1, <1>4, <1>5 DEF Inv, Noted
<1>11. Woken' /\ Given'
  BY <1>1, <1>2 DEF Inv, Woken, Given
<1> QED
  BY <1>7, <1>8, <1>9, <1>10, <1>11 DEF Inv

-----------------------------------------------------------------------------
(* The network.                                                            *)
LEMMA NetworkKeeps ==
  ASSUME Inv, NEW f \in Fds, NetworkEvent(f)
  PROVE  Inv'
<1>1. /\ selected[f] # NULL /\ signaled' = signaled \cup {selected[f].event}
      /\ UNCHANGED <<pollcount, pollevents, pollctxs, created, pctx, selected, waiting, hand, pc, l, r, called, asked, given, refused, unread>>
  BY DEF NetworkEvent, table, thread, loop, users
<1>2. PICK e \in selected[f].mask \cap Brings[f] : noted' = [noted EXCEPT ![f] = @ \cup {e}]
  BY DEF NetworkEvent
<1>3. selected[f] \in Selection
  BY <1>1 DEF Inv, Types
<1>4. selected[f].event \in Places /\ selected[f].mask \in NetEvents
  BY <1>3, MaxEventsAssumption DEF Selection, Object, Places
<1>5. noted'[f] = noted[f] \cup {e} /\ \A g \in Fds : g # f => noted'[g] = noted[g]
  BY <1>2 DEF Inv, Types
<1>6. InUse' = InUse
  BY <1>1 DEF InUse
<1>7. Types'
  <2>1. noted' \in [Fds -> NetEvents]
    BY <1>2, <1>4 DEF Inv, Types, NetEvents
  <2> QED
    BY <1>1, <1>4, <2>1 DEF Inv, Types
<1>8. Noted'
  <2> SUFFICES ASSUME NEW i \in InUse
               PROVE  LET c == pollctxs[i]
                      IN  /\ asked[c] # NULL => noted'[FdOf[c]] \subseteq Mask(asked[c])
                          /\ c \notin refused \cup unread /\ noted'[FdOf[c]] # {}
                               => pollevents[i] \in signaled' \/ hand = i
    BY <1>1, <1>6 DEF Noted
  <2>1. CASE FdOf[pollctxs[i]] = f /\ asked[pollctxs[i]] # NULL
    <3>1. selected[f] = [event |-> pollevents[i], mask |-> Mask(asked[pollctxs[i]])]
      BY <2>1 DEF Inv, SelectedWhereItStands
    <3>2. selected[f].event = pollevents[i] /\ selected[f].mask = Mask(asked[pollctxs[i]])
      BY <3>1
    <3> QED
      BY <1>1, <1>2, <1>5, <2>1, <3>2 DEF Inv, Noted
  <2>2. CASE FdOf[pollctxs[i]] = f /\ asked[pollctxs[i]] = NULL
    BY <2>2 DEF Inv, SelectedWhereItStands
  <2>3. CASE FdOf[pollctxs[i]] # f
    BY <1>1, <1>5, <2>3, Used DEF Inv, Noted
  <2> QED
    BY <2>1, <2>2, <2>3
<1>9. Woken' /\ Given'
  BY <1>1, <1>6 DEF Inv, Woken, Given
<1> QED
  BY <1>1, <1>6, <1>7, <1>8, <1>9 DEF Inv, Objects, ObjectsAreKept, Closing, Blocked, SelectedWhereItStands

-----------------------------------------------------------------------------
LEMMA NextKeeps ==
  ASSUME Inv, [Next]_vars
  PROVE  Inv'
<1>1. CASE UNCHANGED vars
  <2>1. UNCHANGED <<pollcount, pollevents, pollctxs, created, pctx, selected, noted, signaled, waiting, hand,
                    pc, l, r, called, asked, given, refused, unread>>
    BY <1>1 DEF vars, table, winsock, thread, loop, users
  <2>2. InUse' = InUse
    BY <2>1 DEF InUse
  <2>3. Types'
    BY <2>1 DEF Inv, Types
  <2> QED
    BY <2>1, <2>2, <2>3 DEF Inv, Objects, ObjectsAreKept, Closing, Blocked, SelectedWhereItStands, Noted, Woken,
       Given
<1>2. CASE \E c \in Ctxs, once \in BOOLEAN, evs \in AskedSets, u \in Data : poll_register(c, once, evs, u)
  BY <1>2, RegisterKeeps
<1>3. CASE \E c \in Ctxs : poll_unregister(c)
  BY <1>3, UnregisterKeeps
<1>4. CASE Process
  BY <1>4, NobodyKeeps, EventKeeps, ReturnsKeeps, ClearStepKeeps, ClearEndKeeps DEF Process
<1>5. CASE \E f \in Fds : NetworkEvent(f)
  BY <1>5, NetworkKeeps
<1> QED
  BY <1>1, <1>2, <1>3, <1>4, <1>5, WakeKeeps, WaitBeginsKeeps, WaitEndsKeeps DEF Next

LEMMA InvAlways == Spec => []Inv
<1>1. Inv /\ [Next]_vars => Inv'
  BY NextKeeps
<1> QED
  BY <1>1, InvInit, PTL DEF Spec

(* The values of the variables: the table is never left, also not by the   *)
(* exchange of its places, and a socket is selected with an object of it.  *)
THEOREM TypeCorrect == Spec => []TypeOK
<1>1. Inv => TypeOK
  BY DEF Inv, Types, TypeOK, Places, Object, NetEvents, Selection
<1> QED
  BY <1>1, InvAlways, PTL

(* poll_looper_destroy closes every event object, each once: whatever is   *)
(* registered, unregistered and moved, the objects stand in front of the   *)
(* first NULL, and no object is lost or doubled.                           *)
THEOREM ObjectsStay == Spec => []ObjectsAreKept
<1>1. Inv => ObjectsAreKept
  BY DEF Inv, Objects
<1> QED
  BY <1>1, InvAlways, PTL

(* A context that a user waits with is in the table, its socket is there   *)
(* once, and is selected with the object of its place and for what was     *)
(* asked, before, during and after the closing of holes, whichever calls   *)
(* of Winsock fail; what else is in the table was refused.                 *)
THEOREM TableAgrees == Spec => []SelectedWhereItStands
<1>1. Inv => SelectedWhereItStands
  BY DEF Inv
<1> QED
  BY <1>1, InvAlways, PTL

(* The network's news of a socket whose registration was accepted reach    *)
(* the main thread, also where the waiting thread looks at an older and    *)
(* shorter table, unless Winsock refuses to tell them.                     *)
THEOREM WakesArrive == Spec => []NoLostWake
<1>1. Inv => NoLostWake
  BY DEF Inv, Noted, Woken, NoLostWake
<1> QED
  BY <1>1, InvAlways, PTL

(* A callback runs for a context that a user waits with, and for no event  *)
(* that was not asked for, or for one whose registration was refused, with *)
(* the callback and the data given last; if users who register a context   *)
(* again, while it is in the table, give them as before (line 201).        *)
THEOREM CallsAreAsked == ASSUME KeepsData PROVE Spec => CalledAsAsked
<1> DEFINE Asked == called' # NULL /\ called' # called =>
             LET c == called'.ctx
             IN  /\ asked[c] # NULL \/ c \in refused
                 /\ asked[c] # NULL => \/ called'.events \subseteq asked[c] \cup {"error"}
                                       \/ "close" \in noted[FdOf[c]]
                 /\ pctx[c].udata = given[c]
<1>1. ASSUME Inv, ProcessEvent, called' # NULL
      PROVE  Asked
  <2> DEFINE c == pollctxs[hand]
  <2>1. /\ hand # NULL /\ c # NULL
        /\ \/ \E failed \in SUBSET noted[FdOf[c]] :
                called' = [ctx |-> c, events |-> PollEvents(noted[FdOf[c]], failed)]
           \/ called' = [ctx |-> c, events |-> {"error"}]
    BY <1>1 DEF ProcessEvent, Enumerated, NotEnumerated, Call, CloseHoles
  <2>2. hand \in InUse
    BY <1>1, <2>1, HandInUse
  <2>3. /\ c \in Ctxs /\ (asked[c] # NULL \/ c \in refused)
        /\ asked[c] # NULL => noted[FdOf[c]] \subseteq asked[c] \cup {"close"}
    BY <1>1, <2>2, Used DEF Inv, SelectedWhereItStands, Noted, Mask
  <2>4. pctx[c].udata = given[c]
    BY <1>1, <2>3 DEF Inv, Given
  <2> HIDE DEF c
  <2>5. PICK evs : /\ called' = [ctx |-> c, events |-> evs]
                   /\ \/ evs = {"error"}
                      \/ \E failed \in SUBSET noted[FdOf[c]] : evs = PollEvents(noted[FdOf[c]], failed)
    BY <2>1
  <2>6. called'.ctx = c /\ called'.events = evs
    BY <2>5
  <2>7. asked[c] # NULL /\ "close" \notin noted[FdOf[c]] => evs \subseteq asked[c] \cup {"error"}
    BY <2>3, <2>5 DEF PollEvents
  <2> QED
    BY <2>3, <2>4, <2>6, <2>7
<1>2. Next /\ ~ProcessEvent => called' = NULL \/ called' = called
  BY DEF Next, poll_register, poll_unregister, poll_looper_wake, WaitBegins, poll_looper_wait_events, Process,
         ProcessNobody, CallbackReturns, CloseHoles, ClearStep, ClearEnd, NetworkEvent
<1>3. Inv /\ [Next]_vars => [Asked]_vars
  BY <1>1, <1>2
<1>4. Spec => [][Asked]_vars
  BY <1>3, InvAlways, PTL DEF Spec
<1> QED
  BY <1>4 DEF CalledAsAsked
=============================================================================
