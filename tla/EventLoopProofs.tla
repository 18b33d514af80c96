-------------------------- MODULE EventLoopProofs --------------------------
(***************************************************************************)
(* Type correctness of the event loop, the accounting of connections and   *)
(* sockets, and how far connections exceed their limit, for any number of  *)
(* request structures, any configuration and any number of reloads.        *)
(***************************************************************************)
EXTENDS EventLoop, HandlersProofs, FiniteSetTheorems

(***************************************************************************)
(* What the invariants need beyond themselves: process_requests visits     *)
(* requests of the ready list only, so that a connection is never closed   *)
(* twice, and between select() and the end of the pass pending_requests    *)
(* is set only while the limit allows another connection.                  *)
(***************************************************************************)
WalkOK ==
  /\ pc \in {"handle", "accept", "dispatch"} => todo \subseteq On("ready")
  /\ pc \in {"accept", "dispatch"} => cur \in todo

GateOK ==
  /\ pc = "enter" \/ pc = "select" =>
       ~pending /\ (ServerBit \in watched => total <= maxConn)
  /\ pc \in {"update", "start", "handle", "accept", "dispatch"} =>
       (pending => total <= maxConn)

IndInv == TypeOK /\ Accounting /\ WalkOK /\ GateOK

-----------------------------------------------------------------------------
\* A request counts as live exactly when it is on the ready or block list.
LEMMA LiveSubset == Live \subseteq Req /\ IsFiniteSet(Live)
<1>1. Live \subseteq Req
  BY DEF Live
<1> QED
  BY <1>1, ReqAssumption, FS_Subset

LEMMA WaitsForWaits == ASSUME NEW q PROVE WaitsFor(q) \in Waits
  BY DEF WaitsFor, Waits

LEMMA BitType ==
  ASSUME NEW r \in Req, NEW w \in Waits PROVE BitOf(r, w) \in Bits
  BY DEF BitOf, Bits, Waits, FdRead, FdWrite, DataRead, PostWrite, Roles, Dirs

LEMMA BitOfRequest == ASSUME NEW r \in Req, NEW q PROVE Bit(r, q) \in Bits
  BY WaitsForWaits, BitType DEF Bit

LEMMA BlankType == Blank \in Request
<1>1. 0 \in 0..MaxPipe
  BY MaxPipeAssumption
<1>2. {} \in SUBSET Roles
  OBVIOUS
<1> QED
  BY <1>1, <1>2, WorkFacts, StatusFacts DEF Blank, Request

LEMMA SanitizeType ==
  ASSUME NEW k \in Nat
  PROVE  sanitize_new(k) \in Request /\ sanitize_new(k).open = {"fd"}
<1>1. {"fd"} \in SUBSET Roles
  BY DEF Roles
<1>2. 0 \in 0..MaxPipe
  BY MaxPipeAssumption
<1> QED
  BY <1>1, <1>2, WorkFacts, StatusFacts DEF sanitize_new, Blank, Request

LEMMA CheckedSame ==
  ASSUME NEW q \in Request PROVE Checked(q) \in Same(q)
<1>1. "TIMED_OUT" \in Status \ PipeStatus
  BY StatusFacts
<1> QED
  BY <1>1, SameRefl, SetStatus DEF Checked

LEMMA FinalFlushFlushed ==
  ASSUME NEW q \in Request PROVE FinalFlush(q) \subseteq Flushed(q)
<1>1. [q EXCEPT !.status = "DONE"] \in Same(q)
  BY SameRefl, SetStatus, StatusFacts
<1>2. req_flush([q EXCEPT !.status = "DONE"]) \subseteq Flushed(q)
  BY <1>1, FlushTied
<1>3. Outcome(0, q) \in Flushed(q)
  BY SameRefl DEF Outcome, Flushed
<1> QED
  BY <1>2, <1>3 DEF FinalFlush

LEMMA RearmedType ==
  ASSUME NEW q \in Request, StaysOpen(q)
  PROVE  Rearmed(q) \in Request /\ Rearmed(q).open = {"fd"}
<1>1. {"fd"} \in SUBSET Roles
  BY DEF Roles
<1>2. q.pipe \in 0..MaxPipe /\ q.kacount - 1 \in Nat
  BY DEF Request, StaysOpen
<1>3. FdRead \in Waits
  BY WaitsFacts
<1> QED
  BY <1>1, <1>2, <1>3, WorkFacts, StatusFacts DEF Rearmed, Blank, Request

-----------------------------------------------------------------------------
\* The accounting depends on the lists, the sockets and the count alone.
LEMMA AccountingKept ==
  ASSUME Accounting, total' = total,
         \A r \in Req : r \in Live' <=> r \in Live,
         \A r \in Req : "fd" \in rq'[r].open <=> "fd" \in rq[r].open
  PROVE  Accounting'
<1>1. Live' = Live
  BY DEF Live
<1> QED
  BY <1>1 DEF Accounting

(***************************************************************************)
(* get_request, from any request table that holds the same sockets: an     *)
(* accepted connection is counted once, in a structure that was in no      *)
(* list the walker visits, and pending_requests stays within the limit.    *)
(***************************************************************************)
LEMMA GetRequestOK ==
  ASSUME TypeOK, Accounting, pending => total <= maxConn,
         NEW base \in [Req -> Request],
         \A r \in Req : "fd" \in base[r].open <=> "fd" \in rq[r].open,
         get_request(base), UNCHANGED maxConn
  PROVE  /\ where' \in [Req -> {"none", "free", "ready", "block"}]
         /\ rq' \in [Req -> Request]
         /\ total' \in Int
         /\ pending' \in BOOLEAN
         /\ Accounting'
         /\ pending' => total' <= maxConn'
         /\ total' > total => total <= maxConn
         /\ On("ready") \subseteq On("ready")'
<1> USE ConfigAssumption
<1>0. /\ where \in [Req -> {"none", "free", "ready", "block"}]
      /\ total \in Int /\ pending \in BOOLEAN /\ maxConn \in Nat /\ kaMax \in Nat
  BY DEF TypeOK
<1>1. CASE ~pending /\ rq' = base /\ UNCHANGED <<where, total, pending>>
  <2>1. Accounting'
    BY <1>1, AccountingKept DEF Live
  <2> QED
    BY <1>0, <1>1, <2>1 DEF On
<1>2. CASE pending /\ NobodyThere(base)
  <2>1. Accounting'
    BY <1>2, AccountingKept DEF Live, NobodyThere
  <2> QED
    BY <1>0, <1>2, <2>1 DEF On, NobodyThere
<1>3. CASE pending /\ NotSetUp(base)
  <2>1. \/ where' = where
        \/ \E r \in Req : where[r] \in {"none", "free"} /\ where' = [where EXCEPT ![r] = "free"]
    BY <1>3 DEF NotSetUp, Allocatable, On
  <2>2. Accounting'
    <3>1. \A r \in Req : r \in Live' <=> r \in Live
      BY <1>0, <2>1 DEF Live
    <3> QED
      BY <1>3, <3>1, AccountingKept DEF NotSetUp
  <2> QED
    BY <1>0, <1>3, <2>1, <2>2 DEF On, NotSetUp
<1>4. CASE pending /\ Accepted(base)
  <2>1. PICK r \in Req, unsent \in BOOLEAN :
          /\ where[r] \in {"none", "free"}
          /\ where' = [where EXCEPT ![r] = "ready"]
          /\ total' = total + 1
          /\ pending' = (pending /\ ~OverLimit(total + 1))
          /\ rq' = [base EXCEPT ![r] =
                      IF OverLimit(total + 1)
                      THEN [sanitize_new(kaMax) EXCEPT !.status = "DONE", !.resp = "err",
                                                       !.buf = unsent]
                      ELSE sanitize_new(kaMax)]
    BY <1>4 DEF Accepted, Allocatable, On
  <2>2. rq'[r] \in Request /\ "fd" \in rq'[r].open
    <3>1. sanitize_new(kaMax) \in Request /\ sanitize_new(kaMax).open = {"fd"}
      BY <1>0, SanitizeType
    <3>2. ASSUME NEW q \in Request
          PROVE  /\ [q EXCEPT !.status = "DONE", !.resp = "err", !.buf = unsent] \in Request
                 /\ [q EXCEPT !.status = "DONE", !.resp = "err", !.buf = unsent].open = q.open
      BY StatusFacts DEF Request
    <3> QED
      BY <2>1, <3>1, <3>2
  <2>3. rq' \in [Req -> Request] /\ \A x \in Req \ {r} : rq'[x] = base[x]
    BY <2>1, <2>2
  <2>4. Live' = Live \cup {r} /\ r \notin Live
    BY <1>0, <2>1 DEF Live
  <2>5. Accounting'
    <3>1. Cardinality(Live') = Cardinality(Live) + 1
      BY <2>4, LiveSubset, FS_AddElement
    <3> QED
      BY <2>1, <2>2, <2>3, <2>4, <3>1 DEF Accounting
  <2>6. where' \in [Req -> {"none", "free", "ready", "block"}] /\ On("ready") \subseteq On("ready")'
    BY <1>0, <2>1 DEF On
  <2>7. pending' \in BOOLEAN
    BY <2>1, Zenon
  <2>8. pending' => ~OverLimit(total + 1)
    BY <2>1, Zenon
  <2>9. total' \in Int /\ (pending' => total' <= maxConn')
    BY <1>0, <2>1, <2>8 DEF OverLimit
  <2> QED
    BY <1>4, <2>3, <2>5, <2>6, <2>7, <2>9
<1> QED
  BY <1>1, <1>2, <1>3, <1>4 DEF get_request

-----------------------------------------------------------------------------
LEMMA InitInv == Init => IndInv
<1> SUFFICES ASSUME Init PROVE IndInv
  OBVIOUS
<1>1. TypeOK
  <2>1. where \in [Req -> {"none", "free", "ready", "block"}] /\ rq \in [Req -> Request]
    BY BlankType DEF Init
  <2>2. /\ pending \in BOOLEAN /\ listening \in BOOLEAN /\ sighup \in BOOLEAN
        /\ dropped \in BOOLEAN
    BY Zenon DEF Init
  <2>3. /\ total \in Int /\ sigterm \in 0..2 /\ hups \in 0..MaxHups
        /\ pc \in Locations /\ rv \in RvValues
    BY ConfigAssumption DEF Init, Locations, RvValues
  <2> QED
    BY <2>1, <2>2, <2>3 DEF Init, TypeOK
<1>2. Accounting
  <2>1. Live = {} /\ \A r \in Req : "fd" \notin rq[r].open
    BY DEF Init, Live, Blank
  <2> QED
    BY <2>1, FS_EmptySet DEF Init, Accounting
<1>3. WalkOK /\ GateOK
  BY DEF Init, WalkOK, GateOK
<1> QED
  BY <1>1, <1>2, <1>3 DEF IndInv

\* The steps that leave lists, requests and count alone.
LEMMA QuietSteps ==
  ASSUME IndInv,
         \/ DeliverSigterm \/ DeliverSighup \/ SigtermRun \/ WatchServer
         \/ EnterSelect \/ SelectReturn \/ Exited
  PROVE  IndInv'
<1>1. /\ UNCHANGED <<where, rq, total, maxConn, kaMax, todo, cur, rv>>
      /\ pc' \in {"signals", "enter", "select", "update", "exit", pc}
  BY DEF DeliverSigterm, DeliverSighup, SigtermRun, WatchServer, EnterSelect,
         SelectReturn, Exited, Interrupted, lists, config, walk, vars
<1>2. Accounting'
  BY <1>1, AccountingKept DEF IndInv, Live
<1>3. TypeOK'
  <2>1. watched' \subseteq Bits /\ covered' \subseteq Bits
    BY DEF DeliverSigterm, DeliverSighup, SigtermRun, WatchServer, EnterSelect,
           SelectReturn, Exited, BOA_FD_SET, fdsets, vars, IndInv, TypeOK, Bits
  <2>2. pc' \in Locations
    BY <1>1 DEF IndInv, TypeOK, Locations
  <2>3. hups' \in 0..MaxHups /\ sigterm' \in 0..2
    BY ConfigAssumption
       DEF DeliverSigterm, DeliverSighup, SigtermRun, WatchServer, EnterSelect,
           SelectReturn, Exited, signals, vars, IndInv, TypeOK
  <2>4. /\ pending' \in BOOLEAN /\ sighup' \in BOOLEAN
        /\ listening' \in BOOLEAN /\ dropped' \in BOOLEAN
    BY Zenon DEF DeliverSigterm, DeliverSighup, SigtermRun, WatchServer, EnterSelect,
           SelectReturn, Exited, signals, vars, IndInv, TypeOK
  <2> QED
    BY <1>1, <2>1, <2>2, <2>3, <2>4 DEF IndInv, TypeOK
<1>4. WalkOK'
  BY <1>1 DEF IndInv, WalkOK, On
<1>5. GateOK'
  <2>1. CASE DeliverSigterm \/ DeliverSighup \/ EnterSelect \/ Exited
    BY <2>1 DEF DeliverSigterm, DeliverSighup, EnterSelect, Exited, Interrupted,
                lists, config, fdsets, vars, IndInv, GateOK
  <2>2. CASE SigtermRun \/ WatchServer
    <3>1. total \in Int /\ maxConn \in Int
      BY ConfigAssumption DEF IndInv, TypeOK
    <3>2. pc' \in {"enter", "exit"} /\ pending' = FALSE
      BY <2>2 DEF SigtermRun, WatchServer
    <3>3. ServerBit \in watched' => total <= maxConn
      BY <2>2, <3>1 DEF SigtermRun, WatchServer, BOA_FD_SET
    <3> QED
      BY <1>1, <3>2, <3>3 DEF GateOK
  <2>3. CASE SelectReturn
    <3>1. pc' = "update" /\ (pending' => ServerBit \in watched') /\ watched' \subseteq watched
      BY <2>3 DEF SelectReturn
    <3>2. ServerBit \in watched => total <= maxConn
      BY <2>3 DEF SelectReturn, IndInv, GateOK
    <3> QED
      BY <1>1, <3>1, <3>2 DEF GateOK
  <2> QED
    BY <2>1, <2>2, <2>3
<1> QED
  BY <1>2, <1>3, <1>4, <1>5 DEF IndInv

LEMMA SighupRunInv == ASSUME IndInv, SighupRun PROVE IndInv'
<1>1. \A r \in Req : r \in Live' <=> r \in Live
  BY DEF SighupRun, Live
<1>2. Accounting'
  BY <1>1, AccountingKept DEF SighupRun, IndInv
<1>3. TypeOK'
  BY DEF SighupRun, IndInv, TypeOK, fdsets, walk, Locations
<1> QED
  BY <1>2, <1>3 DEF SighupRun, IndInv, WalkOK, GateOK

LEMMA TickInv == ASSUME IndInv, Tick PROVE IndInv'
<1>1. \A r \in Req : rq'[r] \in Same(rq[r])
  <2>1. ASSUME NEW q \in Request PROVE [q EXCEPT !.age = @ + 1] \in Same(q)
    BY DEF Same, Request, Piped
  <2> QED
    BY <2>1, SameRefl DEF Tick, IndInv, TypeOK
<1>2. rq' \in [Req -> Request]
  BY <1>1, SameRequest DEF Tick
<1>3. Accounting'
  BY <1>1, AccountingKept DEF Tick, lists, IndInv, Live, Same
<1>4. TypeOK'
  BY <1>2 DEF Tick, IndInv, TypeOK, lists, config, fdsets, signals, walk
<1> QED
  BY <1>3, <1>4 DEF Tick, IndInv, WalkOK, GateOK, On, lists, config, fdsets, signals, walk

\* Waking requests moves them between two lists that both count.
LEMMA FdsetUpdateInv == ASSUME IndInv, FdsetUpdate PROVE IndInv'
<1> DEFINE woken  == {r \in On("block") : Woken(r)}
           asleep == On("block") \ woken
           again  == {Bit(r, Checked(rq[r])) : r \in asleep}
<1>1. /\ pc = "update"
      /\ where' = [r \in Req |-> IF r \in woken THEN "ready" ELSE where[r]]
      /\ rq' = [r \in Req |-> IF r \in woken THEN [Checked(rq[r]) EXCEPT !.cause = NoWait]
                              ELSE rq[r]]
      /\ watched' \subseteq watched \cup again
      /\ covered' = covered \cup again
      /\ pc' \in {"start", "signals"}
      /\ UNCHANGED <<total, pending, maxConn, kaMax, listening, sigterm, sighup, hups,
                     todo, cur, rv, dropped>>
  BY DEF FdsetUpdate, config, signals, walk
<1>2. woken \subseteq {r \in Req : where[r] = "block"} /\ asleep \subseteq Req
  BY DEF On
<1>3. again \subseteq Bits
  BY <1>2, BitOfRequest
<1> HIDE DEF woken, asleep, again
<1>4. ASSUME NEW r \in Req PROVE rq'[r] \in Same(rq[r])
  <2>1. rq[r] \in Request
    BY DEF IndInv, TypeOK
  <2>2. [Checked(rq[r]) EXCEPT !.cause = NoWait] \in Same(rq[r])
    BY <2>1, CheckedSame DEF Same, Request, Piped
  <2> QED
    BY <1>1, <2>1, <2>2, SameRefl
<1>5. Accounting'
  <2>1. \A r \in Req : r \in Live' <=> r \in Live
    BY <1>1, <1>2 DEF Live
  <2> QED
    BY <1>1, <1>4, <2>1, AccountingKept DEF IndInv, Same
<1>6. TypeOK'
  <2>1. rq' \in [Req -> Request]
    BY <1>1, <1>4, SameRequest
  <2>2. where' \in [Req -> {"none", "free", "ready", "block"}]
    BY <1>1 DEF IndInv, TypeOK
  <2> QED
    BY <1>1, <1>3, <2>1, <2>2 DEF IndInv, TypeOK, Locations
<1> QED
  BY <1>1, <1>5, <1>6 DEF IndInv, WalkOK, GateOK

LEMMA StartPassInv ==
  ASSUME IndInv, StartPass PROVE IndInv' /\ (total' > total => total <= maxConn)
<1>1. /\ rq \in [Req -> Request] /\ TypeOK /\ Accounting
      /\ pending => total <= maxConn
      /\ get_request(rq) /\ UNCHANGED maxConn
  BY DEF StartPass, config, IndInv, TypeOK, GateOK
<1>2. /\ where' \in [Req -> {"none", "free", "ready", "block"}]
      /\ rq' \in [Req -> Request]
      /\ total' \in Int
      /\ pending' \in BOOLEAN
      /\ Accounting'
      /\ pending' => total' <= maxConn'
      /\ total' > total => total <= maxConn
  BY <1>1, GetRequestOK
<1>3. TypeOK'
  BY <1>2 DEF StartPass, IndInv, TypeOK, On, config, fdsets, signals, Locations
<1>4. WalkOK' /\ GateOK'
  BY <1>2 DEF StartPass, WalkOK, GateOK, On
<1> QED
  BY <1>2, <1>3, <1>4 DEF IndInv

LEMMA AfterHandlerInv ==
  ASSUME IndInv, AfterHandler PROVE IndInv' /\ (total' > total => total <= maxConn)
<1> DEFINE base == [rq EXCEPT ![cur] = SquashKa(@)]
<1>1. cur \in Req /\ rq \in [Req -> Request]
  BY DEF AfterHandler, IndInv, TypeOK, WalkOK, On
<1>2. SquashKa(rq[cur]) \in Same(rq[cur])
  BY <1>1, SameRefl, SetAnswer DEF SquashKa
<1>3. /\ base \in [Req -> Request]
      /\ \A r \in Req : "fd" \in base[r].open <=> "fd" \in rq[r].open
  BY <1>1, <1>2 DEF Same
<1>4. TypeOK /\ Accounting /\ (pending => total <= maxConn) /\ get_request(base)
      /\ UNCHANGED maxConn
  BY DEF AfterHandler, config, IndInv, GateOK
<1> HIDE DEF base
<1>5. /\ where' \in [Req -> {"none", "free", "ready", "block"}]
      /\ rq' \in [Req -> Request]
      /\ total' \in Int
      /\ pending' \in BOOLEAN
      /\ Accounting'
      /\ pending' => total' <= maxConn'
      /\ total' > total => total <= maxConn
      /\ On("ready") \subseteq On("ready")'
  BY <1>3, <1>4, GetRequestOK
<1>6. TypeOK'
  BY <1>5 DEF AfterHandler, IndInv, TypeOK, config, fdsets, signals, walk, Locations
<1>7. WalkOK' /\ GateOK'
  BY <1>5 DEF AfterHandler, IndInv, WalkOK, GateOK, walk
<1> QED
  BY <1>5, <1>6, <1>7 DEF IndInv

LEMMA HandleRequestInv == ASSUME IndInv, HandleRequest PROVE IndInv'
<1>1. PICK r \in todo : \E o \in Handle(rq[r]) :
        cur' = r /\ rv' = o.rv /\ rq' = [rq EXCEPT ![r] = o.q]
  BY DEF HandleRequest
<1>2. PICK o \in Handle(rq[r]) : cur' = r /\ rv' = o.rv /\ rq' = [rq EXCEPT ![r] = o.q]
  BY <1>1
<1>3. r \in Req /\ rq \in [Req -> Request]
  BY DEF IndInv, TypeOK
<1>4. o \in Tied(rq[r])
  BY <1>3, HandleTied
<1>5. o.rv \in RvValues /\ o.q \in Same(rq[r])
  BY <1>4 DEF Tied, RvValues
<1>6. /\ rq' \in [Req -> Request]
      /\ \A x \in Req : "fd" \in rq'[x].open <=> "fd" \in rq[x].open
  BY <1>2, <1>3, <1>5 DEF Same
<1>7. Accounting'
  BY <1>6, AccountingKept DEF HandleRequest, lists, IndInv, Live
<1>8. TypeOK'
  BY <1>2, <1>3, <1>5, <1>6
     DEF HandleRequest, IndInv, TypeOK, lists, config, fdsets, signals, Locations
<1>9. WalkOK' /\ GateOK'
  BY <1>2 DEF HandleRequest, IndInv, WalkOK, GateOK, On, lists, config
<1> QED
  BY <1>7, <1>8, <1>9 DEF IndInv

-----------------------------------------------------------------------------
\* What every case of the switch has in common.
LEMMA NextRequestFacts ==
  ASSUME IndInv, NextRequest
  PROVE  /\ pc = "dispatch" /\ cur \in Req /\ where[cur] = "ready" /\ cur \in Live
         /\ "fd" \in rq[cur].open
         /\ rq[cur] \in Request
         /\ todo' = todo \ {cur}
         /\ pc' \in {"signals", "handle"}
         /\ cur' = NoReq /\ rv' = 0
         /\ UNCHANGED <<pending, maxConn, kaMax, listening, sigterm, sighup, hups>>
  BY DEF NextRequest, IndInv, TypeOK, WalkOK, Accounting, On, Live, config, signals

\* A case that moves or changes the visited request only, and is fair to the
\* accounting, keeps the invariant.
LEMMA DispatchInv ==
  ASSUME IndInv, NextRequest,
         \A r \in Req \ {cur} : where'[r] = where[r] /\ rq'[r] = rq[r],
         where' \in [Req -> {"none", "free", "ready", "block"}],
         rq' \in [Req -> Request],
         watched' \subseteq Bits, covered' \subseteq Bits, dropped' \in BOOLEAN,
         \/ total' = total /\ cur \in Live' /\ "fd" \in rq'[cur].open
         \/ total' = total - 1 /\ cur \notin Live' /\ "fd" \notin rq'[cur].open
  PROVE  IndInv'
<1> USE NextRequestFacts
<1>1. total \in Int /\ maxConn \in Int
  BY ConfigAssumption DEF IndInv, TypeOK
<1>2. Accounting'
  <2>1. CASE total' = total /\ cur \in Live' /\ "fd" \in rq'[cur].open
    <3>1. \A r \in Req : r \in Live' <=> r \in Live
      BY <2>1 DEF Live
    <3> QED
      BY <2>1, <3>1, AccountingKept DEF IndInv
  <2>2. CASE total' = total - 1 /\ cur \notin Live' /\ "fd" \notin rq'[cur].open
    <3>1. Live' = Live \ {cur}
      BY <2>2 DEF Live
    <3>2. Cardinality(Live') = Cardinality(Live) - 1
      BY <3>1, LiveSubset, FS_RemoveElement
    <3> QED
      BY <2>2, <3>1, <3>2 DEF IndInv, Accounting
  <2> QED
    BY <2>1, <2>2
<1>3. TypeOK'
  <2>1. total' \in Int /\ rv' \in RvValues /\ pc' \in Locations
    BY <1>1 DEF RvValues, Locations
  <2> QED
    BY <2>1 DEF IndInv, TypeOK
<1>4. WalkOK'
  <2>1. \A r \in todo' : r \in Req \ {cur} /\ where'[r] = "ready"
    BY DEF IndInv, TypeOK, WalkOK, On
  <2> QED
    BY <2>1 DEF WalkOK, On
<1>5. GateOK'
  <2>1. pending => total <= maxConn
    BY DEF IndInv, GateOK
  <2> QED
    BY <1>1, <2>1 DEF GateOK
<1> QED
  BY <1>2, <1>3, <1>4, <1>5 DEF IndInv

LEMMA BlockRequestInv == ASSUME IndInv, BlockRequest PROVE IndInv'
<1>0. NextRequest
  BY DEF BlockRequest
<1>1. Bit(cur, rq[cur]) \in Bits
  BY <1>0, NextRequestFacts, BitOfRequest
<1>2. /\ \A r \in Req \ {cur} : where'[r] = where[r] /\ rq'[r] = rq[r]
      /\ where' \in [Req -> {"none", "free", "ready", "block"}] /\ where'[cur] = "block"
      /\ rq' \in [Req -> Request] /\ rq' = rq /\ total' = total /\ dropped' \in BOOLEAN
  BY <1>0, NextRequestFacts DEF BlockRequest, IndInv, TypeOK
<1>3. watched' \subseteq Bits /\ covered' \subseteq Bits
  BY <1>1 DEF BlockRequest, BOA_FD_SET, IndInv, TypeOK
<1>4. cur \in Live' /\ "fd" \in rq'[cur].open
  BY <1>0, <1>2, NextRequestFacts DEF Live
<1> QED
  BY <1>0, <1>2, <1>3, <1>4, DispatchInv

LEMMA StayReadyInv ==
  ASSUME IndInv, NextRequest, NEW q \in Same(rq[cur]), rq' = [rq EXCEPT ![cur] = q],
         UNCHANGED <<where, total, watched, covered, dropped>>
  PROVE  IndInv'
<1>1. /\ \A r \in Req \ {cur} : where'[r] = where[r] /\ rq'[r] = rq[r]
      /\ rq' \in [Req -> Request] /\ "fd" \in rq'[cur].open
  BY NextRequestFacts, SameRequest DEF IndInv, TypeOK, Same
<1>2. cur \in Live'
  BY NextRequestFacts DEF Live
<1>3. /\ where' \in [Req -> {"none", "free", "ready", "block"}] /\ dropped' \in BOOLEAN
      /\ watched' \subseteq Bits /\ covered' \subseteq Bits
  BY DEF IndInv, TypeOK
<1> QED
  BY <1>1, <1>2, <1>3, DispatchInv

LEMMA SetAge == ASSUME NEW q, NEW p \in Same(q) PROVE [p EXCEPT !.age = 0] \in Same(q)
  BY DEF Same, Request, Piped

LEMMA KeepReadyInv == ASSUME IndInv, KeepReady \/ UnknownRetval PROVE IndInv'
<1>0. NextRequest /\ UNCHANGED <<where, total, watched, covered, dropped>>
  BY DEF KeepReady, UnknownRetval, lists, fdsets
<1>1. rq[cur] \in Same(rq[cur])
  BY <1>0, NextRequestFacts, SameRefl
<1>2. CASE KeepReady
  <2>1. rq' = [rq EXCEPT ![cur] = [rq[cur] EXCEPT !.age = 0]]
    BY <1>2 DEF KeepReady
  <2>2. [rq[cur] EXCEPT !.age = 0] \in Same(rq[cur])
    BY <1>1, SetAge
  <2> QED
    BY <1>0, <2>1, <2>2, StayReadyInv
<1>3. CASE UnknownRetval
  <2>1. rq' = [rq EXCEPT ![cur] = [rq[cur] EXCEPT !.status = "DEAD"]]
    BY <1>3 DEF UnknownRetval
  <2>2. [rq[cur] EXCEPT !.status = "DEAD"] \in Same(rq[cur])
    BY <1>1, SetStatus, StatusFacts
  <2> QED
    BY <1>0, <2>1, <2>2, StayReadyInv
<1> QED
  BY <1>2, <1>3

LEMMA FreeRequestInv == ASSUME IndInv, FreeRequest PROVE IndInv'
<1>0. NextRequest
  BY DEF FreeRequest
<1>1. PICK o \in FinalFlush(rq[cur]) :
        \/ o.rv > 0 /\ StillFlushing(o.q)
        \/ /\ o.rv <= 0
           /\ KeepAlive(o.q) \/ CloseConnection(o.q)
           /\ dropped' = (o.rv = -1)
  BY DEF FreeRequest
<1>2. o.q \in Same(rq[cur]) /\ o.q \in Request
  BY <1>0, NextRequestFacts, FinalFlushFlushed, SameRequest DEF Flushed
<1>3. /\ BitOf(cur, FdRead) \in Bits
      /\ rq \in [Req -> Request] /\ where \in [Req -> {"none", "free", "ready", "block"}]
      /\ watched \subseteq Bits /\ covered \subseteq Bits
  BY <1>0, NextRequestFacts, BitType, WaitsFacts DEF IndInv, TypeOK
<1>4. CASE StillFlushing(o.q)
  <2>1. [o.q EXCEPT !.age = 0] \in Same(rq[cur])
    BY <1>2, SetAge
  <2> QED
    BY <1>0, <1>4, <2>1, StayReadyInv DEF StillFlushing, lists, fdsets
<1>5. CASE KeepAlive(o.q) /\ dropped' = (o.rv = -1)
  <2>1. Rearmed(o.q) \in Request /\ Rearmed(o.q).open = {"fd"}
    BY <1>2, <1>5, RearmedType DEF KeepAlive
  <2>2. rq' \in [Req -> Request] /\ "fd" \in rq'[cur].open
        /\ \A r \in Req \ {cur} : rq'[r] = rq[r]
    BY <1>0, <1>3, <1>5, <2>1, NextRequestFacts DEF KeepAlive
  <2>3. /\ where' \in [Req -> {"none", "free", "ready", "block"}] /\ cur \in Live'
        /\ \A r \in Req \ {cur} : where'[r] = where[r]
    BY <1>0, <1>3, <1>5, NextRequestFacts DEF KeepAlive, Live
  <2>4. watched' \subseteq Bits /\ covered' \subseteq Bits /\ total' = total
    BY <1>3, <1>5 DEF KeepAlive
  <2>5. dropped' \in BOOLEAN
    BY <1>5, Zenon
  <2> QED
    BY <1>0, <2>2, <2>3, <2>4, <2>5, DispatchInv
<1>6. CASE CloseConnection(o.q) /\ dropped' = (o.rv = -1)
  <2>1. rq' \in [Req -> Request] /\ "fd" \notin rq'[cur].open
        /\ \A r \in Req \ {cur} : rq'[r] = rq[r]
    <3>1. rq' = [rq EXCEPT ![cur] = Blank]
      BY <1>6 DEF CloseConnection
    <3>2. Blank.open = {}
      BY DEF Blank
    <3> QED
      BY <1>0, <1>3, <3>1, <3>2, BlankType, NextRequestFacts
  <2>2. /\ where' \in [Req -> {"none", "free", "ready", "block"}] /\ cur \notin Live'
        /\ \A r \in Req \ {cur} : where'[r] = where[r]
    BY <1>0, <1>3, <1>6, NextRequestFacts DEF CloseConnection, Live
  <2>3. watched' \subseteq Bits /\ covered' \subseteq Bits /\ total' = total - 1
    BY <1>3, <1>6 DEF CloseConnection
  <2>4. dropped' \in BOOLEAN
    BY <1>6, Zenon
  <2> QED
    BY <1>0, <2>1, <2>2, <2>3, <2>4, DispatchInv
<1> QED
  BY <1>1, <1>4, <1>5, <1>6

-----------------------------------------------------------------------------
LEMMA StepInv == ASSUME IndInv, [Next]_vars PROVE IndInv'
<1>1. CASE UNCHANGED vars
  BY <1>1 DEF vars, IndInv, TypeOK, Accounting, WalkOK, GateOK, On, Live
<1>2. CASE Next
  BY <1>2, QuietSteps, SighupRunInv, TickInv, FdsetUpdateInv, StartPassInv,
     HandleRequestInv, AfterHandlerInv, BlockRequestInv, KeepReadyInv, FreeRequestInv
     DEF Next, LoopStep
<1> QED
  BY <1>1, <1>2

THEOREM Invariance == Spec => []IndInv
<1>1. IndInv /\ [Next]_vars => IndInv'
  BY StepInv
<1> QED
  BY InitInv, <1>1, PTL DEF Spec

\* Every variable of the loop keeps its type: in particular kacount never
\* goes below zero and every handler returns a value the switch knows.
THEOREM TypeCorrect == Spec => []TypeOK
<1>1. IndInv => TypeOK
  BY DEF IndInv
<1> QED
  BY <1>1, Invariance, PTL

\* total_connections equals the number of requests on the ready and block
\* lists, and those are the ones that hold a client socket.
THEOREM AccountingHolds == Spec => []Accounting
<1>1. IndInv => Accounting
  BY DEF IndInv
<1> QED
  BY <1>1, Invariance, PTL

\* A connection is accepted only while the ones open do not exceed
\* MaxConnections.
AcceptsOneBeyond == [][total' > total => total <= maxConn]_vars

\* get_request and loop() accept one connection beyond MaxConnections, never
\* a second one, whatever a reload does to the limit: what is left of the
\* documented limit, which the code does not keep.
THEOREM NeverTwoBeyond == Spec => AcceptsOneBeyond
<1>1. ASSUME IndInv, [Next]_vars PROVE [total' > total => total <= maxConn]_vars
  <2>0. total \in Int
    BY <1>1 DEF IndInv, TypeOK
  <2>1. CASE StartPass \/ AfterHandler
    BY <1>1, <2>1, StartPassInv, AfterHandlerInv
  <2>2. CASE FreeRequest
    <3>1. total' = total \/ total' = total - 1
      BY <2>2 DEF FreeRequest, StillFlushing, KeepAlive, CloseConnection, lists
    <3> QED
      BY <2>0, <3>1
  <2>3. CASE \/ UNCHANGED vars \/ SighupRun \/ SigtermRun \/ WatchServer \/ EnterSelect
             \/ FdsetUpdate \/ HandleRequest \/ BlockRequest \/ KeepReady
             \/ UnknownRetval \/ SelectReturn \/ Tick
             \/ DeliverSigterm \/ DeliverSighup \/ Exited
    <3>1. total' = total
      BY <2>3 DEF vars, SighupRun, SigtermRun, WatchServer, EnterSelect, FdsetUpdate,
                  HandleRequest, BlockRequest, KeepReady, UnknownRetval, SelectReturn,
                  Tick, DeliverSigterm, DeliverSighup, Exited, lists
    <3> QED
      BY <2>0, <3>1
  <2> QED
    BY <1>1, <2>1, <2>2, <2>3 DEF Next, LoopStep
<1> QED
  BY <1>1, Invariance, PTL DEF Spec, AcceptsOneBeyond
=============================================================================
