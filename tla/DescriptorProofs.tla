-------------------------- MODULE DescriptorProofs --------------------------
(***************************************************************************)
(* What the event loop sleeps on: the sets handed to select(), the         *)
(* descriptor each blocked request waits for, and how a connection between *)
(* two requests is recognised, for any number of request structures.       *)
(*                                                                         *)
(* A request is followed through the steps of the loop first (Moves); the  *)
(* invariants about single requests are read off that.  The sets are the   *)
(* subject of SetsOK below.                                                *)
(***************************************************************************)
EXTENDS EventLoopProofs

\* Equal in everything but age and keepalive.
Alike(p, q) ==
  /\ p.status = q.status /\ p.buf = q.buf /\ p.open = q.open /\ p.cause = q.cause
  /\ p.kacount = q.kacount /\ p.reused = q.reused

\* What a step may do to request r.
Stays(r) ==
  /\ where'[r] = where[r] \/ {where[r], where'[r]} \subseteq {"none", "free"}
  /\ Alike(rq'[r], rq[r])

Wakes(r) ==
  /\ where[r] = "block" /\ where'[r] = "ready"
  /\ rq'[r] = [Checked(rq[r]) EXCEPT !.cause = NoWait]

Starts(r) ==
  /\ where[r] \in {"none", "free"} /\ where'[r] = "ready"
  /\ rq'[r].status \in {"READ_HEADER", "DONE"}
  /\ rq'[r].kacount = kaMax /\ rq'[r].reused = FALSE

Runs(r) ==
  /\ pc' = "accept" /\ cur' = r
  /\ where[r] = "ready" /\ where'[r] = "ready"
  /\ \E o \in Handle(rq[r]) : rv' = o.rv /\ rq'[r] = o.q

Sleeps(r) ==
  /\ pc = "dispatch" /\ r = cur /\ rv = -1
  /\ where[r] = "ready" /\ where'[r] = "block"
  /\ rq'[r] = rq[r]

Ends(r) ==
  /\ where[r] = "ready" /\ where'[r] = "ready"
  /\ rq'[r].status \in {"DEAD", "DONE"}
  /\ rq'[r].kacount = rq[r].kacount /\ rq'[r].reused = rq[r].reused

Rearms(r) ==
  /\ where[r] = "ready" /\ where'[r] = "block"
  /\ \E q \in Same(rq[r]) : StaysOpen(q) /\ rq'[r] = Rearmed(q)

Closes(r) == where'[r] = "free" /\ rq'[r] = Blank

Moved(r) ==
  \/ Stays(r) \/ Wakes(r) \/ Starts(r) \/ Runs(r)
  \/ Sleeps(r) \/ Ends(r) \/ Rearms(r) \/ Closes(r)

\* The visited request and its return value come from its handler.
Visits ==
  pc' \in {"accept", "dispatch"} =>
    \/ cur' \in Req /\ Runs(cur')
    \/ pc \in {"accept", "dispatch"} /\ cur' = cur /\ rv' = rv /\ cur \in Req /\ Stays(cur)

Moves == Visits /\ \A r \in Req : Moved(r)

-----------------------------------------------------------------------------
\* A new connection is in a structure nobody used, and the others are as
\* they were.
LEMMA GetRequestMoves ==
  ASSUME TypeOK, NEW base \in [Req -> Request], get_request(base)
  PROVE  \A r \in Req :
           \/ /\ rq'[r] = base[r]
              /\ where'[r] = where[r] \/ {where[r], where'[r]} \subseteq {"none", "free"}
           \/ Starts(r)
<1>0. /\ where \in [Req -> {"none", "free", "ready", "block"}] /\ kaMax \in Nat
  BY ConfigAssumption DEF TypeOK
<1>1. CASE rq' = base /\ where' = where
  BY <1>1
<1>2. CASE NotSetUp(base)
  <2>1. \/ where' = where
        \/ \E r \in Req : where[r] \in {"none", "free"} /\ where' = [where EXCEPT ![r] = "free"]
    BY <1>2 DEF NotSetUp, Allocatable, On
  <2>2. rq' = base
    BY <1>2 DEF NotSetUp
  <2> QED
    BY <1>0, <2>1, <2>2
<1>3. CASE Accepted(base)
  <2> DEFINE new(unsent) == [sanitize_new(kaMax) EXCEPT !.status = "DONE", !.resp = "err",
                                                        !.buf = unsent]
  <2>1. PICK r \in Req, unsent \in BOOLEAN :
          /\ where[r] \in {"none", "free"}
          /\ where' = [where EXCEPT ![r] = "ready"]
          /\ rq' = [base EXCEPT ![r] = IF OverLimit(total + 1) THEN new(unsent)
                                       ELSE sanitize_new(kaMax)]
    BY <1>3 DEF Accepted, Allocatable, On
  <2>2. /\ sanitize_new(kaMax).status = "READ_HEADER" /\ sanitize_new(kaMax).kacount = kaMax
        /\ sanitize_new(kaMax).reused = FALSE
    BY DEF sanitize_new, Blank
  <2>3. /\ new(unsent).status = "DONE" /\ new(unsent).kacount = kaMax
        /\ new(unsent).reused = FALSE
    BY DEF sanitize_new, Blank
  <2> HIDE DEF new
  <2>4. rq'[r] \in {new(unsent), sanitize_new(kaMax)} /\ where'[r] = "ready"
    BY <1>0, <2>1
  <2>5. Starts(r)
    BY <2>1, <2>2, <2>3, <2>4 DEF Starts
  <2>6. \A x \in Req \ {r} : rq'[x] = base[x] /\ where'[x] = where[x]
    BY <1>0, <2>1
  <2> QED
    BY <2>5, <2>6
<1> QED
  BY <1>1, <1>2, <1>3 DEF get_request, NobodyThere

LEMMA StaysSame ==
  ASSUME NEW r, where'[r] = where[r], rq'[r] = rq[r] PROVE Stays(r)
  BY DEF Stays, Alike

\* The steps that touch no request.
LEMMA QuietMoves ==
  ASSUME IndInv,
         \/ DeliverSigterm \/ DeliverSighup \/ SigtermRun \/ WatchServer
         \/ EnterSelect \/ SelectReturn \/ Exited \/ UNCHANGED vars
  PROVE  Moves
<1>1. /\ UNCHANGED <<where, rq, cur, rv>>
      /\ pc' \in {"signals", "enter", "select", "update", "exit", pc}
  BY DEF DeliverSigterm, DeliverSighup, SigtermRun, WatchServer, EnterSelect,
         SelectReturn, Exited, Interrupted, lists, config, walk, vars
<1>2. \A r \in Req : Stays(r)
  BY <1>1, StaysSame
<1>3. Visits
  BY <1>1, <1>2 DEF Visits, IndInv, WalkOK, TypeOK
<1> QED
  BY <1>2, <1>3 DEF Moves, Moved

LEMMA SighupMoves == ASSUME IndInv, SighupRun PROVE Moves
<1>1. \A r \in Req : Stays(r)
  BY DEF SighupRun, Stays, Alike
<1>2. Visits
  BY DEF SighupRun, Visits
<1> QED
  BY <1>1, <1>2 DEF Moves, Moved

LEMMA TickMoves == ASSUME IndInv, Tick PROVE Moves
<1>1. ASSUME NEW q \in Request PROVE Alike([q EXCEPT !.age = @ + 1], q)
  BY DEF Alike, Request
<1>2. ASSUME NEW r \in Req PROVE Stays(r)
  <2>1. rq[r] \in Request /\ where' = where
    BY DEF Tick, lists, IndInv, TypeOK
  <2>2. rq'[r] = rq[r] \/ rq'[r] = [rq[r] EXCEPT !.age = @ + 1]
    BY DEF Tick
  <2>3. Alike(rq'[r], rq[r])
    BY <1>1, <2>1, <2>2 DEF Alike
  <2> QED
    BY <2>1, <2>3 DEF Stays
<1>3. Visits
  BY DEF Tick, Visits
<1> QED
  BY <1>2, <1>3 DEF Moves, Moved

LEMMA UpdateMoves == ASSUME IndInv, FdsetUpdate PROVE Moves
<1> DEFINE woken == {r \in On("block") : Woken(r)}
<1>1. /\ where' = [r \in Req |-> IF r \in woken THEN "ready" ELSE where[r]]
      /\ rq' = [r \in Req |-> IF r \in woken THEN [Checked(rq[r]) EXCEPT !.cause = NoWait]
                              ELSE rq[r]]
      /\ pc' \in {"start", "signals"}
  BY DEF FdsetUpdate
<1>2. \A r \in woken : where[r] = "block"
  BY DEF On
<1> HIDE DEF woken
<1>3. ASSUME NEW r \in Req PROVE Stays(r) \/ Wakes(r)
  BY <1>1, <1>2, StaysSame DEF Wakes
<1>4. Visits
  BY <1>1 DEF Visits
<1> QED
  BY <1>3, <1>4 DEF Moves, Moved

LEMMA StartMoves ==
  ASSUME IndInv, StartPass
  PROVE  Moves /\ \A r \in Req : Stays(r) \/ Starts(r)
<1>1. TypeOK /\ rq \in [Req -> Request] /\ get_request(rq)
  BY DEF StartPass, IndInv, TypeOK
<1>2. ASSUME NEW r \in Req PROVE Stays(r) \/ Starts(r)
  BY <1>1, GetRequestMoves DEF Stays, Alike
<1>3. Visits
  BY DEF StartPass, Visits
<1> QED
  BY <1>2, <1>3 DEF Moves, Moved

LEMMA HandleMoves ==
  ASSUME IndInv, HandleRequest
  PROVE  Moves /\ \A r \in Req : Stays(r) \/ Runs(r)
<1>1. PICK r \in todo : \E o \in Handle(rq[r]) :
        cur' = r /\ rv' = o.rv /\ rq' = [rq EXCEPT ![r] = o.q]
  BY DEF HandleRequest
<1>2. PICK o \in Handle(rq[r]) : cur' = r /\ rv' = o.rv /\ rq' = [rq EXCEPT ![r] = o.q]
  BY <1>1
<1>3. /\ r \in Req /\ where[r] = "ready" /\ where' = where /\ pc' = "accept"
      /\ rq \in [Req -> Request]
  BY DEF HandleRequest, lists, IndInv, WalkOK, TypeOK, On
<1>4. Runs(r)
  BY <1>2, <1>3 DEF Runs
<1>5. \A x \in Req \ {r} : Stays(x)
  BY <1>2, <1>3, StaysSame
<1> QED
  BY <1>2, <1>3, <1>4, <1>5 DEF Moves, Moved, Visits

LEMMA AfterMoves ==
  ASSUME IndInv, AfterHandler
  PROVE  Moves /\ \A r \in Req : Stays(r) \/ Starts(r)
<1> DEFINE base == [rq EXCEPT ![cur] = SquashKa(@)]
<1>1. cur \in Req /\ rq \in [Req -> Request] /\ where[cur] = "ready" /\ TypeOK
  BY DEF AfterHandler, IndInv, TypeOK, WalkOK, On
<1>2. SquashKa(rq[cur]) \in Request /\ Alike(SquashKa(rq[cur]), rq[cur])
  BY <1>1 DEF SquashKa, Alike, Request
<1>3. base \in [Req -> Request] /\ \A r \in Req : Alike(base[r], rq[r])
  BY <1>1, <1>2 DEF Alike
<1>4. get_request(base) /\ pc = "accept" /\ pc' = "dispatch" /\ cur' = cur /\ rv' = rv
  BY DEF AfterHandler, walk
<1> HIDE DEF base
<1>5. \A r \in Req : \/ /\ rq'[r] = base[r]
                        /\ where'[r] = where[r]
                             \/ {where[r], where'[r]} \subseteq {"none", "free"}
                     \/ Starts(r)
  BY <1>1, <1>3, <1>4, GetRequestMoves
<1>6. \A r \in Req : Stays(r) \/ Starts(r)
  BY <1>3, <1>5 DEF Stays
<1>7. Stays(cur)
  BY <1>1, <1>6 DEF Starts
<1> QED
  BY <1>1, <1>4, <1>6, <1>7 DEF Moves, Moved, Visits

\* The cases of the switch, which touch the visited request only.
LEMMA DispatchMoves ==
  ASSUME IndInv, NextRequest, Moved(cur),
         \A r \in Req \ {cur} : where'[r] = where[r] /\ rq'[r] = rq[r]
  PROVE  Moves
<1>1. Visits
  BY NextRequestFacts DEF Visits
<1>2. \A r \in Req \ {cur} : Stays(r)
  BY StaysSame
<1> QED
  BY <1>1, <1>2 DEF Moves, Moved

LEMMA SwitchMoves ==
  ASSUME IndInv, BlockRequest \/ KeepReady \/ UnknownRetval PROVE Moves
<1>0. NextRequest /\ rq \in [Req -> Request]
      /\ where \in [Req -> {"none", "free", "ready", "block"}]
  BY DEF BlockRequest, KeepReady, UnknownRetval, IndInv, TypeOK
<1>1. cur \in Req /\ where[cur] = "ready" /\ pc = "dispatch" /\ rq[cur] \in Request
  BY <1>0, NextRequestFacts
<1>2. \A r \in Req \ {cur} : where'[r] = where[r] /\ rq'[r] = rq[r]
  BY <1>0, <1>1 DEF BlockRequest, KeepReady, UnknownRetval, lists
<1>3. CASE BlockRequest
  <2>1. Sleeps(cur)
    BY <1>0, <1>1, <1>3 DEF BlockRequest, Sleeps
  <2> QED
    BY <1>0, <1>2, <2>1, DispatchMoves DEF Moved
<1>4. CASE KeepReady
  <2>1. rq'[cur] = [rq[cur] EXCEPT !.age = 0] /\ where' = where
    BY <1>0, <1>1, <1>4 DEF KeepReady, lists
  <2>2. Stays(cur)
    BY <1>1, <2>1 DEF Stays, Alike, Request
  <2> QED
    BY <1>0, <1>2, <2>2, DispatchMoves DEF Moved
<1>5. CASE UnknownRetval
  <2>1. rq'[cur] = [rq[cur] EXCEPT !.status = "DEAD"] /\ where' = where
    BY <1>0, <1>1, <1>5 DEF UnknownRetval, lists
  <2>2. Ends(cur)
    BY <1>1, <2>1 DEF Ends, Request
  <2> QED
    BY <1>0, <1>2, <2>2, DispatchMoves DEF Moved
<1> QED
  BY <1>3, <1>4, <1>5

\* What the last flush leaves: nothing is done to a request whose time was
\* up, and the others are DONE when there was something to flush.
LEMMA FinalFlushFacts ==
  ASSUME NEW q \in Request, NEW o \in FinalFlush(q)
  PROVE  /\ o.q \in Same(q) /\ o.q \in Request
         /\ o.rv > 0 => o.q.status = "DONE" /\ BeforeTimedOut(q)
         /\ ~BeforeTimedOut(q) => o.q = q /\ o.rv = 0
<1>0. o.q \in Same(q) /\ o.q \in Request /\ o.rv \in {-2, -1, 0, 1}
  BY FinalFlushFlushed, SameRequest DEF Flushed
<1> DEFINE d == [q EXCEPT !.status = "DONE"]
<1>1. d \in Request /\ d.status = "DONE"
  BY StatusFacts DEF Request
<1>2. CASE q.buf /\ BeforeTimedOut(q)
  <2>1. o \in req_flush(d)
    BY <1>2 DEF FinalFlush
  <2> HIDE DEF d
  <2>2. o.rv > 0 => o.rv = 1
    BY <1>0
  <2> QED
    BY <1>0, <1>1, <1>2, <2>1, <2>2, FlushStatus
<1>3. CASE ~(q.buf /\ BeforeTimedOut(q))
  <2>1. o = Outcome(0, q)
    BY <1>3 DEF FinalFlush
  <2>2. o.rv = 0 /\ o.q = q
    BY <2>1 DEF Outcome
  <2> QED
    BY <1>0, <2>2
<1> QED
  BY <1>2, <1>3

LEMMA FreeMoves == ASSUME IndInv, FreeRequest PROVE Moves
<1>0. NextRequest /\ rq \in [Req -> Request]
      /\ where \in [Req -> {"none", "free", "ready", "block"}]
  BY DEF FreeRequest, IndInv, TypeOK
<1>1. cur \in Req /\ where[cur] = "ready" /\ pc = "dispatch" /\ rq[cur] \in Request
  BY <1>0, NextRequestFacts
<1>2. PICK o \in FinalFlush(rq[cur]) :
        \/ o.rv > 0 /\ StillFlushing(o.q)
        \/ KeepAlive(o.q) \/ CloseConnection(o.q)
  BY DEF FreeRequest
<1>3. /\ o.q \in Same(rq[cur]) /\ o.q \in Request
      /\ o.rv > 0 => o.q.status = "DONE"
  BY <1>1, FinalFlushFacts
<1>4. \A r \in Req \ {cur} : where'[r] = where[r] /\ rq'[r] = rq[r]
  BY <1>0, <1>1, <1>2 DEF StillFlushing, KeepAlive, CloseConnection, lists
<1>5. CASE o.rv > 0 /\ StillFlushing(o.q)
  <2>1. rq'[cur] = [o.q EXCEPT !.age = 0] /\ where' = where
    BY <1>0, <1>1, <1>5 DEF StillFlushing, lists
  <2>2. Ends(cur)
    BY <1>1, <1>3, <1>5, <2>1 DEF Ends, Same, Request
  <2> QED
    BY <1>0, <1>4, <2>2, DispatchMoves DEF Moved
<1>6. CASE KeepAlive(o.q)
  <2>1. rq'[cur] = Rearmed(o.q) /\ where'[cur] = "block" /\ StaysOpen(o.q)
    BY <1>0, <1>1, <1>6 DEF KeepAlive
  <2>2. Rearms(cur)
    BY <1>1, <1>3, <2>1 DEF Rearms
  <2> QED
    BY <1>0, <1>4, <2>2, DispatchMoves DEF Moved
<1>7. CASE CloseConnection(o.q)
  <2>1. Closes(cur)
    BY <1>0, <1>1, <1>7 DEF CloseConnection, Closes
  <2> QED
    BY <1>0, <1>4, <2>1, DispatchMoves DEF Moved
<1> QED
  BY <1>2, <1>5, <1>6, <1>7

LEMMA MovesAll == ASSUME IndInv, [Next]_vars PROVE Moves
  BY QuietMoves, SighupMoves, TickMoves, UpdateMoves, StartMoves, HandleMoves, AfterMoves,
     SwitchMoves, FreeMoves DEF Next, LoopStep

-----------------------------------------------------------------------------
(***************************************************************************)
(* A connection between two requests is recognised by its count: what a    *)
(* rearmed connection carries is below ka_max, and no step but rearming    *)
(* changes it, as long as a reload does not change ka_max.                 *)
(***************************************************************************)
Counted(r) ==
  IF rq[r].reused THEN rq[r].kacount < kaMax ELSE rq[r].kacount = kaMax

KaInv == \A r \in Live : Counted(r)

LEMMA RearmedCount ==
  ASSUME NEW q \in Request
  PROVE  Rearmed(q).reused = TRUE /\ Rearmed(q).kacount = q.kacount - 1
  BY DEF Rearmed, Blank

LEMMA MovedCounted ==
  ASSUME IndInv, NEW r \in Req, Moved(r), r \in Live', r \in Live => Counted(r),
         kaMax' = kaMax
  PROVE  Counted(r)'
<1>0. rq[r] \in Request /\ kaMax \in Nat /\ rq[r].kacount \in Nat
  BY ConfigAssumption DEF IndInv, TypeOK, Request
<1>1. where'[r] \in {"ready", "block"}
  BY DEF Live
<1>2. CASE Starts(r)
  BY <1>2 DEF Starts, Counted
<1>3. CASE Rearms(r)
  <2>1. PICK q \in Same(rq[r]) : StaysOpen(q) /\ rq'[r] = Rearmed(q)
    BY <1>3 DEF Rearms
  <2>2. q \in Request /\ q.kacount = rq[r].kacount
    BY DEF Same
  <2>3. rq'[r].reused = TRUE /\ rq'[r].kacount = rq[r].kacount - 1
    BY <2>1, <2>2, RearmedCount
  <2>4. rq[r].kacount <= kaMax
    BY <1>0, <1>3 DEF Rearms, Live, Counted
  <2> QED
    BY <1>0, <2>3, <2>4 DEF Counted
<1>4. CASE r \in Live /\ rq'[r].kacount = rq[r].kacount /\ rq'[r].reused = rq[r].reused
  BY <1>4 DEF Counted
<1>5. CASE Closes(r)
  BY <1>1, <1>5 DEF Closes
<1>6. CASE Stays(r) \/ Ends(r)
  BY <1>1, <1>4, <1>6 DEF Stays, Ends, Alike, Live
<1>7. CASE Wakes(r)
  <2>1. Checked(rq[r]) \in Same(rq[r])
    BY <1>0, CheckedSame
  <2>2. rq'[r].kacount = Checked(rq[r]).kacount /\ rq'[r].reused = Checked(rq[r]).reused
    BY <1>7, <2>1 DEF Wakes, Same, Request
  <2>3. rq'[r].kacount = rq[r].kacount /\ rq'[r].reused = rq[r].reused
    BY <2>1, <2>2 DEF Same
  <2> QED
    BY <1>4, <1>7, <2>3 DEF Wakes, Live
<1>8. CASE Runs(r)
  <2>1. PICK o \in Handle(rq[r]) : rq'[r] = o.q
    BY <1>8 DEF Runs
  <2>2. o \in Tied(rq[r])
    BY <1>0, HandleTied
  <2>3. rq'[r].kacount = rq[r].kacount /\ rq'[r].reused = rq[r].reused
    BY <2>1, <2>2 DEF Tied, Same
  <2> QED
    BY <1>4, <1>8, <2>3 DEF Runs, Live
<1>9. CASE Sleeps(r)
  BY <1>4, <1>9 DEF Sleeps, Live
<1> QED
  BY <1>2, <1>3, <1>5, <1>6, <1>7, <1>8, <1>9 DEF Moved

LEMMA KaInvStep ==
  ASSUME NEW k, KaMaxValues = {k}, IndInv, IndInv', KaInv, [Next]_vars PROVE KaInv'
<1>1. kaMax' = kaMax
  BY DEF IndInv, TypeOK
<1>2. \A r \in Req : Moved(r)
  BY MovesAll DEF Moves
<1>3. \A r \in Req : r \in Live' => Counted(r)'
  BY <1>1, <1>2, MovedCounted DEF KaInv
<1> QED
  BY <1>3 DEF KaInv, Live

LEMMA CountedMeans ==
  ASSUME IndInv, KaInv PROVE RecognisesKeepalive
<1> SUFFICES ASSUME NEW r \in Live PROVE rq[r].kacount < kaMax <=> rq[r].reused
  BY DEF RecognisesKeepalive
<1>1. r \in Req /\ Counted(r)
  BY DEF KaInv, Live
<1>2. rq[r].reused \in BOOLEAN /\ rq[r].kacount \in Nat /\ kaMax \in Nat
  BY <1>1, ConfigAssumption DEF IndInv, TypeOK, Request
<1>3. CASE rq[r].reused = TRUE
  BY <1>1, <1>3 DEF Counted
<1>4. CASE rq[r].reused = FALSE
  BY <1>1, <1>2, <1>4 DEF Counted
<1> QED
  BY <1>2, <1>3, <1>4

(***************************************************************************)
(* As long as reloads leave KeepAliveMax alone, the test kacount < ka_max  *)
(* of fdset_update applies the short keepalive timeout to exactly the      *)
(* connections that carried a request before.                              *)
(***************************************************************************)
THEOREM KeepaliveRecognised ==
  ASSUME NEW k, KaMaxValues = {k} PROVE Spec => []RecognisesKeepalive
<1>1. Init => KaInv
  BY DEF Init, KaInv, Live
<1>2. IndInv /\ IndInv' /\ KaInv /\ [Next]_vars => KaInv'
  BY KaInvStep
<1>3. IndInv /\ KaInv => RecognisesKeepalive
  BY CountedMeans
<1> QED
  BY <1>1, <1>2, <1>3, Invariance, PTL DEF Spec

-----------------------------------------------------------------------------
(***************************************************************************)
(* A request that sleeps has the descriptor it sleeps on.                  *)
(***************************************************************************)
Sleeper == pc \in {"accept", "dispatch"} /\ rv = -1

RolesOK ==
  /\ \A r \in Req : Piped(rq[r])
  /\ \A r \in On("block") : Asleep(rq[r])
  /\ Sleeper => Asleep(rq[cur])

LEMMA AlikeRoles ==
  ASSUME NEW p, NEW q, Alike(p, q)
  PROVE  (Piped(q) => Piped(p)) /\ (Asleep(q) => Asleep(p))
  BY DEF Alike, Piped, Asleep

LEMMA SetCauseRoles ==
  ASSUME NEW q \in Request
  PROVE  LET p == [q EXCEPT !.cause = NoWait]
         IN  (Piped(q) => Piped(p)) /\ (Asleep(q) => Asleep(p))
  BY DEF Request, Piped, Asleep

LEMMA RearmedRoles == ASSUME NEW q PROVE Piped(Rearmed(q)) /\ Asleep(Rearmed(q))
  BY DEF Rearmed, Blank, Piped, Asleep, PipeStatus

LEMMA RunsRoles ==
  ASSUME IndInv, NEW r \in Req, Runs(r), Piped(rq[r])
  PROVE  Piped(rq'[r]) /\ (rv' = -1 => Asleep(rq'[r]))
<1>1. PICK o \in Handle(rq[r]) : rv' = o.rv /\ rq'[r] = o.q
  BY DEF Runs
<1>2. rq[r] \in Request
  BY DEF IndInv, TypeOK
<1>3. o \in Tied(rq[r])
  BY <1>2, HandleTied
<1> QED
  BY <1>1, <1>3 DEF Tied, Same

LEMMA MovedRoles ==
  ASSUME IndInv, RolesOK, NEW r \in Req, Moved(r)
  PROVE  Piped(rq'[r]) /\ (where'[r] = "block" => Asleep(rq'[r]))
<1>0. rq[r] \in Request /\ Piped(rq[r]) /\ (where[r] = "block" => Asleep(rq[r]))
  BY DEF IndInv, TypeOK, RolesOK, On
<1>1. CASE Stays(r)
  BY <1>0, <1>1, AlikeRoles DEF Stays
<1>2. CASE Wakes(r)
  <2>1. Checked(rq[r]) \in Same(rq[r])
    BY <1>0, CheckedSame
  <2>2. Checked(rq[r]) \in Request /\ Piped(Checked(rq[r]))
    BY <1>0, <2>1 DEF Same
  <2> QED
    BY <1>2, <2>2, SetCauseRoles DEF Wakes
<1>3. CASE Starts(r)
  BY <1>3 DEF Starts, Piped, PipeStatus
<1>4. CASE Runs(r)
  BY <1>0, <1>4, RunsRoles DEF Runs
<1>5. CASE Sleeps(r)
  BY <1>0, <1>5 DEF Sleeps, RolesOK, Sleeper
<1>6. CASE Ends(r)
  BY <1>6 DEF Ends, Piped, PipeStatus
<1>7. CASE Rearms(r)
  BY <1>7, RearmedRoles DEF Rearms
<1>8. CASE Closes(r)
  BY <1>8 DEF Closes, Blank, Piped, PipeStatus
<1> QED
  BY <1>1, <1>2, <1>3, <1>4, <1>5, <1>6, <1>7, <1>8 DEF Moved

LEMMA RolesInit == Init => RolesOK
  BY DEF Init, RolesOK, On, Sleeper, Blank, Piped, PipeStatus

LEMMA RolesStep == ASSUME IndInv, RolesOK, [Next]_vars PROVE RolesOK'
<1>0. Moves
  BY MovesAll
<1>1. \A r \in Req : Piped(rq'[r]) /\ (where'[r] = "block" => Asleep(rq'[r]))
  BY <1>0, MovedRoles DEF Moves
<1>2. ASSUME Sleeper' PROVE Asleep(rq'[cur'])
  <2>1. CASE cur' \in Req /\ Runs(cur')
    BY <1>2, <2>1, RunsRoles DEF Sleeper, RolesOK
  <2>2. CASE pc \in {"accept", "dispatch"} /\ cur' = cur /\ rv' = rv /\ cur \in Req /\ Stays(cur)
    BY <1>2, <2>2, AlikeRoles DEF Sleeper, RolesOK, Stays
  <2> QED
    BY <1>0, <1>2, <2>1, <2>2 DEF Moves, Visits, Sleeper
<1> QED
  BY <1>1, <1>2 DEF RolesOK, On

LEMMA RolesMean ==
  ASSUME IndInv, RolesOK, NEW r \in On("block")
  PROVE  WaitsFor(rq[r])[1] \in rq[r].open
<1>1. r \in Req /\ r \in Live
  BY DEF On, Live
<1>2. /\ "fd" \in rq[r].open /\ Piped(rq[r]) /\ Asleep(rq[r])
  BY <1>1 DEF IndInv, Accounting, RolesOK
<1>3. WaitsFor(rq[r]) = FdRead \/ WaitsFor(rq[r]) = FdWrite
      \/ (WaitsFor(rq[r]) = DataRead /\ rq[r].status = "PIPE_READ")
      \/ (WaitsFor(rq[r]) = PostWrite /\ rq[r].status = "BODY_WRITE" /\ ~rq[r].buf)
  BY DEF WaitsFor
<1>4. FdRead[1] = "fd" /\ FdWrite[1] = "fd" /\ DataRead[1] = "data" /\ PostWrite[1] = "post"
  BY DEF FdRead, FdWrite, DataRead, PostWrite
<1> HIDE DEF WaitsFor
<1> QED
  BY <1>2, <1>3, <1>4 DEF Piped, Asleep, PipeStatus


-----------------------------------------------------------------------------
(***************************************************************************)
(* Serving files, a request only ever reads the header or writes the       *)
(* answer, and what it waits for follows from its status.  The transfer of *)
(* a program's output, which writes without leaving the reading status, is *)
(* what the hypothesis on Kinds leaves out.                                *)
(***************************************************************************)
FileStatus == {"READ_HEADER", "WRITE", "IOSHUFFLE", "DONE", "TIMED_OUT", "DEAD"}

Caused(q) == q.cause # NoWait => WaitsFor(q) = q.cause \/ q.buf

Filed(o) == o.q.status \in FileStatus /\ (o.rv = -1 => Caused(o.q))

LEMMA FiledOutcomes ==
  ASSUME NEW q, q.status \in FileStatus
  PROVE  Filed(Complete(q)) /\ Filed(MoreToDo(q))
  BY DEF Filed, Complete, MoreToDo, Outcome

LEMMA FiledDied == ASSUME NEW q \in Request PROVE Filed(Died(q))
<1>1. [q EXCEPT !.status = "DEAD"].status \in FileStatus
  BY DEF Request, FileStatus
<1> QED
  BY <1>1, FiledOutcomes DEF Died

LEMMA FiledBlocked ==
  ASSUME NEW q \in Request, q.status \in FileStatus,
         NEW w \in Waits, w = WaitsFor(q) \/ q.buf
  PROVE  Filed(Blocked(q, w))
<1> DEFINE p == [q EXCEPT !.cause = w]
<1>1. p.status = q.status /\ p.buf = q.buf /\ p.cause = w
  BY DEF Request
<1>2. WaitsFor(p) = WaitsFor(q)
  BY <1>1 DEF WaitsFor
<1>3. Caused(p)
  BY <1>1, <1>2 DEF Caused
<1> HIDE DEF p
<1>4. Filed(Outcome(-1, p))
  BY <1>1, <1>3 DEF Filed, Outcome
<1> QED
  BY <1>4 DEF Blocked, p

LEMMA FiledReject ==
  ASSUME NEW q \in Request, q.status \in FileStatus, NEW o \in Reject(q)
  PROVE  Filed(o)
<1>1. PICK x \in send_r(q) : o = Complete(x)
  BY DEF Reject
<1>2. x.status \in {q.status, "DEAD"}
  BY SameRefl, SendStatus
<1> QED
  BY <1>1, <1>2, FiledOutcomes DEF FileStatus

LEMMA FiledGet ==
  ASSUME NEW q \in Request, NEW kind \in FileKinds, NEW o \in init_get(q, kind)
  PROVE  Filed(o)
<1> DEFINE answer == [q EXCEPT !.resp = "ok", !.buf = TRUE, !.left = MaxWork,
                               !.status = "WRITE"]
           whole  == [answer EXCEPT !.status = "DONE"]
           sent   == [answer EXCEPT !.status = "IOSHUFFLE", !.open = @ \cup {"data"}]
           bad    == [q EXCEPT !.status = "WRITE"]
<1>1. answer.status \in FileStatus /\ whole.status \in FileStatus /\ sent.status \in FileStatus
  BY DEF Request, FileStatus
<1>2. bad \in Request /\ bad.status \in FileStatus
  BY DEF Request, FileStatus, Status
<1>3. o \in Reject(bad) \/ o \in {Complete(answer), Complete(whole), MoreToDo(answer),
                                   MoreToDo(sent)}
  BY DEF init_get, FileKinds
<1> HIDE DEF answer, whole, sent, bad
<1> QED
  BY <1>1, <1>2, <1>3, FiledOutcomes, FiledReject

LEMMA FiledMalformed ==
  ASSUME NEW q \in Request, q.status \in FileStatus, NEW o \in Malformed(q)
  PROVE  Filed(o)
<1> DEFINE p == [q EXCEPT !.logline = TRUE]
<1>1. p \in Request /\ p.status = q.status
  BY DEF Request
<1>2. \E x \in {q, p} : o = Complete(x) \/ o \in Reject(x)
  BY DEF Malformed
<1> HIDE DEF p
<1> QED
  BY <1>1, <1>2, FiledOutcomes, FiledReject

LEMMA FiledHeaderEnd ==
  ASSUME Kinds \subseteq FileKinds, NEW q \in Request, NEW kind \in Kinds,
         NEW o \in HeaderEnd(q, kind) \cup process_header_end(q, kind)
  PROVE  Filed(o)
<1>1. /\ kind \in FileKinds
      /\ kind \notin {"silent", "post", "cgi", "script", "gzip", "work"}
  BY DEF FileKinds
<1>2. process_header_end(q, kind) = init_get(q, kind)
  BY <1>1 DEF process_header_end
<1>3. o \in init_get(q, kind)
  BY <1>1, <1>2 DEF HeaderEnd
<1> QED
  BY <1>1, <1>3, FiledGet

LEMMA FiledReadHeader ==
  ASSUME Kinds \subseteq FileKinds, NEW q \in Request, q.status = "READ_HEADER",
         NEW o \in read_header(q)
  PROVE  Filed(o)
<1>0. q.status \in FileStatus /\ q \in Same(q)
  BY SameRefl DEF FileStatus
<1>1. CASE q.pipe > 0
  <2>0. q.pipe - 1 \in 0..MaxPipe
    BY <1>1, MaxPipeAssumption DEF Request
  <2>1. ParsedFull(q) \subseteq Request
    <3>1. ASSUME NEW m \in 0..MaxPipe, NEW k \in BOOLEAN
          PROVE  [q EXCEPT !.status = "BODY_READ", !.pipe = m, !.logline = TRUE,
                           !.ka = k, !.left = MaxWork] \in Request
      BY WorkFacts DEF Request, Status
    <3> QED
      BY <2>0, <3>1, Zenon DEF ParsedFull
  <2>2. ParsedLine(q) \subseteq Request
    <3>1. ASSUME NEW m \in 0..MaxPipe
          PROVE  [q EXCEPT !.pipe = m, !.logline = TRUE, !.left = MaxWork] \in Request
      BY WorkFacts DEF Request
    <3> QED
      BY <2>0, <3>1 DEF ParsedLine
  <2>3. o \in Header1x(q) \/ o \in Header09(q) \/ o \in Malformed(q)
    BY <1>1 DEF read_header
  <2>4. o \in Header1x(q) => \E p \in Request, k \in Kinds : o \in HeaderEnd(p, k)
    BY <2>1 DEF Header1x
  <2>5. o \in Header09(q) => \E p \in Request, k \in Kinds : o \in process_header_end(p, k)
    BY <2>2 DEF Header09
  <2> QED
    BY <1>0, <2>3, <2>4, <2>5, FiledHeaderEnd, FiledMalformed
<1>2. CASE ~(q.pipe > 0)
  <2> DEFINE ok == [q EXCEPT !.resp = "ok"]
  <2>1. ok \in Request /\ ok.status = q.status
    BY DEF Request
  <2>2. \A p \in BytesRead(q) : p.status = q.status
    BY DEF BytesRead, Request
  <2>3. \/ o = Blocked(q, FdRead) \/ o = Complete(ok) \/ o = Died(ok)
        \/ o \in Malformed(q) \/ \E p \in BytesRead(q) : o = MoreToDo(p)
    BY <1>2 DEF read_header
  <2> HIDE DEF ok
  <2>4. FdRead = WaitsFor(q) \/ q.buf
    BY DEF WaitsFor
  <2> QED
    BY <1>0, <2>1, <2>2, <2>3, <2>4, WaitsFacts, FiledOutcomes, FiledBlocked, FiledDied,
       FiledMalformed
<1> QED
  BY <1>1, <1>2

LEMMA FiledSend ==
  ASSUME NEW q \in Request, q.status \in {"WRITE", "IOSHUFFLE"}, NEW o \in SendChunk(q)
  PROVE  Filed(o)
<1> DEFINE done == [q EXCEPT !.status = "DONE"]
           next == [q EXCEPT !.buf = TRUE, !.left = @ - 1]
           more == [q EXCEPT !.left = @ - 1]
           full == [done EXCEPT !.buf = TRUE]
<1>1. /\ done.status = "DONE" /\ next.status = q.status /\ more.status = q.status
      /\ full \in Request /\ full.status = "DONE"
  BY DEF Request, Status
<1>2. \/ o \in {Blocked(q, FdWrite), Died(q), Complete(done), MoreToDo(next), MoreToDo(more)}
      \/ \E x \in Buffered(done) : o = MoreToDo(x)
  BY DEF SendChunk, complete_response
<1>3. Buffered(done) = {x.q : x \in req_flush(full)}
  BY DEF Buffered
<1> HIDE DEF done, next, more, full
<1>4. \A x \in Buffered(done) : x.status \in {"DONE", "DEAD"}
  BY <1>1, <1>3, FlushStatus
<1>5. FdWrite = WaitsFor(q) /\ q.status \in FileStatus
  BY DEF WaitsFor, FileStatus
<1>6. {"DONE", "DEAD"} \subseteq FileStatus
  BY DEF FileStatus
<1> QED
  BY <1>1, <1>2, <1>4, <1>5, <1>6, WaitsFacts, FiledOutcomes, FiledBlocked, FiledDied

LEMMA FiledFlush ==
  ASSUME NEW q \in Request, q.status = "DONE", NEW o \in FlushDone(q) PROVE Filed(o)
<1>1. PICK x \in req_flush(q) : o = CASE x.rv = -2 -> Complete(x.q)
                                      [] x.rv = -1 -> Blocked(x.q, FdWrite)
                                      [] OTHER     -> x
  BY DEF FlushDone
<1>2. x.q \in Request /\ x.rv \in {-2, -1, 0, 1}
  BY SameRefl, SameRequest, FlushTied DEF Flushed
<1>3. x.q.status \in FileStatus /\ (x.rv = -1 => x.q = q)
  BY FlushStatus DEF FileStatus
<1>4. CASE x.rv = -1
  <2>1. FdWrite = WaitsFor(q)
    BY DEF WaitsFor
  <2> QED
    BY <1>1, <1>3, <1>4, <2>1, WaitsFacts, FiledBlocked
<1>5. CASE x.rv = -2
  BY <1>1, <1>3, <1>5, FiledOutcomes
<1>6. CASE x.rv \in {0, 1}
  BY <1>1, <1>3, <1>6 DEF Filed
<1> QED
  BY <1>2, <1>4, <1>5, <1>6

LEMMA FiledDispatch ==
  ASSUME Kinds \subseteq FileKinds, NEW q \in Request, q.status \in FileStatus,
         NEW o \in Dispatch(q)
  PROVE  Filed(o)
<1>1. CASE q.status = "READ_HEADER"
  BY <1>1, FiledReadHeader DEF Dispatch
<1>2. CASE q.status \in {"WRITE", "IOSHUFFLE"}
  BY <1>2, FiledSend DEF Dispatch, process_get, io_shuffle_sendfile
<1>3. CASE q.status = "DONE"
  BY <1>3, FiledFlush DEF Dispatch
<1>4. CASE q.status \in {"TIMED_OUT", "DEAD"}
  <2> DEFINE p == [q EXCEPT !.buf = FALSE, !.ka = FALSE]
  <2>1. p.status = q.status
    BY DEF Request
  <2>2. o = Complete(p)
    BY <1>4 DEF Dispatch
  <2> HIDE DEF p
  <2> QED
    BY <2>1, <2>2, FiledOutcomes
<1> QED
  BY <1>1, <1>2, <1>3, <1>4 DEF FileStatus

LEMMA FiledHandle ==
  ASSUME Kinds \subseteq FileKinds, NEW q \in Request, q.status \in FileStatus,
         NEW o \in Handle(q)
  PROVE  Filed(o)
<1>1. CASE q.buf /\ BeforeTimedOut(q)
  <2>1. PICK x \in req_flush(q) : o \in IF x.rv = -2 THEN {Complete(x.q)}
                                        ELSE IF x.rv = -1 THEN {Blocked(x.q, FdWrite)}
                                        ELSE Dispatch(x.q)
    BY <1>1 DEF Handle
  <2>2. x.q \in Request
    BY SameRefl, SameRequest, FlushTied DEF Flushed
  <2>3. x.q.status \in FileStatus /\ (x.rv = -1 => x.q = q)
    BY FlushStatus DEF FileStatus
  <2> QED
    BY <1>1, <2>1, <2>2, <2>3, WaitsFacts, FiledOutcomes, FiledBlocked, FiledDispatch
<1>2. CASE ~(q.buf /\ BeforeTimedOut(q))
  BY <1>2, FiledDispatch DEF Handle
<1> QED
  BY <1>1, <1>2


CauseInv ==
  /\ \A r \in Req : rq[r].status \in FileStatus
  /\ \A r \in On("block") : Caused(rq[r])
  /\ Sleeper => Caused(rq[cur])

LEMMA AlikeCaused ==
  ASSUME NEW p, NEW q, Alike(p, q)
  PROVE  (q.status \in FileStatus => p.status \in FileStatus) /\ (Caused(q) => Caused(p))
<1>1. WaitsFor(p) = WaitsFor(q)
  BY DEF Alike, WaitsFor
<1> QED
  BY <1>1 DEF Alike, Caused

LEMMA RearmedCaused ==
  ASSUME NEW q PROVE Rearmed(q).status \in FileStatus /\ Caused(Rearmed(q))
<1>1. /\ Rearmed(q).status = "READ_HEADER" /\ Rearmed(q).buf = FALSE
      /\ Rearmed(q).cause = FdRead
  BY DEF Rearmed, Blank
<1>2. WaitsFor(Rearmed(q)) = FdRead
  BY <1>1 DEF WaitsFor
<1> QED
  BY <1>1, <1>2 DEF FileStatus, Caused

LEMMA RunsCaused ==
  ASSUME Kinds \subseteq FileKinds, IndInv, NEW r \in Req, Runs(r),
         rq[r].status \in FileStatus
  PROVE  rq'[r].status \in FileStatus /\ (rv' = -1 => Caused(rq'[r]))
<1>1. PICK o \in Handle(rq[r]) : rv' = o.rv /\ rq'[r] = o.q
  BY DEF Runs
<1>2. Filed(o)
  BY <1>1, FiledHandle DEF IndInv, TypeOK
<1> QED
  BY <1>1, <1>2 DEF Filed

LEMMA MovedCaused ==
  ASSUME Kinds \subseteq FileKinds, IndInv, CauseInv, NEW r \in Req, Moved(r)
  PROVE  rq'[r].status \in FileStatus /\ (where'[r] = "block" => Caused(rq'[r]))
<1>0. /\ rq[r] \in Request /\ rq[r].status \in FileStatus
      /\ where[r] = "block" => Caused(rq[r])
  BY DEF IndInv, TypeOK, CauseInv, On
<1>1. CASE Stays(r)
  BY <1>0, <1>1, AlikeCaused DEF Stays
<1>2. CASE Wakes(r)
  <2>1. Checked(rq[r]) \in Request
    BY <1>0, CheckedSame, SameRequest
  <2>2. rq'[r].status = Checked(rq[r]).status
    BY <1>2, <2>1 DEF Wakes, Request
  <2>3. Checked(rq[r]).status \in {"TIMED_OUT", rq[r].status}
    BY <1>0 DEF Checked, Request
  <2> QED
    BY <1>0, <1>2, <2>2, <2>3 DEF Wakes, FileStatus
<1>3. CASE Starts(r)
  BY <1>3 DEF Starts, FileStatus
<1>4. CASE Runs(r)
  BY <1>0, <1>4, RunsCaused DEF Runs
<1>5. CASE Sleeps(r)
  BY <1>0, <1>5 DEF Sleeps, CauseInv, Sleeper
<1>6. CASE Ends(r)
  BY <1>6 DEF Ends, FileStatus
<1>7. CASE Rearms(r)
  BY <1>7, RearmedCaused DEF Rearms
<1>8. CASE Closes(r)
  BY <1>8 DEF Closes, Blank, FileStatus
<1> QED
  BY <1>1, <1>2, <1>3, <1>4, <1>5, <1>6, <1>7, <1>8 DEF Moved

LEMMA CauseStep ==
  ASSUME Kinds \subseteq FileKinds, IndInv, CauseInv, [Next]_vars PROVE CauseInv'
<1>0. Moves
  BY MovesAll
<1>1. \A r \in Req : rq'[r].status \in FileStatus /\ (where'[r] = "block" => Caused(rq'[r]))
  BY <1>0, MovedCaused DEF Moves
<1>2. ASSUME Sleeper' PROVE Caused(rq'[cur'])
  <2>1. CASE cur' \in Req /\ Runs(cur')
    BY <1>2, <2>1, RunsCaused DEF Sleeper, CauseInv
  <2>2. CASE pc \in {"accept", "dispatch"} /\ cur' = cur /\ rv' = rv /\ cur \in Req /\ Stays(cur)
    BY <1>2, <2>2, AlikeCaused DEF Sleeper, CauseInv, Stays
  <2> QED
    BY <1>0, <1>2, <2>1, <2>2 DEF Moves, Visits, Sleeper
<1> QED
  BY <1>1, <1>2 DEF CauseInv, On

(***************************************************************************)
(* Of a server of files (no POST, no program): a blocked request sleeps on *)
(* the descriptor whose EAGAIN put it to sleep, or on the client socket    *)
(* while output is buffered, so block_request and the handlers agree.      *)
(***************************************************************************)
THEOREM SleepsOnItsCause ==
  ASSUME Kinds \subseteq FileKinds PROVE Spec => []WaitsForItsCause
<1>1. Init => CauseInv
  BY DEF Init, CauseInv, On, Sleeper, Blank, FileStatus
<1>2. IndInv /\ CauseInv /\ [Next]_vars => CauseInv'
  BY CauseStep
<1>3. CauseInv => WaitsForItsCause
  BY DEF CauseInv, Caused, WaitsForItsCause
<1> QED
  BY <1>1, <1>2, <1>3, Invariance, PTL DEF Spec


-----------------------------------------------------------------------------
(***************************************************************************)
(* The sets.  Outside fdset_update every sleeping request has its bit in   *)
(* them and within max_fd.  What else is set is the server's bit or, while *)
(* the ready list is walked, a bit of a request whose time was up: it is   *)
(* woken with status TIMED_OUT, whose bit is another one, so that the bit  *)
(* it slept on stays until the walk closes the connection.                 *)
(***************************************************************************)
Walking == {"start", "handle", "accept", "dispatch"}

Known(b) == b = ServerBit \/ \E r \in Req : where[r] = "block" /\ b = Bit(r, rq[r])

Late(r) ==
  /\ where[r] = "ready" /\ rq[r].status = "TIMED_OUT"
  /\ pc # "start" => r \in todo
  /\ pc \in {"accept", "dispatch"} /\ r = cur => rv = 0

Leftover(b) ==
  \E r \in Req, w \in Waits : b = BitOf(r, w) /\ Late(r) /\ w[1] \in rq[r].open

NothingElse == \A b \in watched : Known(b) \/ (pc \in Walking /\ Leftover(b))

NobodyMissing ==
  IF pc = "update" THEN covered = {}
  ELSE \A r \in Req : where[r] = "block" => Bit(r, rq[r]) \in watched \cap covered

DoorOK ==
  /\ listening <=> sigterm # 2
  /\ pc \in {"enter", "select"} =>
       /\ ServerBit \in watched <=> listening /\ total <= maxConn
       /\ ServerBit \in watched => ServerBit \in covered

SetsOK == NothingElse /\ NobodyMissing /\ DoorOK

LEMMA BitFacts ==
  ASSUME NEW r, NEW x, NEW w \in Waits, NEW v \in Waits
  PROVE  /\ BitOf(r, w) # ServerBit
         /\ BitOf(r, w) = BitOf(x, v) => r = x /\ w = v
<1>1. w = <<w[1], w[2]>> /\ v = <<v[1], v[2]>> /\ w[1] # "listen"
  BY DEF Waits, FdRead, FdWrite, DataRead, PostWrite
<1> QED
  BY <1>1 DEF BitOf, ServerBit

LEMMA BitAlike == ASSUME NEW r, NEW p, NEW q, Alike(p, q) PROVE Bit(r, p) = Bit(r, q)
<1>1. WaitsFor(p) = WaitsFor(q)
  BY DEF Alike, WaitsFor
<1> QED
  BY <1>1 DEF Bit

\* A request that stays is as late as it was while the walk goes on.
LEMMA StaysLate ==
  ASSUME IndInv, NEW r \in Req, Stays(r), Late(r), pc \in Walking,
         pc' \in {"handle", "accept", "dispatch"},
         r \in todo', pc' \in {"accept", "dispatch"} /\ r = cur' => rv' = 0
  PROVE  Late(r)' /\ rq'[r].open = rq[r].open
  BY DEF Stays, Late, Alike

\* The steps that leave the sets and the sleepers alone.
LEMMA FrameSets ==
  ASSUME IndInv, SetsOK, UNCHANGED fdsets,
         \A r \in Req : where[r] = "block" <=> where'[r] = "block",
         \A r \in Req : where[r] = "block" => Bit(r, rq'[r]) = Bit(r, rq[r]),
         \A b \in watched : pc \in Walking /\ Leftover(b) => pc' \in Walking /\ Leftover(b)',
         pc = "update" <=> pc' = "update"
  PROVE  NothingElse' /\ NobodyMissing'
<1>1. watched' = watched /\ covered' = covered
  BY DEF fdsets
<1>2. \A b \in watched : Known(b) => Known(b)'
  BY DEF Known
<1>3. NothingElse'
  BY <1>1, <1>2 DEF SetsOK, NothingElse
<1>4. NobodyMissing'
  BY <1>1 DEF SetsOK, NobodyMissing
<1> QED
  BY <1>3, <1>4

LEMMA SignalSets ==
  ASSUME IndInv, SetsOK,
         DeliverSigterm \/ DeliverSighup \/ EnterSelect \/ Exited \/ UNCHANGED vars
  PROVE  SetsOK'
<1>0. sigterm < MaxTerms => sigterm = 0
  BY ConfigAssumption DEF IndInv, TypeOK
<1>1. /\ UNCHANGED <<where, rq, total, maxConn, watched, covered, listening, todo, cur, rv>>
      /\ pc' = pc \/ (pc = "select" /\ pc' = "signals") \/ (pc = "enter" /\ pc' = "select")
      /\ sigterm' = sigterm \/ (sigterm = 0 /\ sigterm' = 1)
  BY <1>0 DEF DeliverSigterm, DeliverSighup, EnterSelect, Exited, Interrupted, vars, lists, config,
         fdsets, signals, walk
<1>2. \A b \in watched : pc \in Walking /\ Leftover(b) => pc' \in Walking /\ Leftover(b)'
  BY <1>1 DEF Walking, Leftover, Late
<1>3. NothingElse' /\ NobodyMissing'
  BY <1>1, <1>2, FrameSets DEF fdsets
<1>4. DoorOK'
  BY <1>1 DEF SetsOK, DoorOK
<1> QED
  BY <1>3, <1>4 DEF SetsOK

LEMMA TickSets == ASSUME IndInv, SetsOK, Tick \/ SighupRun PROVE SetsOK'
<1>1. /\ pc \notin Walking /\ pc # "update" /\ UNCHANGED fdsets /\ pc' # "update"
      /\ \A r \in Req : where[r] = "block" <=> where'[r] = "block"
  BY DEF Tick, SighupRun, lists, Walking
<1>2. \A r \in Req : where[r] = "block" => Bit(r, rq'[r]) = Bit(r, rq[r])
  <2>1. CASE Tick
    <3>1. ASSUME NEW r \in Req PROVE Alike(rq'[r], rq[r])
      <4>1. rq[r] \in Request
        BY DEF IndInv, TypeOK
      <4>2. rq'[r] = rq[r] \/ rq'[r] = [rq[r] EXCEPT !.age = @ + 1]
        BY <2>1 DEF Tick
      <4> QED
        BY <4>1, <4>2 DEF Alike, Request
    <3> QED
      BY <3>1, BitAlike
  <2>2. CASE SighupRun
    BY <2>2 DEF SighupRun
  <2> QED
    BY <2>1, <2>2
<1>3. NothingElse' /\ NobodyMissing'
  BY <1>1, <1>2, FrameSets
<1>4. DoorOK'
  BY DEF SetsOK, DoorOK, Tick, SighupRun, lists, config, fdsets, signals
<1> QED
  BY <1>3, <1>4 DEF SetsOK

\* The head of the loop decides about the server's bit.
LEMMA HeadSets == ASSUME IndInv, SetsOK, SigtermRun \/ WatchServer PROVE SetsOK'
<1>1. /\ UNCHANGED <<where, rq, total, maxConn>>
      /\ pc \in {"signals", "term"} /\ pc' \in {"enter", "exit"}
      /\ covered \subseteq covered'
      /\ \A b : b # ServerBit => (b \in watched' <=> b \in watched)
  BY DEF SigtermRun, WatchServer, AtTerm, BOA_FD_SET, lists, config
<1>2. NothingElse'
  BY <1>1 DEF SetsOK, NothingElse, Known, Walking
<1>3. \A r \in Req : Bit(r, rq[r]) # ServerBit
  BY BitFacts, WaitsForWaits DEF Bit
<1>4. NobodyMissing'
  BY <1>1, <1>3 DEF SetsOK, NobodyMissing
<1>5. DoorOK'
  <2>1. total \in Int /\ maxConn \in Nat
    BY ConfigAssumption DEF IndInv, TypeOK
  <2>2. CASE SigtermRun
    BY <2>2 DEF SigtermRun, DoorOK
  <2>3. CASE WatchServer
    BY <2>1, <2>3 DEF WatchServer, BOA_FD_SET, SetsOK, DoorOK, lists, config, signals
  <2> QED
    BY <2>2, <2>3
<1> QED
  BY <1>2, <1>4, <1>5 DEF SetsOK

\* select() only clears bits.
LEMMA SelectSets == ASSUME IndInv, SetsOK, SelectReturn PROVE SetsOK'
<1>1. /\ UNCHANGED <<where, rq>> /\ watched' \subseteq watched /\ covered' = {}
      /\ pc = "select" /\ pc' = "update" /\ UNCHANGED <<listening, sigterm>>
  BY DEF SelectReturn, lists, signals
<1> QED
  BY <1>1 DEF SetsOK, NothingElse, NobodyMissing, DoorOK, Known, Walking

(***************************************************************************)
(* fdset_update: a request left asleep has not timed out, so the bit set   *)
(* again is the one it had; a woken one whose bit stays was timed out, and *)
(* still holds the descriptor.                                             *)
(***************************************************************************)
LEMMA UpdateSets == ASSUME IndInv, RolesOK, SetsOK, FdsetUpdate PROVE SetsOK'
<1> DEFINE woken  == {r \in On("block") : Woken(r)}
           asleep == On("block") \ woken
           again  == {Bit(r, Checked(rq[r])) : r \in asleep}
           gone   == {Bit(r, Checked(rq[r])) : r \in woken}
<1>1. /\ pc = "update" /\ pc' \in {"start", "signals"}
      /\ On("ready")' # {} => pc' = "start"
      /\ where' = [r \in Req |-> IF r \in woken THEN "ready" ELSE where[r]]
      /\ rq' = [r \in Req |-> IF r \in woken THEN [Checked(rq[r]) EXCEPT !.cause = NoWait]
                              ELSE rq[r]]
      /\ watched' = (watched \ gone) \cup again
      /\ covered' = covered \cup again
      /\ UNCHANGED <<listening, sigterm>>
  BY DEF FdsetUpdate, signals
<1>2. ASSUME NEW r \in asleep
      PROVE  Bit(r, Checked(rq[r])) = Bit(r, rq[r])
  <2>1. rq[r] \in Request /\ Checked(rq[r]).status # "TIMED_OUT"
    BY DEF On, IndInv, TypeOK, Woken
  <2>2. Checked(rq[r]) = rq[r]
    BY <2>1 DEF Checked, Request
  <2> QED
    BY <2>2
<1>3. ASSUME NEW r \in woken, NEW b, b = Bit(r, rq[r]), b \notin gone
      PROVE  pc' = "start" /\ Leftover(b)'
  <2> DEFINE q == rq[r]
  <2>1. r \in Req /\ r \in On("block") /\ q \in Request
    BY DEF On, IndInv, TypeOK
  <2>2. Checked(q) = [q EXCEPT !.status = "TIMED_OUT"]
    BY <1>3 DEF Checked
  <2>3. rq'[r] = [Checked(q) EXCEPT !.cause = NoWait] /\ where'[r] = "ready"
    BY <1>1, <2>1
  <2>4. rq'[r].status = "TIMED_OUT" /\ rq'[r].open = q.open
    BY <2>1, <2>2, <2>3 DEF Request
  <2>5. pc' = "start"
    BY <1>1, <2>1, <2>3 DEF On
  <2>6. WaitsFor(q) \in Waits /\ WaitsFor(q)[1] \in q.open
    BY <2>1, WaitsForWaits, RolesMean
  <2>7. Late(r)'
    BY <2>3, <2>4, <2>5 DEF Late
  <2> QED
    BY <1>3, <2>1, <2>4, <2>5, <2>6, <2>7 DEF Leftover, Bit
<1>4. \A r \in asleep : r \in Req /\ where'[r] = "block" /\ rq'[r] = rq[r]
  BY <1>1 DEF On
<1>5. \A r \in Req : where'[r] = "block" => r \in asleep
  BY <1>1 DEF On
<1>6. \A r \in On("block") : r \in woken \/ r \in asleep
  OBVIOUS
<1> HIDE DEF woken, asleep
<1>7. ASSUME NEW b \in watched' PROVE Known(b)' \/ (pc' \in Walking /\ Leftover(b)')
  <2>1. CASE b \in again
    BY <1>2, <1>4, <2>1 DEF Known
  <2>2. CASE b \in watched /\ b \notin gone
    <3>1. CASE b = ServerBit
      BY <3>1 DEF Known
    <3>2. CASE b # ServerBit
      <4>1. PICK r \in Req : where[r] = "block" /\ b = Bit(r, rq[r])
        BY <1>1, <2>2, <3>2 DEF SetsOK, NothingElse, Known, Walking
      <4>2. CASE r \in asleep
        BY <1>4, <4>1, <4>2 DEF Known
      <4>3. CASE r \in woken
        BY <1>3, <2>2, <4>1, <4>3 DEF Walking
      <4> QED
        BY <1>6, <4>1, <4>2, <4>3 DEF On
    <3> QED
      BY <3>1, <3>2
  <2> QED
    BY <1>1, <2>1, <2>2
<1>8. NobodyMissing'
  BY <1>1, <1>2, <1>4, <1>5 DEF NobodyMissing
<1>9. DoorOK'
  BY <1>1 DEF SetsOK, DoorOK
<1> QED
  BY <1>7, <1>8, <1>9 DEF SetsOK, NothingElse


\* Nothing is done to a request whose time was up, nor flushed.
LEMMA LateHandled ==
  ASSUME NEW q \in Request, q.status = "TIMED_OUT", NEW o \in Handle(q)
  PROVE  o.rv = 0 /\ o.q.status = "TIMED_OUT" /\ o.q.open = q.open
<1> DEFINE p == [q EXCEPT !.buf = FALSE, !.ka = FALSE]
<1>1. p.status = q.status /\ p.open = q.open
  BY DEF Request
<1>2. o = Complete(p)
  BY DEF Handle, BeforeTimedOut, Dispatch
<1> HIDE DEF p
<1> QED
  BY <1>1, <1>2 DEF Complete, Outcome

\* The steps of the walk up to the switch.
LEMMA WalkSets ==
  ASSUME IndInv, SetsOK, StartPass \/ HandleRequest \/ AfterHandler PROVE SetsOK'
<1>0. /\ UNCHANGED <<watched, covered, listening, sigterm>>
      /\ pc \in Walking /\ pc # "update"
      /\ pc' \in {"signals", "handle", "accept", "dispatch"}
  BY DEF StartPass, HandleRequest, AfterHandler, fdsets, signals, Walking
<1>1. \A r \in Req : Stays(r) \/ Starts(r) \/ (HandleRequest /\ Runs(r))
  BY StartMoves, HandleMoves, AfterMoves
<1>2. \A r \in Req : where[r] = "block" <=> where'[r] = "block"
  BY <1>1 DEF Stays, Starts, Runs
<1>3. \A r \in Req : where[r] = "block" => Bit(r, rq'[r]) = Bit(r, rq[r])
  BY <1>1, BitAlike DEF Stays, Starts, Runs
<1>4. ASSUME NEW r \in Req, Late(r)
      PROVE  pc' \in Walking /\ Late(r)' /\ rq'[r].open = rq[r].open
  <2>1. where[r] = "ready" /\ rq[r].status = "TIMED_OUT" /\ rq[r] \in Request
    BY <1>4 DEF Late, IndInv, TypeOK
  <2>2. CASE StartPass
    <3>1. Stays(r)
      BY <2>1, <2>2, StartMoves DEF Starts
    <3>2. r \in On("ready")'
      BY <2>1, <3>1 DEF Stays, On
    <3>3. r \in todo' /\ pc' = "handle"
      BY <2>2, <3>2 DEF StartPass
    <3> QED
      BY <1>0, <1>4, <3>1, <3>3, StaysLate DEF Walking
  <2>3. CASE HandleRequest
    <3>1. r \in todo' /\ pc' = "accept"
      BY <1>4, <2>3 DEF HandleRequest, Late
    <3>2. CASE Runs(r)
      <4>1. PICK o \in Handle(rq[r]) : rv' = o.rv /\ rq'[r] = o.q
        BY <3>2 DEF Runs
      <4>2. rv' = 0 /\ rq'[r].status = "TIMED_OUT" /\ rq'[r].open = rq[r].open
        BY <2>1, <4>1, LateHandled
      <4> QED
        BY <3>1, <3>2, <4>2 DEF Runs, Late, Walking
    <3>3. CASE ~Runs(r)
      <4>1. Stays(r)
        BY <2>3, <3>3, HandleMoves
      <4>2. r # cur'
        BY <2>3, <3>1, <3>3, HandleMoves DEF Moves, Visits, HandleRequest
      <4> QED
        BY <1>0, <1>4, <3>1, <4>1, <4>2, StaysLate DEF Walking
    <3> QED
      BY <3>2, <3>3
  <2>4. CASE AfterHandler
    <3>1. Stays(r)
      BY <2>1, <2>4, AfterMoves DEF Starts
    <3>2. /\ pc = "accept" /\ pc' = "dispatch" /\ UNCHANGED <<todo, cur, rv>>
      BY <2>4 DEF AfterHandler, walk
    <3>3. r \in todo' /\ (r = cur' => rv' = 0)
      BY <1>4, <3>2 DEF Late
    <3> QED
      BY <1>0, <1>4, <3>1, <3>2, <3>3, StaysLate DEF Walking
  <2> QED
    BY <2>2, <2>3, <2>4
<1>5. \A b : Leftover(b) => pc' \in Walking /\ Leftover(b)'
  BY <1>4 DEF Leftover
<1>6. NothingElse' /\ NobodyMissing'
  BY <1>0, <1>2, <1>3, <1>5, FrameSets DEF fdsets
<1>7. DoorOK'
  BY <1>0 DEF SetsOK, DoorOK
<1> QED
  BY <1>6, <1>7 DEF SetsOK

(***************************************************************************)
(* The switch.  A step that touches the bits of the visited request only   *)
(* is right when nothing of it is left behind: it sleeps with its bit set, *)
(* or was not late, or all the bits of its descriptors are cleared.        *)
(***************************************************************************)
LEMMA DispatchSets ==
  ASSUME IndInv, SetsOK, NextRequest,
         \A r \in Req \ {cur} : where'[r] = where[r] /\ rq'[r] = rq[r],
         \A b \in watched' : b \in watched \/ Known(b)',
         \A w \in Waits : /\ BitOf(cur, w) \in watched' /\ w[1] \in rq[cur].open
                          /\ Late(cur)
                          => FALSE,
         \A b \in watched \ watched' : \E w \in Waits : b = BitOf(cur, w),
         covered \subseteq covered',
         where'[cur] = "block" => Bit(cur, rq'[cur]) \in watched' \cap covered'
  PROVE  SetsOK'
<1>0. /\ pc = "dispatch" /\ cur \in Req /\ where[cur] = "ready" /\ todo' = todo \ {cur}
      /\ pc' \in {"signals", "handle"} /\ UNCHANGED <<listening, sigterm>>
  BY NextRequestFacts
<1>1. ASSUME NEW b \in watched' PROVE Known(b)' \/ (pc' \in Walking /\ Leftover(b)')
  <2>1. CASE b \in watched /\ Known(b)
    BY <1>0, <2>1 DEF Known
  <2>2. CASE b \in watched /\ Leftover(b)
    <3>1. PICK r \in Req, w \in Waits : b = BitOf(r, w) /\ Late(r) /\ w[1] \in rq[r].open
      BY <2>2 DEF Leftover
    <3>2. r # cur
      BY <1>1, <3>1
    <3>3. r \in todo' /\ where'[r] = where[r] /\ rq'[r] = rq[r]
      BY <1>0, <3>1, <3>2 DEF Late
    <3>4. pc' = "handle"
      BY <3>3 DEF NextRequest
    <3>5. Late(r)' /\ w[1] \in rq'[r].open
      BY <3>1, <3>3, <3>4 DEF Late
    <3> QED
      BY <3>1, <3>4, <3>5 DEF Leftover, Walking
  <2> QED
    BY <1>0, <2>1, <2>2 DEF SetsOK, NothingElse
<1>2. ASSUME NEW r \in Req, where'[r] = "block"
      PROVE  Bit(r, rq'[r]) \in watched' \cap covered'
  <2>1. CASE r # cur
    <3>1. where[r] = "block" /\ rq'[r] = rq[r]
      BY <1>2, <2>1
    <3>2. Bit(r, rq[r]) \in watched \cap covered
      BY <1>0, <3>1 DEF SetsOK, NobodyMissing
    <3>3. \A w \in Waits : Bit(r, rq[r]) # BitOf(cur, w)
      BY <2>1, BitFacts, WaitsForWaits DEF Bit
    <3> QED
      BY <3>1, <3>2, <3>3
  <2> QED
    BY <1>2, <2>1
<1>3. NobodyMissing'
  BY <1>0, <1>2 DEF NobodyMissing
<1>4. DoorOK'
  BY <1>0 DEF SetsOK, DoorOK
<1> QED
  BY <1>1, <1>3, <1>4 DEF SetsOK, NothingElse

LEMMA SwitchSets ==
  ASSUME IndInv, SetsOK, BlockRequest \/ KeepReady \/ UnknownRetval PROVE SetsOK'
<1>0. NextRequest /\ rv # 0 /\ rq \in [Req -> Request]
      /\ where \in [Req -> {"none", "free", "ready", "block"}]
  BY DEF BlockRequest, KeepReady, UnknownRetval, IndInv, TypeOK
<1>1. pc = "dispatch" /\ cur \in Req /\ where[cur] = "ready"
  BY <1>0, NextRequestFacts
<1>2. ~Late(cur)
  BY <1>0, <1>1 DEF Late
<1>3. \A r \in Req \ {cur} : where'[r] = where[r] /\ rq'[r] = rq[r]
  BY <1>0, <1>1 DEF BlockRequest, KeepReady, UnknownRetval, lists
<1>4. CASE BlockRequest
  <2>1. /\ where'[cur] = "block" /\ rq' = rq
        /\ watched' = watched \cup {Bit(cur, rq[cur])}
        /\ covered' = covered \cup {Bit(cur, rq[cur])}
    BY <1>0, <1>1, <1>4 DEF BlockRequest, BOA_FD_SET
  <2>2. \A b \in watched' : b \in watched \/ Known(b)'
    BY <1>1, <2>1 DEF Known
  <2> QED
    BY <1>0, <1>2, <1>3, <2>1, <2>2, DispatchSets
<1>5. CASE KeepReady \/ UnknownRetval
  <2>1. where'[cur] = "ready" /\ UNCHANGED <<watched, covered>>
    BY <1>1, <1>5 DEF KeepReady, UnknownRetval, lists, fdsets
  <2> QED
    BY <1>0, <1>2, <1>3, <2>1, DispatchSets
<1> QED
  BY <1>4, <1>5

\* Closing a connection clears whatever its descriptors may have been
\* watched for.
LEMMA ClosedFacts ==
  ASSUME NEW r, NEW q, NEW w \in Waits
  PROVE  /\ \A b \in ClosedBits(r, q) : \E v \in Waits : b = BitOf(r, v)
         /\ w[1] \in q.open =>
              BitOf(r, w) \in ClosedBits(r, q) \cup {BitOf(r, FdRead), BitOf(r, FdWrite)}
<1>1. \A b \in ClosedBits(r, q) : b = BitOf(r, DataRead) \/ b = BitOf(r, PostWrite)
  BY DEF ClosedBits
<1>2. w[1] \in q.open =>
        BitOf(r, w) \in ClosedBits(r, q) \cup {BitOf(r, FdRead), BitOf(r, FdWrite)}
  <2>1. DataRead[1] = "data" /\ PostWrite[1] = "post"
    BY DEF DataRead, PostWrite
  <2>2. "data" \in q.open => BitOf(r, DataRead) \in ClosedBits(r, q)
    BY DEF ClosedBits
  <2>3. "post" \in q.open => BitOf(r, PostWrite) \in ClosedBits(r, q)
    BY DEF ClosedBits
  <2> QED
    BY <2>1, <2>2, <2>3 DEF Waits
<1> QED
  BY <1>1, <1>2, WaitsFacts

LEMMA RearmedWaits == ASSUME NEW q PROVE WaitsFor(Rearmed(q)) = FdRead
<1>1. Rearmed(q).status = "READ_HEADER" /\ Rearmed(q).buf = FALSE
  BY DEF Rearmed, Blank
<1> QED
  BY <1>1 DEF WaitsFor

LEMMA FreeSets == ASSUME IndInv, SetsOK, FreeRequest PROVE SetsOK'
<1>0. NextRequest /\ rq \in [Req -> Request]
      /\ where \in [Req -> {"none", "free", "ready", "block"}]
  BY DEF FreeRequest, IndInv, TypeOK
<1>1. cur \in Req /\ where[cur] = "ready" /\ pc = "dispatch" /\ rq[cur] \in Request
  BY <1>0, NextRequestFacts
<1>2. PICK o \in FinalFlush(rq[cur]) :
        \/ o.rv > 0 /\ StillFlushing(o.q)
        \/ KeepAlive(o.q) \/ CloseConnection(o.q)
  BY DEF FreeRequest
<1>3. /\ o.rv > 0 => BeforeTimedOut(rq[cur])
      /\ ~BeforeTimedOut(rq[cur]) => o.q = rq[cur]
  BY <1>1, FinalFlushFacts
<1>4. \A r \in Req \ {cur} : where'[r] = where[r] /\ rq'[r] = rq[r]
  BY <1>0, <1>1, <1>2 DEF StillFlushing, KeepAlive, CloseConnection, lists
<1>5. Late(cur) => o.q = rq[cur] /\ ~BeforeTimedOut(o.q)
  BY <1>3 DEF Late, BeforeTimedOut
<1>6. CASE o.rv > 0 /\ StillFlushing(o.q)
  <2>1. where'[cur] = "ready" /\ UNCHANGED <<watched, covered>> /\ ~Late(cur)
    BY <1>1, <1>3, <1>6 DEF StillFlushing, lists, fdsets, Late, BeforeTimedOut
  <2> QED
    BY <1>0, <1>4, <2>1, DispatchSets
<1>7. CASE KeepAlive(o.q)
  <2>1. /\ rq'[cur] = Rearmed(o.q) /\ where'[cur] = "block"
        /\ watched' = ((watched \ ClosedBits(cur, o.q)) \cup {BitOf(cur, FdRead)})
                         \ {BitOf(cur, FdWrite)}
        /\ covered' = covered \cup {BitOf(cur, FdRead)}
    BY <1>0, <1>1, <1>7 DEF KeepAlive
  <2>2. ~Late(cur)
    BY <1>5, <1>7 DEF KeepAlive, StaysOpen
  <2>3. Bit(cur, rq'[cur]) = BitOf(cur, FdRead)
    BY <2>1, RearmedWaits DEF Bit
  <2>4. FdRead # FdWrite
    BY DEF FdRead, FdWrite
  <2>5. BitOf(cur, FdRead) # BitOf(cur, FdWrite)
    BY <2>4, WaitsFacts, BitFacts
  <2>6. \A b \in watched' : b \in watched \/ Known(b)'
    BY <1>1, <2>1, <2>3 DEF Known
  <2>7. \A b \in watched \ watched' : \E w \in Waits : b = BitOf(cur, w)
    BY <2>1, ClosedFacts, WaitsFacts
  <2>8. Bit(cur, rq'[cur]) \in watched' \cap covered'
    BY <2>1, <2>3, <2>5
  <2> QED
    BY <1>0, <1>4, <2>1, <2>2, <2>6, <2>7, <2>8, DispatchSets
<1>8. CASE CloseConnection(o.q)
  <2>1. /\ where'[cur] = "free" /\ covered' = covered
        /\ watched' = watched \ (ClosedBits(cur, o.q)
                                   \cup {BitOf(cur, FdRead), BitOf(cur, FdWrite)})
    BY <1>0, <1>1, <1>8 DEF CloseConnection
  <2>2. \A w \in Waits : BitOf(cur, w) \in watched' /\ w[1] \in rq[cur].open /\ Late(cur) => FALSE
    BY <1>5, <2>1, ClosedFacts
  <2>3. \A b \in watched \ watched' : \E w \in Waits : b = BitOf(cur, w)
    BY <2>1, ClosedFacts, WaitsFacts
  <2> QED
    BY <1>0, <1>4, <2>1, <2>2, <2>3, DispatchSets
<1> QED
  BY <1>2, <1>6, <1>7, <1>8

LEMMA SetsStep == ASSUME IndInv, RolesOK, SetsOK, [Next]_vars PROVE SetsOK'
  BY SignalSets, TickSets, HeadSets, SelectSets, UpdateSets, WalkSets, SwitchSets, FreeSets
  DEF Next, LoopStep

LEMMA SetsMean == ASSUME IndInv, RolesOK, SetsOK PROVE WatchedExactly
<1> SUFFICES ASSUME pc \in {"enter", "select"}
             PROVE  /\ watched = {Bit(r, rq[r]) : r \in On("block")}
                                 \cup (IF listening /\ total <= maxConn THEN {ServerBit} ELSE {})
                    /\ watched \subseteq covered
                    /\ \A r \in On("block") : WaitsFor(rq[r])[1] \in rq[r].open
  BY DEF WatchedExactly
<1> DEFINE sleeping == {Bit(r, rq[r]) : r \in On("block")}
           door     == IF listening /\ total <= maxConn THEN {ServerBit} ELSE {}
<1>1. \A b \in watched : b = ServerBit \/ b \in sleeping
  BY DEF SetsOK, NothingElse, Known, On, Walking
<1>2. \A b \in sleeping : b \in watched /\ b \in covered
  BY DEF SetsOK, NobodyMissing, On
<1>3. ServerBit \in watched => ServerBit \in covered
  BY DEF SetsOK, DoorOK
<1>4. ServerBit \in watched <=> ServerBit \in door
  BY DEF SetsOK, DoorOK
<1>5. door \subseteq {ServerBit}
  OBVIOUS
<1> HIDE DEF sleeping, door
<1>6. watched = sleeping \cup door
  BY <1>1, <1>2, <1>4, <1>5
<1>7. watched \subseteq covered
  BY <1>1, <1>2, <1>3
<1> QED
  BY <1>6, <1>7, RolesMean DEF sleeping, door

(***************************************************************************)
(* Whenever select() is called it is asked about exactly the descriptors   *)
(* the blocked requests wait for, which are open, and the server socket    *)
(* while the limit allows a connection, all within max_fd: no request      *)
(* sleeps unwatched and no closed descriptor is left in the sets, for any  *)
(* requests, configuration, timeouts and signals.                          *)
(***************************************************************************)
THEOREM SetsWatchExactly == Spec => []WatchedExactly
<1>1. Init => SetsOK
  BY DEF Init, SetsOK, NothingElse, NobodyMissing, DoorOK
<1>2. IndInv /\ RolesOK /\ SetsOK /\ [Next]_vars => RolesOK' /\ SetsOK'
  BY RolesStep, SetsStep
<1>3. IndInv /\ RolesOK /\ SetsOK => WatchedExactly
  BY SetsMean
<1> QED
  BY <1>1, <1>2, <1>3, RolesInit, Invariance, PTL DEF Spec

=============================================================================
