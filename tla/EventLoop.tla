----------------------------- MODULE EventLoop -----------------------------
(***************************************************************************)
(* The single-process event loop: loop() and fdset_update of select.c,     *)
(* process_requests, get_request and free_request of request.c, the list   *)
(* moves of queue.c and the signal flags of signals.c.                     *)
(*                                                                         *)
(* The program is sequential; what interleaves with it are signal          *)
(* handlers, which only set flags, the clients, which make descriptors     *)
(* ready, and time.  An action is a stretch of the loop in which neither a *)
(* flag is read nor a system call waits.                                   *)
(*                                                                         *)
(* The three lists are sets (where[r] names the list of r): the order in   *)
(* which process_requests visits the ready list is left open.  A visit     *)
(* covers the requests on the list when it starts, because enqueue adds    *)
(* at the head, behind the walker (todo).                                  *)
(*                                                                         *)
(* A definition placed just before another one under a variant of its name *)
(* (FdSetOnly, SigtermLeavesBit, WaitsForForgetsWrite,                     *)
(* ExpiredKeepaliveOnly, StaysOpenForever, RearmedUncounted,               *)
(* CloseUncounted) is that definition with a fault in it; nothing uses it. *)
(* PROJECT.json names the property that must fail when it takes the place  *)
(* of the right one.                                                       *)
(***************************************************************************)
EXTENDS Handlers, FiniteSets

CONSTANTS
  Req,             \* the request structures
  MaxConnValues,   \* values MaxConnections may be configured to
  KaMaxValues,     \* values KeepAliveMax may be configured to
  KaTimeout,       \* KeepAliveTimeout, in ticks
  RequestTimeout,  \* REQUEST_TIMEOUT, in ticks
  MaxHups,         \* bound on the number of SIGHUPs
  MaxTerms         \* bound on the number of SIGTERMs; a second one changes nothing

ASSUME ReqAssumption == IsFiniteSet(Req)
ASSUME ConfigAssumption ==
  /\ MaxConnValues \subseteq Nat \ {0} /\ MaxConnValues # {}
  /\ KaMaxValues \subseteq Nat /\ KaMaxValues # {}
  /\ KaTimeout \in Nat /\ RequestTimeout \in Nat /\ MaxHups \in Nat
  /\ MaxTerms \in 0..1

VARIABLES
  where,       \* the list each request is on; "none": not allocated
  rq,          \* the request structures
  total,       \* total_connections
  pending,     \* pending_requests
  maxConn,     \* max_connections
  kaMax,       \* ka_max
  watched,     \* the bits set in block_read_fdset and block_write_fdset
  covered,     \* the descriptors max_fd has been raised to since its reset
  listening,   \* the server socket is open
  sigterm,     \* sigterm_flag
  sighup,      \* sighup_flag
  hups,        \* SIGHUPs delivered so far
  pc,          \* where the loop is
  todo,        \* ready requests process_requests has yet to visit
  cur,         \* the request being visited
  rv,          \* the return value of its handler
  dropped      \* history: the request just freed had bytes the socket would still take

lists == <<where, total>>
config == <<maxConn, kaMax>>
fdsets == <<watched, covered>>
signals == <<sigterm, sighup, hups>>
walk == <<todo, cur, rv>>
vars == <<where, rq, total, pending, maxConn, kaMax, watched, covered,
          listening, sigterm, sighup, hups, pc, todo, cur, rv, dropped>>

Locations == {"signals", "term", "enter", "select", "update", "start",
              "handle", "accept", "dispatch", "exit"}
RvValues == {-1, 0, 1, 2}
NoReq == "no request"

On(list)  == {r \in Req : where[r] = list}
Live      == {r \in Req : where[r] \in {"ready", "block"}}
ServerBit == <<"server", "listen", "R">>
Bits      == (Req \X Roles \X Dirs) \cup {ServerBit}

TypeOK ==
  /\ where \in [Req -> {"none", "free", "ready", "block"}]
  /\ rq \in [Req -> Request]
  /\ total \in Int
  /\ pending \in BOOLEAN
  /\ maxConn \in MaxConnValues
  /\ kaMax \in KaMaxValues
  /\ watched \subseteq Bits
  /\ covered \subseteq Bits
  /\ listening \in BOOLEAN
  /\ sigterm \in 0..2
  /\ sighup \in BOOLEAN
  /\ hups \in 0..MaxHups
  /\ pc \in Locations
  /\ todo \subseteq Req
  /\ cur \in Req \cup {NoReq}
  /\ rv \in RvValues
  /\ dropped \in BOOLEAN

Init ==
  /\ where = [r \in Req |-> "none"]
  /\ rq = [r \in Req |-> Blank]
  /\ total = 0
  /\ pending = FALSE
  /\ maxConn \in MaxConnValues
  /\ kaMax \in KaMaxValues
  /\ watched = {}
  /\ covered = {}
  /\ listening = TRUE
  /\ sigterm = 0
  /\ sighup = FALSE
  /\ hups = 0
  /\ pc = "signals"
  /\ todo = {}
  /\ cur = NoReq
  /\ rv = 0
  /\ dropped = FALSE

-----------------------------------------------------------------------------
(***************************************************************************)
(* Signals.  A handler only sets its flag; delivered inside select() it    *)
(* also makes select() fail with EINTR, which restarts the loop.           *)
(***************************************************************************)
Interrupted == pc' = IF pc = "select" THEN "signals" ELSE pc

DeliverSigterm ==
  /\ pc # "exit"
  /\ sigterm < MaxTerms
  /\ sigterm' = 1
  /\ Interrupted
  /\ UNCHANGED <<lists, rq, pending, config, fdsets, listening, sighup, hups,
                 walk, dropped>>

DeliverSighup ==
  /\ pc # "exit"
  /\ hups < MaxHups
  /\ hups' = hups + 1
  /\ sighup' = TRUE
  /\ Interrupted
  /\ UNCHANGED <<lists, rq, pending, config, fdsets, listening, sigterm,
                 walk, dropped>>

(***************************************************************************)
(* sighup_run: the free list is released (free_requests) and the           *)
(* configuration is read again.                                            *)
(***************************************************************************)
SighupRun ==
  /\ pc = "signals"
  /\ sighup
  /\ sighup' = FALSE
  /\ where' = [r \in Req |-> IF where[r] = "free" THEN "none" ELSE where[r]]
  /\ maxConn' \in MaxConnValues
  /\ kaMax' \in KaMaxValues
  /\ pc' = "term"
  /\ UNCHANGED <<rq, total, pending, fdsets, listening, sigterm, hups, walk,
                 dropped>>

\* the macro BOA_FD_SET: the bit, and max_fd with it
FdSetOnly(bits) ==
  /\ watched' = watched \cup bits
  /\ UNCHANGED covered

BOA_FD_SET(bits) ==
  /\ watched' = watched \cup bits
  /\ covered' = covered \cup bits

AtTerm == pc = "term" \/ (pc = "signals" /\ ~sighup)

(***************************************************************************)
(* The head of the loop.  Stage 1 of the shutdown closes the server        *)
(* socket; stage 2 exits once both lists are empty.  Without SIGTERM the   *)
(* server socket is watched, except above the connection limit.            *)
(***************************************************************************)
SigtermLeavesBit ==
  /\ AtTerm
  /\ sigterm # 0
  /\ sigterm' = 2
  /\ listening' = FALSE
  /\ pending' = FALSE
  /\ pc' = IF Live = {} THEN "exit" ELSE "enter"
  /\ UNCHANGED <<lists, rq, config, fdsets, sighup, hups, walk, dropped>>

SigtermRun ==
  /\ AtTerm
  /\ sigterm # 0
  /\ sigterm' = 2
  /\ listening' = FALSE
  /\ watched' = watched \ {ServerBit}
  /\ pending' = FALSE
  /\ pc' = IF Live = {} THEN "exit" ELSE "enter"
  /\ UNCHANGED <<lists, rq, config, covered, sighup, hups, walk, dropped>>

WatchServer ==
  /\ AtTerm
  /\ sigterm = 0
  /\ IF total > maxConn
     THEN watched' = watched \ {ServerBit} /\ UNCHANGED covered
     ELSE BOA_FD_SET({ServerBit})
  /\ pending' = FALSE
  /\ pc' = "enter"
  /\ UNCHANGED <<lists, rq, config, listening, signals, walk, dropped>>

\* The call of select(): flags set before it has begun do not interrupt it.
EnterSelect ==
  /\ pc = "enter"
  /\ pc' = "select"
  /\ UNCHANGED <<lists, rq, pending, config, fdsets, listening, signals, walk,
                 dropped>>

\* Time passes; ages stop mattering beyond RequestTimeout.
Tick ==
  /\ pc = "select"
  /\ \E r \in Live : rq[r].age <= RequestTimeout
  /\ rq' = [r \in Req |->
              IF r \in Live /\ rq[r].age <= RequestTimeout
              THEN [rq[r] EXCEPT !.age = @ + 1] ELSE rq[r]]
  /\ UNCHANGED <<lists, pending, config, fdsets, listening, signals, pc, walk,
                 dropped>>

(***************************************************************************)
(* select() returns.  Of the descriptors up to max_fd it leaves the bits   *)
(* of the ready ones; bits beyond max_fd are not looked at and stay.  With *)
(* requests on the lists there is a timeout, and the set of ready          *)
(* descriptors may be empty; with none select waits for a client.          *)
(***************************************************************************)
SelectReturn ==
  /\ pc = "select"
  /\ \E ready \in SUBSET (watched \cap covered) :
       /\ ready # {} \/ Live # {}
       /\ watched' = ready \cup (watched \ covered)
  /\ pending' = (sigterm = 0 /\ ServerBit \in watched')
  /\ covered' = {}
  /\ dropped' = FALSE
  /\ pc' = "update"
  /\ UNCHANGED <<lists, rq, config, listening, signals, walk>>

-----------------------------------------------------------------------------
(***************************************************************************)
(* block_request and ready_request set and clear the bit of the descriptor *)
(* a request waits for, chosen by its buffer and its status.               *)
(***************************************************************************)
WaitsForForgetsWrite(q) ==
  IF q.buf \/ q.status = "DONE" THEN FdWrite
  ELSE IF q.status = "PIPE_READ" THEN DataRead
  ELSE IF q.status = "BODY_WRITE" THEN PostWrite
  ELSE FdRead

WaitsFor(q) ==
  IF q.buf \/ q.status \in {"IOSHUFFLE", "WRITE", "PIPE_WRITE", "DONE"} THEN FdWrite
  ELSE IF q.status = "PIPE_READ" THEN DataRead
  ELSE IF q.status = "BODY_WRITE" THEN PostWrite
  ELSE FdRead

BitOf(r, w) == <<r, w[1], w[2]>>
Bit(r, q)   == BitOf(r, WaitsFor(q))

(***************************************************************************)
(* fdset_update.  A blocked request whose time is up becomes TIMED_OUT;    *)
(* it, and every request whose descriptor is ready, moves to the ready     *)
(* list; the bits of the others are set again.                             *)
(***************************************************************************)
KaExpired(q)  == q.kacount < kaMax /\ q.age >= KaTimeout /\ ~q.logline
ExpiredKeepaliveOnly(q) == KaExpired(q)
Expired(q)    == KaExpired(q) \/ q.age > RequestTimeout
Checked(q)    == IF Expired(q) THEN [q EXCEPT !.status = "TIMED_OUT"] ELSE q
Woken(r) == LET q == Checked(rq[r])
            IN  q.status \in {"TIMED_OUT", "DEAD"} \/ Bit(r, q) \in watched

FdsetUpdate ==
  /\ pc = "update"
  /\ LET woken  == {r \in On("block") : Woken(r)}
         asleep == On("block") \ woken
         again  == {Bit(r, Checked(rq[r])) : r \in asleep}
     IN /\ where' = [r \in Req |-> IF r \in woken THEN "ready" ELSE where[r]]
        /\ rq' = [r \in Req |->
                    IF r \in woken THEN [Checked(rq[r]) EXCEPT !.cause = NoWait]
                    ELSE rq[r]]
        /\ watched' = (watched \ {Bit(r, Checked(rq[r])) : r \in woken}) \cup again
        /\ covered' = covered \cup again
  /\ pc' = IF pending \/ On("ready")' # {} THEN "start" ELSE "signals"
  /\ UNCHANGED <<total, pending, config, listening, signals, walk, dropped>>

-----------------------------------------------------------------------------
(***************************************************************************)
(* get_request, called while pending_requests is set.  Nobody to accept    *)
(* clears it.  An accepted connection takes a structure off the free list, *)
(* or a new one; it is dropped when it cannot be set up.  Over the limit   *)
(* it is answered with 503 and no further connection is accepted.          *)
(***************************************************************************)
Allocatable == IF On("free") # {} THEN On("free") ELSE On("none")

sanitize_new(k) == [Blank EXCEPT !.kacount = k, !.open = {"fd"}]

NobodyThere(base) ==
  /\ pending' = FALSE
  /\ rq' = base
  /\ UNCHANGED <<where, total>>

NotSetUp(base) ==
  /\ listening
  /\ rq' = base
  /\ UNCHANGED <<total, pending>>
  /\ \/ UNCHANGED where
     \/ \E r \in Allocatable : where' = [where EXCEPT ![r] = "free"]

OverLimit(n) == n > maxConn

Accepted(base) ==
  /\ listening
  /\ \E r \in Allocatable, unsent \in BOOLEAN :
       /\ where' = [where EXCEPT ![r] = "ready"]
       /\ total' = total + 1
       /\ pending' = (pending /\ ~OverLimit(total + 1))
       /\ rq' = [base EXCEPT ![r] =
                   IF OverLimit(total + 1)
                   THEN [sanitize_new(kaMax) EXCEPT !.status = "DONE", !.resp = "err",
                                                    !.buf = unsent]
                   ELSE sanitize_new(kaMax)]

get_request(base) ==
  \/ pending /\ (NobodyThere(base) \/ NotSetUp(base) \/ Accepted(base))
  \/ ~pending /\ rq' = base /\ UNCHANGED <<where, total, pending>>

-----------------------------------------------------------------------------
\* process_requests begins: one get_request, then the ready list is walked.
StartPass ==
  /\ pc = "start"
  /\ get_request(rq)
  /\ todo' = On("ready")'
  /\ pc' = IF todo' = {} THEN "signals" ELSE "handle"
  /\ UNCHANGED <<config, fdsets, listening, signals, cur, rv, dropped>>

\* The flush and the handler of one request.
HandleRequest ==
  /\ pc = "handle"
  /\ \E r \in todo : \E o \in Handle(rq[r]) :
       /\ cur' = r
       /\ rv' = o.rv
       /\ rq' = [rq EXCEPT ![r] = o.q]
  /\ pc' = "accept"
  /\ dropped' = FALSE
  /\ UNCHANGED <<lists, pending, config, fdsets, listening, signals, todo>>

\* After the handler: under SIGTERM no keepalive, then another get_request.
SquashKa(q) == IF sigterm # 0 THEN [q EXCEPT !.ka = FALSE] ELSE q

AfterHandler ==
  /\ pc = "accept"
  /\ get_request([rq EXCEPT ![cur] = SquashKa(@)])
  /\ pc' = "dispatch"
  /\ UNCHANGED <<config, fdsets, listening, signals, walk, dropped>>

(***************************************************************************)
(* The switch on the return value.  Each case is done with cur.            *)
(***************************************************************************)
NextRequest ==
  /\ pc = "dispatch"
  /\ todo' = todo \ {cur}
  /\ cur' = NoReq
  /\ rv' = 0
  /\ pc' = IF todo' = {} THEN "signals" ELSE "handle"
  /\ UNCHANGED <<pending, config, listening, signals>>

BlockRequest ==
  /\ NextRequest
  /\ rv = -1
  /\ where' = [where EXCEPT ![cur] = "block"]
  /\ BOA_FD_SET({Bit(cur, rq[cur])})
  /\ UNCHANGED <<rq, total, dropped>>

KeepReady ==
  /\ NextRequest
  /\ rv = 1
  /\ rq' = [rq EXCEPT ![cur].age = 0]
  /\ UNCHANGED <<lists, fdsets, dropped>>

UnknownRetval ==
  /\ NextRequest
  /\ rv = 2
  /\ rq' = [rq EXCEPT ![cur].status = "DEAD"]
  /\ UNCHANGED <<lists, fdsets, dropped>>

(***************************************************************************)
(* free_request.  What is left in the buffer is flushed once more, and a   *)
(* partial flush leaves the request on the ready list as DONE.  Otherwise  *)
(* the request is taken down: the connection waits for its next request    *)
(* (keepalive) or is closed.                                               *)
(***************************************************************************)
FinalFlush(q) ==
  IF q.buf /\ BeforeTimedOut(q) THEN req_flush([q EXCEPT !.status = "DONE"])
  ELSE {Outcome(0, q)}

StaysOpenForever(q) == BeforeTimedOut(q) /\ q.ka /\ q.resp = "ok"
StaysOpen(q) == BeforeTimedOut(q) /\ q.ka /\ q.resp = "ok" /\ q.kacount > 0

\* sanitize_request(req, 0) and --kacount: unparsed bytes are kept
RearmedUncounted(q) ==
  [Blank EXCEPT !.pipe = q.pipe, !.kacount = q.kacount, !.open = {"fd"},
                !.cause = FdRead, !.reused = TRUE]

Rearmed(q) ==
  [Blank EXCEPT !.pipe = q.pipe, !.kacount = q.kacount - 1, !.open = {"fd"},
                !.cause = FdRead, !.reused = TRUE]

ClosedBits(r, q) ==
  {BitOf(r, DataRead) : i \in q.open \cap {"data"}}
  \cup {BitOf(r, PostWrite) : i \in q.open \cap {"post"}}

StillFlushing(q) ==
  /\ rq' = [rq EXCEPT ![cur] = [q EXCEPT !.age = 0]]
  /\ UNCHANGED <<lists, fdsets, dropped>>

KeepAlive(q) ==
  /\ StaysOpen(q)
  /\ where' = [where EXCEPT ![cur] = "block"]
  /\ rq' = [rq EXCEPT ![cur] = Rearmed(q)]
  /\ watched' = ((watched \ ClosedBits(cur, q)) \cup {BitOf(cur, FdRead)})
                   \ {BitOf(cur, FdWrite)}
  /\ covered' = covered \cup {BitOf(cur, FdRead)}
  /\ UNCHANGED total

CloseUncounted(q) ==
  /\ ~StaysOpen(q)
  /\ where' = [where EXCEPT ![cur] = "free"]
  /\ rq' = [rq EXCEPT ![cur] = Blank]
  /\ watched' = watched \ (ClosedBits(cur, q) \cup {BitOf(cur, FdRead), BitOf(cur, FdWrite)})
  /\ UNCHANGED <<total, covered>>

CloseConnection(q) ==
  /\ ~StaysOpen(q)
  /\ where' = [where EXCEPT ![cur] = "free"]
  /\ rq' = [rq EXCEPT ![cur] = Blank]
  /\ watched' = watched \ (ClosedBits(cur, q) \cup {BitOf(cur, FdRead), BitOf(cur, FdWrite)})
  /\ total' = total - 1
  /\ UNCHANGED covered

FreeRequest ==
  /\ NextRequest
  /\ rv = 0
  /\ \E o \in FinalFlush(rq[cur]) :
       \/ o.rv > 0 /\ StillFlushing(o.q)
       \/ /\ o.rv <= 0
          /\ KeepAlive(o.q) \/ CloseConnection(o.q)
          /\ dropped' = (o.rv = -1)

\* exit(EXIT_SUCCESS)
Exited == pc = "exit" /\ UNCHANGED vars

-----------------------------------------------------------------------------
LoopStep ==
  \/ SighupRun \/ SigtermRun \/ WatchServer \/ EnterSelect
  \/ FdsetUpdate \/ StartPass \/ HandleRequest \/ AfterHandler
  \/ BlockRequest \/ KeepReady \/ UnknownRetval \/ FreeRequest

Next ==
  \/ LoopStep \/ SelectReturn \/ Tick
  \/ DeliverSigterm \/ DeliverSighup \/ Exited

(***************************************************************************)
(* The process runs, so its steps happen; select() returns when it has a   *)
(* timeout, that is when a request is on a list; and time passes.  No      *)
(* client is obliged to do anything.                                       *)
(***************************************************************************)
Fairness ==
  /\ WF_vars(LoopStep)
  /\ WF_vars(Live # {} /\ SelectReturn)
  /\ SF_vars(Tick)

Spec == Init /\ [][Next]_vars
FairSpec == Spec /\ Fairness

-----------------------------------------------------------------------------
\* total_connections counts the requests on the ready and block lists, and
\* exactly those hold an open client socket: accept, keepalive, timeouts,
\* dropped connections and reloads never lose or double-count one.
Accounting ==
  /\ total = Cardinality(Live)
  /\ \A r \in Req : r \in Live <=> "fd" \in rq[r].open

\* When select() is called it is asked about exactly the descriptors the
\* blocked requests wait for and, below the limit, the server socket, all of
\* them within max_fd: no sleeping request is forgotten and no closed or
\* finished descriptor is left behind in the sets.
WatchedExactly ==
  pc \in {"enter", "select"} =>
    /\ watched = {Bit(r, rq[r]) : r \in On("block")}
                 \cup (IF listening /\ total <= maxConn THEN {ServerBit} ELSE {})
    /\ watched \subseteq covered
    /\ \A r \in On("block") : WaitsFor(rq[r])[1] \in rq[r].open

\* The handlers that write a program's output while their status says they
\* read it (read_from_pipe), or that block_request knows no status of.
WritesUnnoticed(q) ==
  q.cause = FdWrite /\ q.status \in {"PIPE_READ", "BUFF_READ", "BUFF_WRITE"}

\* A blocked request sleeps on the descriptor whose EAGAIN put it to sleep,
\* or on the client socket while output is buffered.  (A program's output
\* refused by the client is the exception: that request sleeps on another
\* descriptor, until a timeout if need be.)
WaitsForItsCause ==
  \A r \in On("block") :
    rq[r].cause # NoWait /\ ~WritesUnnoticed(rq[r]) =>
      WaitsFor(rq[r]) = rq[r].cause \/ rq[r].buf

\* kacount < ka_max is how the loop recognises a connection between two
\* requests: true of a connection exactly when it carried one before.
RecognisesKeepalive ==
  \A r \in Live : rq[r].kacount < kaMax <=> rq[r].reused

\* Every blocked request is woken, by its descriptor or by a timeout.
NoSleeperForgotten ==
  \A r \in Req : where[r] = "block" ~> where[r] # "block"

\* CHANGES: "SIGTERM triggers lame duck mode until all pending transactions
\* complete".  A SIGTERM delivered at any moment while a connection is open,
\* also between the test of its flag and select(), ends the server once what
\* is in progress is finished; so does one that has been taken up.
LameDuckEnds == sigterm = 2 \/ (sigterm = 1 /\ Live # {}) ~> pc = "exit"

\* doc/crotalus.texi: MaxConnections is "the maximum number of concurrent
\* connections"; once it is reached the server "stops accepting connections
\* until the number of active connections goes down".
LimitKept == total <= maxConn

\* request.c, free_request: the flush is the code of the DONE section and
\* "must be exactly the same"; there a flush that blocks keeps the request.
NothingUnsentDropped == ~dropped
=============================================================================
