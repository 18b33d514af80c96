# Crotalus: a TLA+ model of the web server

Crotalus (a descendant of Boa) is an HTTP server that serves all connections
from one process.  The process sleeps in `select()`, wakes the requests whose
descriptors are ready, lets each of them take one non-blocking step, and sleeps
again.  What makes it hard is therefore not threads but the bookkeeping between
the steps: which list a request is on, which descriptor it waits for, which of
its descriptors are open, how many connections there are, and what signals,
timeouts, short writes and `EAGAIN` do to all of that in between.

The repository also holds the complete source trees of PHP, libxml2, pcre, zlib
and other projects under `php/` and `lib/`: about 1.5 million lines that the
build needs and that are not Crotalus.  The server itself is the 14 thousand
lines of `src/`; this project is about those.

Paths below are relative to the repository; `src/x.c` is the server's source.

## Inventory

| Part | State | Operations | Talks to |
|---|---|---|---|
| Event loop (`src/select.c`, `src/queue.c`) | three request lists, two descriptor sets, `max_fd` | `loop`, `fdset_update`, `block_request`, `ready_request` | calls the request layer; reads the signal flags |
| Request lifecycle (`src/request.c`) | `struct request`, `total_connections`, `pending_requests` | `get_request`, `process_requests`, `free_request`, `process_logline`, `process_option_line`, `process_header_end` | calls the handlers, moves requests between lists |
| Header and body reading (`src/read.c`) | `client_stream`, parse position, POST file | `read_header`, `read_body`, `write_body` | calls back into request.c and CGI |
| Static files (`src/get.c`, `src/pipe.c` sendfile) | data descriptor, mapping, ranges | `init_get`, `process_get`, `io_shuffle_sendfile` | mmap cache, ranges |
| Output buffer and responses (`src/buffer.c`, `src/response.c`) | `buffer`, `buffer_start`, `buffer_end` | `req_write`, `req_flush`, `send_r_*`, `complete_response` | client socket |
| CGI (`src/mime/mime_cgi.c`, `src/pipe.c`, `src/cgi_header.c`) | `cgi_status`, pipe | `init_cgi`, `read_from_pipe`, `write_from_pipe`, `process_cgi_header` | child processes |
| Worker pool (`src/shbuff.c`, `src/mime/mime_cgi.c`, libshare) | jobs in progress, `req->buff` | `init_work_cgi`, `poll_from_shbuff`, `cgi_work_resp`, `find_request_by_fd`, `read_/write_from_shbuff` | worker processes (external) |
| Signals (`src/signals.c`) | `sigterm_flag`, `sighup_flag`, … | handlers, `sighup_run`, `sigterm_stage1/2_run` | configuration, lists |
| mmap cache (`src/mmap_cache.c`) | hash table of mapped files | `find_mmap`, `release_mmap` | `init_get`, `free_request` |
| Byte ranges (`src/range.c`) | range list of a request, pool | `range_parse`, `range_add`, `range_abort`, `ranges_fixup`, pool | header parsing, `init_get`, sending |
| Configuration (`src/config.c`) | numbers, flags and names set from `crotalus.conf` | `read_config_files`, `parse`, `c_set_*`, `c_add_*` | fills the tables below; run at start and on SIGHUP |
| Aliases and URI translation (`src/alias.c`) | hash table of path prefixes | `add_alias`, `find_alias`, `translate_uri`, `dump_alias` | preferences, home directories |
| Hash tables, preferences, access lists (`src/cache/*.c`) | MIME types, home directories, preferences and their time-stamped copies, rules per host | `hash_insert`, `cr_pref_set`, `crpref_*`, `access_list_get`, `access_init` | read by requests, refilled by reloads |
| Start-up, logging, utilities, directory index, PHP front end, vendored trees | | | |

Hard behaviour, by place: the flag test before `select` (a signal in between);
the limit on connections spread over two functions; keepalive recognised by
comparing a counter with a setting that a reload may change; pipelined requests
that are already in memory when the connection goes to sleep; the descriptor to
sleep on derived from the status instead of from the call that blocked; freed
requests with unsent output; one output buffer shared by headers, file data and
a program's output, flushed in pieces between a handler's own writes; answers of
workers that name a descriptor number, and structures reused with what the last
connection left in them; lists changed while they are walked; mapped files shared by requests through a table
without tombstones; number parsing with wrap-around and mixed integer widths;
caches of configuration values that some reloads empty and others do not.
`PROJECT.json` lists these as hazards, each at its line, with the properties
that cover them.

## Modules

| Module | Models |
|---|---|
| `Handlers` | what one step of one request may do: each C handler is the set of outcomes (return value, request afterwards) it can produce |
| `EventLoop` | the loop around them: lists, descriptor sets, accept, block, wake, time out, free, keepalive, SIGTERM, SIGHUP |
| `OutputStream` | the bytes of one connection through buffer, file and pipe to the socket |
| `Queues` | `queue.c`: the lists as `head`, `next` and `prev` pointers |
| `WorkerPool` | the three lists, the two walks over them, and requests handed to workers, with descriptor numbers and reused structures; uses `Queues` |
| `Mappings` | abstract: shared mappings that live as long as they are used |
| `MmapCache` | `mmap_cache.c`, shown to implement `Mappings` |
| `Ranges` | `range.c` and the sending of ranges |
| `RangeSyntax` | what a Range header means, defined on its text, as the reference for `Ranges` |
| `Configuration` | `crotalus.conf`, preferences, aliases, MIME types, home directories and access lists through loads, requests and reloads |
| `HandlersProofs`, `EventLoopProofs`, `DescriptorProofs`, `OutputStreamProofs`, `WorkerPoolProofs`, `MmapCacheProofs`, `RangesProofs`, `ConfigurationProofs` | theorems and proofs |
| `MC_EventLoop`, `MC_OutputStream`, `MC_WorkerPool`, `MC_MmapCache`, `MC_Ranges`, `MC_Configuration` | instances for TLC (symmetry, table of inode numbers, lines of a configuration file) |

Some definitions are preceded by a variant with a fault in it (for example
`SigtermLeavesBit` before `SigtermRun`).  Nothing uses these; `PROJECT.json`
("mutants") says which property must fail when the variant takes the place of
the definition, which shows that the property says something about the code.

### Handlers and EventLoop

A request is a record of what the loop looks at: status, whether the output
buffer holds bytes, keepalive bookkeeping, open descriptors (client socket,
`data_fd`, `post_data_fd`), complete requests waiting in `client_stream`, age,
CGI state.  `left` bounds how many partial reads and writes a request may still
need; it stands for the finite size of its data, so a handler cannot go on for
ever.  `cause`, `reused` and `dropped` are history variables for properties.
Clients choose what they ask for from `Kinds`: a refused request, a file small
enough to be buffered at once, a mapped file, a file sent with `sendfile`, an
NPH script (`silent`), a POST, a CGI program, a script found by its extension,
a gzip file, a request for a worker.

The lists are sets.  `process_requests` visits the requests that were on the
ready list when it began (new ones are added in front of its walk), in an order
the model leaves open.  Actions of `EventLoop` and the code:

| Action | Code |
|---|---|
| `DeliverSigterm`, `DeliverSighup` | the signal handlers; inside `select` they cause `EINTR` |
| `SighupRun`, `SigtermRun`, `WatchServer` | the head of `loop()` |
| `EnterSelect`, `SelectReturn`, `Tick` | `select()`: signals after the flag test and before the call do not interrupt it; time passes only there |
| `FdsetUpdate` | `fdset_update` |
| `StartPass`, `HandleRequest`, `AfterHandler` | one iteration of `process_requests`: flush, handler, `SQUASH_KA` under SIGTERM, `get_request` |
| `BlockRequest`, `KeepReady`, `FreeRequest`, `UnknownRetval` | the switch on the return value |

`max_fd` is represented by the set `covered` of descriptors it has been raised
to since its reset; bits outside it are neither examined nor cleared by
`select`.

### OutputStream

`EventLoop` keeps whether the buffer holds bytes; `OutputStream` keeps which.  A
byte is its position in the stream the client should see, so an output that is
in order is 1, 2, 3, ...  The buffer is an array with the two windows the code
has on it, `buffer_start..buffer_end` and `header_line..header_end`; `made`
counts the bytes produced.  A handler is again a set of outcomes (return value,
connection afterwards), and `Dispatch` is the switch of `process_requests`.

| Action | Code |
|---|---|
| `NewRequest` | `read_header` up to `init_get`, `get_dir`, `init_cgi` or an error page |
| `Flush`, `HandleRequest` | one iteration of `process_requests` |
| `FreeRequest` | `free_request`: last flush, then keepalive or close |
| `Wake` | `fdset_update` |
| `Drain`, `Reset`, `Truncate`, `Tick` | the client reads or resets, the file is cut, time passes |

`faults` records the two ways in which the code itself breaks the stream:
"lost" (a blocked last flush in `free_request`, or a multipart trailer for which
the buffer has no room) and "overtaken" (a handler's own write, or a read into
the buffer, while a partial flush left bytes there).  A read includes the NUL
`read_from_pipe` stores behind the bytes read (`Terminated`, value 0): it can
fall on an unsent byte, and it can lie one past a full buffer, which is why the
array has one byte more, as in `globals.h:233`.
Output filters (gzip, deflate) are left out.

### Queues and WorkerPool

`EventLoop` has sets for lists.  `Queues` has the pointers, and `WorkerPool`
walks them: `fdset_update` and `process_requests` one request per step, with
`get_request` putting new requests in front between a handler and the move of
its request.  `todo`, the requests the walk should still visit, is history.

A connection has a number of its own (`conn`) besides its descriptor number
(`fd`), which `accept` reuses, lowest first.  A structure on the free list keeps
`fd` and `buff`; `sanitize_request` clears the fields above the line "kept
regardless" only.  `jobs` is the work handed out; an answer is appended to the
`buff` of the request `find_request_by_fd` finds.  Output is counted in
buffer-fulls, each marked with the connection it was made for.  A request whose
worker has answered reads it with `ReadAnswer`; one that finds another
connection's output before its own worker has answered still has CGI_PARSE and
takes the leftover for a CGI header (`ReadLeftover`).  Handlers
without workers are `OtherHandler`, any return value.  `malloc` returns one of
the unused structures with cleared or old contents.

### MmapCache

`File` is a set of file versions (device, inode, size), `Ino` their inode
numbers; `find_mmap` probes from `ino % Size`.  `maps` counts the mappings the
kernel holds for the process.  `asked` records what each holder wanted.

### Ranges

One connection, one request after another, up to `MaxHeaders` Range headers.
Characters are consumed one at a time by the state table.  The integer types
have the widths `IntMax`, `UIntMax`, `ULongMax`; the build is LP64, so
`(unsigned) -1` is smaller than the `-1` stored in an `unsigned long`.
`init_get` never calls `ranges_fixup` for an empty file, so file sizes start at 1.
`announced` records the numbers of Content-Range and Content-Length as printed,
that is, through `simple_itoa`, which takes an `unsigned int`.
`RangeSyntax` cuts the text at its commas and evaluates each piece without the
state table, with recursive functions, which can be proved about.

### Configuration

`pc` follows `read_config_files`: `inline` (built-in values, `mime.types`,
`access_init`), `parse` (one action per kind of line, in the order of the file),
`serve`.  `Request` is what one request does to the caches: `translate_uri` up
to the branch it takes, then `init_get` with the access list and the
preferences a directory or a program asks for.  `Sighup` is `sighup_run` as far
as it concerns these tables; its effect on connections is in `EventLoop`.

A path is its components and whether it ends in a slash, which is all that
`find_alias` and `get_alias_hash_value` look at; chains of the alias table are
kept in order, because the first entry that covers a path wins.  Tables searched
by exact key are functions.  `cache` holds the `static` variables `ret_str` and
`ret_stamp` of each `crpref_*` function, and `now` counts seconds, so several
events can share one.  `filters` is `access_hashtable`, which the
AddOutputFilterByType lines of `.htaccess` files fill and no reload empties.
`htRead` and `homeRead` record what was read since the last SIGHUP.

## Runs

| Run | Question |
|---|---|
| `loop` | is the bookkeeping right whatever is asked for and through a reload that changes MaxConnections: connection count, descriptor sets, sleeping on the right descriptor, keepalive |
| `loop_live` | does every sleeper wake, does SIGTERM end the server, and do its stages leave the descriptor sets right |
| `output` | does a client get the bytes produced for it, in order, all of them, and does every answer end |
| `workers` | are lists and walks sound, does a worker's answer reach the client it was made for, does polling end |
| `mmap_cache` | is the table exact, and does it implement `Mappings` |
| `ranges` | are the bytes sent the ones asked for |
| `config_reload` | is the configuration in force the one of the last load, whatever earlier files and requests left behind |
| `v_*` | disagreements between the code and what its documents or comments say |

Passing properties:

* `Accounting`: `total_connections` is exact.
* `WatchedExactly`: at every `select` the sets hold exactly the descriptors the
  blocked requests wait for, open ones, within `max_fd`.
* `WaitsForItsCause`: a request sleeps on the descriptor that blocked it, but for
  a program's output the client refuses (`WritesUnnoticed`).
  `RecognisesKeepalive`, for reloads that leave KeepAliveMax alone.
* `NoSleeperForgotten`: every blocked request wakes.  `LameDuckEnds`: a SIGTERM
  that finds a connection open, at whatever point of the loop, ends the server.
* `OrderKept`, `AnswerWhole`: without one of the two faults the socket is given
  the stream in order, and all of it before the connection is kept alive or
  closed.  `AnswerEnds`: every answer ends, whatever client, file and program do.
* `ListsSound`, `Linked`, `WalkVisitsAll`: the linked lists hold exactly the
  requests put on them, and a walk visits each request that was there at its
  start once.  `AskerPolls`: a job's descriptor number still belongs to the
  connection that asked.  `OwnOutput`: what is written to a client was made for
  it.  `PollEnds`: polling ends unless the worker failed.
* `Counts`, `HoldsWhatItAsked`, `NoMappingLost`, `ImplementsMappings` for the mmap cache.
* `InsideFile`, `NoRangeLost`, `PartsAreWhole`, `AnswersTheHeader` for ranges;
  `PartsAreWhole` compares the bytes sent with the numbers printed, for files
  whose size an `unsigned int` holds.
* `AliasesFollowFile`, `MimeFollowsFile`: after every load the tables are those of
  the file just read.  `NumbersAfterLoad`: so is KeepAliveMax when the file has a
  line for it, and MaxConnections is usable whatever was written.
  `CachesReread`: home directories and access rules read before the last SIGHUP
  are not used, and a host has its `.htaccess` and the lines meant for it, in
  files that name the server above its rules.  `DocrootIsFresh`: the cached
  document root is current.

Findings (each is a `v_*` run; `PROJECT.json` quotes the line contradicted):

* `v_unsent`: `free_request` drops buffered output when its last flush meets
  `EAGAIN`.
* `v_docroot`: a DocumentRoot changed in the file is not in force after SIGHUP,
  because the preference table keeps the first value it was given.
* `v_leftover`: worker output of more than a buffer that a client did not take
  stays in `req->buff` when the connection dies, and the next connection on the
  structure is sent it, as the answer or, while its own worker is at work, as a
  CGI header (`ReadLeftover`).
* `v_accept`: MaxConnections + 1 connections are accepted
  (doc/crotalus.texi:451-453; at most one too many, `NeverTwoBeyond`).
* `v_table`: the mmap table takes MMAP_LIST_USE_MAX + 1 entries
  (`mmap_cache.c:73-75`; again at most one too many).

More disagreements follow from the model and have no run of their own:
a SIGTERM between the flag test and `select` with no connection open waits for
the next client (`select.c:95`; CHANGES:722), which is why `LameDuckEnds` asks
for an open connection; a complete request already in `client_stream` may be
timed out as an idle connection (`request.c:404`; CHANGES:633 "pipelining
changes... it works now"); a suffix range as long as the file or longer loses
the first byte (`range.c:178`; the comment above it says "last N bytes of the
entity body"), so `AnswersTheHeader` asks for `ShortSuffix`; a range ending at
exactly 2^32 - 1 is taken for one without an end (`range.c:156`);
a directory listing whose header was flushed in part is read into the same
buffer and written ahead of the rest of that header (`request.c:492`,
`get.c:552`, against "I get all the buffer!" at `mime_cgi.c:924`): the
"overtaken" of `OrderKept`, as is the NUL of `pipe.c:83` stored over an unsent
byte of that header; the part trailer that "will fit due to the 256 extra
bytes_free" (`get.c:396`) need not fit, since the 256 bytes are compared with and
not set aside, and is then lost, because `complete_response` overwrites the DEAD
that `req_write` leaves with DONE (`response.c:177`); Content-Range and
Content-Length of files above 4 GB are printed modulo 2^32 (`util.c:505`), so
`PartsAreWhole` asks for smaller ones; a failed worker's request
polls for ever and a shutdown never completes (`mime_cgi.c:564`), which
`PollEnds` leaves out; a script that cannot be started is sent as a file
(`request.c:901`); an access denied after `open()` leaves the descriptor open
(`get.c:108`); after `crpref_docroot` has set `pref_stamp` back, the other
`crpref_*` functions may keep an old copy (`cr_pref.c:174`);
a CGI request whose client is slow sleeps on the CGI pipe (`pipe.c:99`;
`WritesUnnoticed`); `bytes=-` is accepted on LP64 against
the comment "both are -1 :: impossible" (`range.c:145`);
changing KeepAliveMax by SIGHUP makes `kacount < ka_max` take new connections
for kept-alive ones or the other way round (in the runs a SIGHUP changes
MaxConnections only); and a Range header after a valid range ending at INT_MAX is
ignored (`IgnoreHeader`), because `range_abort` marks with -1 and not INT_MAX.
In the configuration: VHostRoot always ends the program, since a document root
always has a value (`MutuallyExclusive`); Allow and Deny lines above the
ServerName line go to the list of the empty name (`config.c:141`), although
directives "can occur in any order" (doc/crotalus.texi:242-243), so
`CachesReread` asks for `NameFirst`; output filters of `.htaccess` files outlive
a SIGHUP and the first one read stays (`cr_access.c:177`), although the HUP
signal is said to reload these files (CHANGES:15-17); a KeepAliveMax line that
is commented out gives the built-in value (`config.c:161`), although this is how
to "disable keepalive processing" (doc/crotalus.texi:393-395,
doc/boa.8:172-174), so `NumbersAfterLoad` says nothing of such a file; an AddType
line loses to `mime.types` (`cr_hash.c:216`), although it is said to associate
the type with the extension (doc/crotalus.texi:413-415), and `MimeFollowsFile`
states what the code does; a misspelt keyword ends the running server at a
reload (`UnknownKeyword`); a removed
MaxConnections or VirtualHost line stays in force after a reload; an alias for
"/" covers "/" only, being hashed apart from other paths.

### Bounds

* Two requests are enough for the interactions there are:
  requests meet only in the connection count, the descriptor sets and the walk
  over the ready list.  MaxConnections is one or two, so the limit is reached
  and exceeded.  `loop` has the kinds small, script and work, and a SIGHUP;
  `loop_live` has small and post, whose programs go through both pipes, and
  SIGTERM.  The other kinds (refused requests, files sent with `sendfile` or from
  a mapping, gzip files, NPH scripts, plain CGI programs) are in no run of the
  loop, for the sake of its size; the theorems cover them, `SleepsOnItsCause`
  just the files that the run leaves out.
* `MaxPipe` 1 lets a second request wait in `client_stream` behind the one being
  served; `MaxWork` 1 makes every read and write able to be
  partial once.
* Timeouts of one tick (zero for requests in `loop_live`): ages beyond the
  timeout behave alike.
* Output: a buffer of four bytes, headers of two, a socket that holds two, ranges
  of one to four bytes and a list of two ranges, programs that put out nothing
  or three bytes, two requests on the connection: headers fill half of the
  buffer, as they may in the code, data passes its end, and every flush can be
  partial.
* Workers: three structures, three connections on three descriptor numbers, so
  that a number and a structure are used again while another connection is
  open.  `MaxChunks` 1: an answer fits the buffer (`OwnOutput` is false of the
  code otherwise, `v_leftover`, for which one structure and two connections do).
* mmap cache: four slots, four requests, five file versions, of which three
  start at the same slot, one at the next and one at the last (probes wrap);
  the limit is 3 entries.  Symmetry over the requests is sound: no property
  names one.
* Ranges: six characters hold two ranges or a range and a suffix; the digits
  1, 5 and 7 reach INT_MAX (7), `(unsigned) -1` (15) and overflow (above 63).
  The file sizes lie below, between and above the widths of int and unsigned.

* Configuration: every file of up to two lines over seventeen lines, and three
  aliases for names that collide, so that a repeated name meets itself before the
  end of a chain; two hosts, one user, two contents of `.htaccess`, two seconds.
  Any number of reloads; two lines are enough for one to follow, precede, repeat
  or contradict another.  `v_docroot` needs two document roots only.

### Fairness

`FairSpec` assumes that the process runs (weak fairness of its own steps), that
`select` returns when it was given a timeout, which is when a request is on a
list, and that time passes.  Time is strongly fair because `Tick` is enabled
only inside `select`, again and again.  No client is obliged to send or read
anything.  The worker pool is left out of `loop_live`: a request polled
for stays on the ready list, where timeouts are not examined, as long as its
worker does not answer.  `output` assumes the same: the process moves on while it
works on the request, `select` returns when what a request waits for has
happened or its time is up, and time passes.  `workers` assumes, besides the
loop's own steps, that each worker answers or fails in the end (strong fairness
per connection, since an answer is collected only when some request polls).

## Proofs

Checked by TLAPS, for every value of the constants that satisfies the named
assumptions: finite set of requests, positive limits, natural timeouts, integer
widths in their order, headers of at most half the output buffer; and of a
configuration file that its lines have the arguments `parse` demands of them.

* `HandlersProofs`: `HandleTied`, every outcome of `Handle` is a well-formed
  request with a return value in {-1, 0, 1, 2}, with the client socket, the data
  pipe and the keepalive counter as they were; a request that is to be blocked
  holds the descriptor it will wait for.  One lemma per handler.
* `EventLoopProofs`: `Invariance`, `TypeCorrect`, `AccountingHolds`,
  `NeverTwoBeyond`.  `Accounting` is not inductive: that `CloseConnection`
  decrements a positive count needs the request being visited to be on the ready
  list, which needs the walk (`todo`, `cur`) to be tied to the list (`WalkOK`);
  `NeverTwoBeyond`, the limit the code does keep, needs `pending` to be set only while the limit is not exceeded
  (`GateOK`), across the actions in between.  `IndInv` is the conjunction; one
  lemma per action.
* `DescriptorProofs`: `SetsWatchExactly`, `KeepaliveRecognised`,
  `SleepsOnItsCause`.  `Moves` says what each step of the loop does to each
  request (it stays, wakes, starts, runs, sleeps, ends, is rearmed or closed);
  the invariants of single requests are read off it.  `WatchedExactly` holds at
  `select` only.  In between, `SetsOK` says that nobody who sleeps is missing from
  the sets and that what else is in them is `Leftover`: the bits of a request
  that `fdset_update` found timed out, which `free_request` takes out later in
  the same turn, before `select` is called again.  Two theorems have a
  hypothesis.  `KeepaliveRecognised` asks for one value of KeepAliveMax, because
  a reload that changes it makes the property false of the code;
  `SleepsOnItsCause` asks for requests for files, because a program's slow
  client makes it false.
* `OutputStreamProofs`: `InvAlways`, `TypeCorrect`, `OrderAlwaysKept`,
  `AnswersWhole`, for any sizes.  `OrderKept` speaks of the bytes the socket took
  and is not inductive.  The invariant says where the others are: the buffer
  continues what was sent (`Follows`), the window a program's output moves through
  continues the buffer, with the server's own header to come in between while
  the program's is being parsed (`Continues`), and nothing else was produced.
  One lemma per function that moves bytes, then one per handler.
* `WorkerPoolProofs`: `ListsCorrect`, `TypeCorrect`, `LinkedCorrect`,
  `ListsSoundAlways`, `WalksComplete`, `AskerCorrect`, `OwnOutputCorrect`.  That a
  move keeps the lists linked needs them to be free of cycles, stated without
  recursion by ranks that grow along `next` (`Acyclic`), and the request a walk is
  at to be on the list it walks.
  `ListsSound` and `WalkVisitsAll` follow `next` by a recursive function; the
  inductions this needs are made with sets (a non-empty set of finite sets has
  a member that is minimal under inclusion).  A path stays on its list, visits
  nothing twice because ranks grow, and so ends; the requests on it are the least
  set closed under `next`, so that a new head or a moved request changes them as
  expected.
  `AskerPolls` and `OwnOutput` are proved together, for answers that fit the
  buffer (`OneBuffer`): open connections differ in `fd`, a request that polls
  stays on the ready list until its answer came, and `buff` holds only output
  made for the present connection; should such a request find output, even
  `ReadLeftover` takes only its own.
* `MmapCacheProofs`: `CacheInvariant`, `TypeCorrect`, `CountsHold`,
  `HoldersKeepTheirFile`, `MappingsKept`, `NeverTwoBeyond`
  and the refinement `CacheImplementsMappings`.  The conjunction of the run's
  invariants is inductive: a slot is free exactly when nobody points at it, so
  reusing it disturbs no holder.
* `RangesProofs`: `RangesInvariant`, `TypeCorrect`, `NothingOutsideFile`,
  `EveryRangeAccounted`, `EveryPartWhole`, `HeaderAnswered`.
  The strengthening says that what `ranges_fixup` has kept so far already lies
  inside the file, and that only `ranges_fixup` has ranges in hand.
  `PartsAreWhole` needs that the numbers printed of a small file are those of the
  range, and `ListCounted` besides: `complete_response` asks
  `numranges`, counted while parsing, whether a part may follow, so no list may
  be longer than the count.
  `HeaderAnswered` proves `AnswersTheHeader` for any digits, text, widths and file
  size.  `AskedInv` says at every step what stands for which piece of the text:
  `Reading`, what the parser's mode, `start` and `stop` know of the piece being
  read; `Stands`, a submitted range and its piece; `FixedSoFar`, the ranges
  `ranges_fixup` kept and what the pieces before ask for; `Answered`, the parts
  sent and the ranges left.  A variable holds its number only as long as the
  number fits (`Holds`): multiplying wraps, but a number that fits has only
  beginnings that fit, so an earlier wrap is never seen in one that does.  The
  reference is recursive over the text; its equation, its type and what one more
  character does are proved by the same induction with sets as above
  (`TakesExists`, `TakesUnique`).
* `ConfigurationProofs`: `TypeCorrect`, `DocrootFresh`, `MimeFromFile`,
  `NumbersFromFile`, `AliasesFromFile`, `CachesFromLoad`.  `DocrootIsFresh` is not
  inductive: a preference set in the second its copy was taken would leave equal
  stamps.  The strengthening `Fresh` says why that does not happen:
  `crpref_docroot` never writes its own stamp, which stays 0, a time no change
  has; it resets `pref_stamp` instead.  Lemmas show that every `crpref_*` call
  keeps `Fresh`, and one case per action does the rest.
  The other four compare a table with the whole file once it is loaded; their
  invariants (`MimeInv`, `NumbersInv`, `AliasInv`, `CachesInv`) say the same, during a
  load, of the lines before the next one, and that nothing of the load before
  is left when the first line is read.  For aliases that means, of each
  path, that the first entry of its chain that covers it is the one of the first
  such line, and that no entry does when no line does: a name `add_alias` enters
  twice stands behind its first entry, where `find_alias` does not come.

Every invariant a passing run checks is stated by a theorem, and so is the
refinement (`WaitsForItsCause` for requests for files, `RecognisesKeepalive`,
`AskerPolls` and `OwnOutput` under the hypotheses named).  Only model-checked is liveness (`NoSleeperForgotten`,
`LameDuckEnds`, `AnswerEnds`, `PollEnds`), which needs fairness and ENABLED.

## Not modelled

Contents of headers, pages and files; logging and status counters; `EINTR`
retries (a stutter); `EBADF` from `select`; SIGCHLD and SIGALRM (reap, log);
compression and what output filters do to the bytes; splitting a configuration line into words, and
the keywords that set values only other parts read; start-up; `poll.c` and
`io_shuffle`, which the default Linux build does not contain; libshare (its use
by `shbuff.c` is modelled); the PHP front end and the trees under `php/` and
`lib/`, which are other projects.  A freed
request structure is normalised to its blank form, because the code clears it
before the next use.  `EventLoop` abstracts the
order of the lists, which `WorkerPool` has.

## Plan

1. Done: the event loop and its handlers, the linked lists, the output stream,
   the worker pool, the mmap cache, byte ranges, the configuration with its
   caches, and theorems about all of them.
2. `Configuration`: script aliases and redirects (`init_script_alias`);
   `hash_insert`, `hash_find` and `hash_clear` on
   chains against a finite map.
3. URI unescaping and cleaning (`util.c`, `escape.c`) as operators checked
   against references.
