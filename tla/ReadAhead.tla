----------------------------- MODULE ReadAhead -----------------------------
(***************************************************************************)
(* The read-ahead reader of the command line tool                          *)
(* (cmd/internal/readahead/reader.go): a goroutine reads the input into    *)
(* buffers and sends them on the channel ready; the user takes them from   *)
(* there and gives them back on reuse.  Seek and Close stop the goroutine. *)
(*                                                                         *)
(* The input is size units, numbered from 0; a buffer knows which it holds *)
(* (lo .. hi-1) and how many of them have been served (up to off).         *)
(***************************************************************************)
EXTENDS Integers, Sequences, Functions

CONSTANTS
  Buffers,         \* the number of buffers
  BufSize,         \* the size of each
  Sizes,           \* bound: the sizes an input may have
  MaxSeeks         \* bound: calls of Seek

ASSUME ReadAheadAssumption ==
  /\ Buffers \in Nat \ {0} /\ BufSize \in Nat \ {0}
  /\ Sizes \subseteq Nat /\ MaxSeeks \in Nat

VARIABLES
  size, pos,       \* the input, and where it is read next
  shut,            \* it has been closed
  closer,          \* Close will close it
  buf,             \* the buffers
  reuse, ready,    \* the channels, of the numbers of buffers
  gor,             \* the goroutine: "select", "read" or "exited"
  held,            \* the buffer it reads into, 0 for none
  atEOF,           \* it has delayed the end of the input
  cur,             \* the buffer being served, 0 for nil
  err,             \* a.err: "none", "eof", "io" or "closed"
  pc, call,        \* the user: where in a call, and [op, n]
  at,              \* history: the position of the user
  seen,            \* history: the position last wanted, by a serve or a SeekCurrent
                   \* of an open buffer, and the one that was got
  seeks            \* history: calls of Seek

input == <<size, pos, shut, closer>>
queues == <<buf, reuse, ready>>
goroutine == <<gor, held, atEOF>>
user == <<cur, err, pc, call>>
history == <<at, seen, seeks>>
vars == <<input, queues, goroutine, user, history>>

Ids == 1..Buffers
Unread(b) == buf[b].hi - buf[b].off

\* initBuffers: everything starts anew at the position the input has.
Fresh ==
  /\ buf' = [b \in Ids |-> [lo |-> 0, hi |-> 0, off |-> 0, err |-> "none"]]
  /\ reuse' = [b \in Ids |-> b] /\ ready' = <<>>
  /\ gor' = "select" /\ held' = 0 /\ atEOF' = FALSE
  /\ cur' = 0 /\ err' = "none"

Init ==
  /\ size \in Sizes /\ pos = 0 /\ shut = FALSE /\ closer \in BOOLEAN
  /\ buf = [b \in Ids |-> [lo |-> 0, hi |-> 0, off |-> 0, err |-> "none"]]
  /\ reuse = [b \in Ids |-> b] /\ ready = <<>>
  /\ gor = "select" /\ held = 0 /\ atEOF = FALSE
  /\ cur = 0 /\ err = "none"
  /\ pc = "idle" /\ call = [op |-> "none", n |-> 0]
  /\ at = 0 /\ seen = [want |-> 0, got |-> 0] /\ seeks = 0

-----------------------------------------------------------------------------
(* The goroutine.                                                          *)

\* Faulty: at the end the buffer goes round instead of carrying the news.
TakeSpins ==
  /\ gor = "select" /\ reuse # <<>>
  /\ IF atEOF
     THEN reuse' = Append(Tail(reuse), Head(reuse)) /\ UNCHANGED <<held, gor>>
     ELSE reuse' = Tail(reuse) /\ held' = Head(reuse) /\ gor' = "read"
  /\ UNCHANGED <<input, buf, ready, atEOF, user, history>>

\* It has a buffer; at the end, which it has held back, only to say so.
Take ==
  /\ gor = "select" /\ reuse # <<>>
  /\ reuse' = Tail(reuse)
  /\ IF atEOF
     THEN /\ buf' = [buf EXCEPT ![Head(reuse)] = [lo |-> pos, hi |-> pos, off |-> pos, err |-> "eof"]]
          /\ ready' = Append(ready, Head(reuse)) /\ gor' = "exited" /\ UNCHANGED held
     ELSE held' = Head(reuse) /\ gor' = "read" /\ UNCHANGED <<buf, ready>>
  /\ UNCHANGED <<input, atEOF, user, history>>

\* Faulty: what was read before the end is not sent.
OutcomesDropTail ==
  LET full == IF size - pos < BufSize THEN size - pos ELSE BufSize
  IN  {[n |-> n, err |-> "io"] : n \in 0..full} \cup
      (IF full = BufSize THEN {[n |-> full, err |-> "none"]} ELSE {[n |-> 0, err |-> "eof"]})

\* b.read fills the buffer unless an error comes first, with it or before it
\* the data up to there; the end may come with the last data or behind them.
Outcomes ==
  LET full == IF size - pos < BufSize THEN size - pos ELSE BufSize
  IN  {[n |-> n, err |-> "io"] : n \in 0..full} \cup
      (IF full = BufSize THEN {[n |-> full, err |-> "none"]} ELSE {}) \cup
      (IF full = size - pos THEN {[n |-> full, err |-> "eof"]} ELSE {})

\* The end of the input is kept back when there are data to send before it.
Delivered(o) ==
  /\ pos' = pos + o.n
  /\ buf' = [buf EXCEPT ![held] = [lo |-> pos, hi |-> pos + o.n, off |-> pos,
                                   err |-> IF o.n > 0 /\ o.err = "eof" THEN "none" ELSE o.err]]
  /\ atEOF' = (o.n > 0 /\ o.err = "eof")
  /\ gor' = IF buf'[held].err = "none" THEN "select" ELSE "exited"

\* a.ready has room for all buffers; the deferred calls close it at an exit.
Deliver ==
  /\ gor = "read"
  /\ \E o \in Outcomes : Delivered(o)
  /\ ready' = Append(ready, held) /\ held' = 0
  /\ UNCHANGED <<size, shut, closer, reuse, user, history>>

-----------------------------------------------------------------------------
(* Calls.  One with an error set returns it and is no step.                *)

Call(op, n, stage) ==
  /\ pc = "idle" /\ pc' = stage /\ call' = [op |-> op, n |-> n]
  /\ UNCHANGED <<input, queues, goroutine, cur, err, at, seen>>

CallRead(n) == err = "none" /\ Call("Read", n, "fill") /\ UNCHANGED seeks
CallWriteTo == err = "none" /\ Call("WriteTo", 0, "fill") /\ UNCHANGED seeks
CallSeek(whence, n) ==
  /\ seeks < MaxSeeks /\ seeks' = seeks + 1
  /\ Call(whence, n, "stop")
CallClose == Call("Close", 0, "stop") /\ UNCHANGED seeks

Idle == pc' = "idle" /\ call' = [op |-> "none", n |-> 0]

\* fill: a buffer that is served is given back, and another one awaited.
FillServed ==
  /\ pc = "fill" /\ cur # 0 /\ Unread(cur) = 0
  /\ reuse' = Append(reuse, cur) /\ cur' = 0
  /\ UNCHANGED <<input, buf, ready, goroutine, err, pc, call, history>>

FillReady ==
  /\ pc = "fill" /\ cur = 0 /\ ready # <<>>
  /\ cur' = Head(ready) /\ ready' = Tail(ready) /\ pc' = "serve"
  /\ UNCHANGED <<input, buf, reuse, goroutine, err, call, history>>

FillRest ==
  /\ pc = "fill" /\ cur # 0 /\ Unread(cur) > 0
  /\ pc' = "serve"
  /\ UNCHANGED <<input, queues, goroutine, cur, err, call, history>>

\* ready is closed and empty.
FillClosed ==
  /\ pc = "fill" /\ cur = 0 /\ ready = <<>> /\ gor = "exited"
  /\ err' = "closed" /\ Idle
  /\ UNCHANGED <<input, queues, goroutine, cur, history>>

\* n units of the buffer go to the user.
Serve(n) ==
  /\ at' = at + n
  /\ seen' = [want |-> at, got |-> buf[cur].off]
  /\ buf' = [buf EXCEPT ![cur].off = @ + n]

\* Faulty: the buffer goes back to the goroutine and is still current.
GiveBackTwice(n) ==
  IF Unread(cur) = n
  THEN err' = buf[cur].err /\ reuse' = Append(reuse, cur) /\ UNCHANGED cur
  ELSE UNCHANGED <<err, reuse, cur>>

\* Read gives the buffer back at once when it is empty, and takes its error.
GiveBack(n) ==
  IF Unread(cur) = n
  THEN err' = buf[cur].err /\ reuse' = Append(reuse, cur) /\ cur' = 0
  ELSE UNCHANGED <<err, reuse, cur>>

ServeRead ==
  /\ pc = "serve" /\ call.op = "Read"
  /\ LET n == IF call.n < Unread(cur) THEN call.n ELSE Unread(cur)
     IN  Serve(n) /\ GiveBack(n)
  /\ Idle
  /\ UNCHANGED <<input, ready, goroutine, seeks>>

\* WriteTo writes what the buffer has and goes on until the input ends.
ServeWrite ==
  /\ pc = "serve" /\ call.op = "WriteTo"
  /\ Serve(Unread(cur)) /\ err' = buf[cur].err
  /\ IF err' = "none" THEN pc' = "fill" /\ UNCHANGED call ELSE Idle
  /\ UNCHANGED <<input, reuse, ready, goroutine, cur, seeks>>

\* The writer fails, whatever it has taken; an error the buffer holds stays there,
\* and is gone when nothing of the buffer is left.
WriteFails ==
  /\ pc = "serve" /\ call.op = "WriteTo"
  /\ \E n \in 0..Unread(cur) : Serve(n)
  /\ Idle
  /\ UNCHANGED <<input, reuse, ready, goroutine, cur, err, seeks>>

-----------------------------------------------------------------------------
(* Seek and Close stop the goroutine first.                                *)

\* The goroutine takes the signal where it waits for a buffer, or has exited.
Stop ==
  /\ pc = "stop" /\ gor \in {"select", "exited"}
  /\ gor' = "exited" /\ pc' = "stopped"
  /\ UNCHANGED <<input, queues, held, atEOF, cur, err, call, history>>

\* Faulty: only what is left of the buffer being served is taken back.
TargetNear ==
  IF call.op = "SeekStart" THEN call.n ELSE pos + call.n - (IF cur = 0 THEN 0 ELSE Unread(cur))

\* SeekCurrent takes back what was read and not served, unless cur is nil.
Ahead ==
  LET sum[i \in 0..Len(ready)] == IF i = 0 THEN Unread(cur) ELSE sum[i - 1] + Unread(ready[i])
  IN  sum[Len(ready)]
Target ==
  IF call.op = "SeekStart" THEN call.n ELSE pos + call.n - (IF cur = 0 THEN 0 ELSE Ahead)

SeekDone ==
  /\ pc = "stopped" /\ call.op \in {"SeekStart", "SeekCurrent"}
  /\ ~shut /\ Target \in 0..size
  /\ pos' = Target /\ at' = Target
  /\ seen' = IF call.op = "SeekCurrent" /\ cur # 0
             THEN [want |-> at + call.n, got |-> Target] ELSE [want |-> 0, got |-> 0]
  /\ Fresh /\ Idle
  /\ UNCHANGED <<size, shut, closer, seeks>>

\* The input refuses; what SeekCurrent has taken back is gone.
SeekFails ==
  /\ pc = "stopped" /\ call.op \in {"SeekStart", "SeekCurrent"}
  /\ IF call.op = "SeekCurrent" /\ cur # 0
     THEN /\ reuse' = reuse \o <<cur>> \o ready /\ ready' = <<>> /\ cur' = 0
          /\ err' = IF err = "none" THEN "closed" ELSE err
     ELSE UNCHANGED <<reuse, ready, cur, err>>
  /\ Idle
  /\ UNCHANGED <<input, buf, goroutine, history>>

\* Close closes the input the first time, and only marks the reader without one.
CloseDone ==
  /\ pc = "stopped" /\ call.op = "Close"
  /\ shut' = (shut \/ closer) /\ closer' = FALSE
  /\ err' = IF closer THEN err ELSE "closed"
  /\ Idle
  /\ UNCHANGED <<size, pos, queues, goroutine, cur, history>>

-----------------------------------------------------------------------------
Goroutine == Take \/ Deliver
InCall ==
  \/ FillServed \/ FillReady \/ FillRest \/ FillClosed
  \/ ServeRead \/ ServeWrite \/ WriteFails
  \/ Stop \/ SeekDone \/ SeekFails \/ CloseDone
Calls ==
  \/ \E n \in 1..(BufSize + 1) : CallRead(n)
  \/ CallWriteTo \/ CallClose
  \/ \E n \in 0..size : CallSeek("SeekStart", n)
  \/ \E n \in -1..1 : CallSeek("SeekCurrent", n)

Next == Goroutine \/ InCall \/ Calls

Spec == Init /\ [][Next]_vars

\* The input's Read and Seek and the writer return; nobody has to call.
FairSpec == Spec /\ WF_vars(Goroutine) /\ WF_vars(InCall)

-----------------------------------------------------------------------------
(* Properties.                                                             *)

\* "This should be fully transparent" (reader.go:6): Read and WriteTo serve the
\* units behind those served before, or from where the last Seek said it went,
\* and SeekCurrent goes from the unit served last while a buffer is open, although
\* the goroutine is ahead and buffers go round.
Transparent == seen.got = seen.want

\* "once an error has been returned from the Reader" (reader.go:6): the end of
\* the input or its error is only reported when all that was read before it has
\* been served, and the end only where the input ends.
ErrorComesLast ==
  /\ err \in {"eof", "io"} => at = pos
  /\ err = "eof" => at = size

\* "Buffers can be reused after Close has been called" (reader.go:151), never
\* before: a buffer is in one of the channels, filled or served, in one place
\* only.  Two places would have the goroutine fill what the user is reading.
BuffersInOnePlace ==
  /\ IsInjective(reuse \o ready)
  /\ held # 0 => held \notin Range(reuse \o ready) \cup {cur}
  /\ cur # 0 => cur \notin Range(reuse \o ready)

\* Every call returns: whichever buffers are where, one of the two sides can go
\* on, and a stop is noticed.
CallsReturn == pc # "idle" ~> pc = "idle"
=============================================================================
