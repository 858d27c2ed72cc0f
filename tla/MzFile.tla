------------------------------- MODULE MzFile -------------------------------
(***************************************************************************)
(* What mz c and mz d do with one file (cmd/mz/compress.go processStream,  *)
(* processBlock and verifyTo, cmd/mz/decompress.go decompressFile): the    *)
(* source, the destination behind a bufio.Writer that is only flushed by a *)
(* deferred call, the verifying goroutine behind a pipe, the removal of    *)
(* the source and the deferred rename of a file compressed in place.       *)
(*                                                                         *)
(* The source is N units; unit i of the result is i, or 0 when it is not   *)
(* what it should be.  Every state of files is what a crash would leave.   *)
(***************************************************************************)
EXTENDS Integers, Sequences

CONSTANTS
  N,               \* units of the source
  Cap,             \* units the bufio.Writer holds
  Room,            \* units the read-ahead buffers hold
  Cpu,             \* units that are being coded
  Jobs             \* the flags, names and inputs that are looked at

ASSUME MzFileAssumption ==
  /\ N \in Nat /\ Cap \in Nat \ {0} /\ Room \in Nat \ {0} /\ Cpu \in Nat \ {0}

VARIABLES
  job,             \* the flags, whether the two names are the same, a bad unit
  files,           \* what is at each name: nothing, an old file, the source, a result
  stage,              \* what the main goroutine is at
  fetched, ended,  \* the units read from the source, and whether it has ended
  taken,           \* how many of them the coder has taken
  flight,          \* the units being coded
  bw,              \* the units in the bufio.Writer
  pipe, toCheck,   \* to the verifier: in the pipe, and taken from it
  ver, checked     \* the verifier: "decoding", "ok" or "failed"; what it has decoded

reading == <<fetched, ended>>
coding == <<taken, flight>>
verifier == <<toCheck, ver, checked>>
mzVars == <<job, files, stage, reading, coding, bw, pipe, verifier>>

Options ==
  [cmd : {"c", "d"}, block : BOOLEAN, recomp : BOOLEAN, verify : BOOLEAN, rm : BOOLEAN,
   safe : BOOLEAN, stdout : BOOLEAN, same : BOOLEAN, bad : 0..N]

\* Only streams are recompressed.  The names are the same with -o, when a .mz is
\* recompressed, and with -block for a name without the extension of blocks.
AllJobs == {j \in Options : /\ j.recomp => j.cmd = "c" /\ ~j.block
                            /\ j.bad > 0 => j.cmd = "d" \/ j.recomp}

ASSUME JobsAssumption == Jobs \subseteq AllJobs

Whole == [i \in 1..N |-> i]
Nothing == [kind |-> "none", data |-> <<>>]
Result(d) == [kind |-> "result", data |-> d]

Decodes == job.cmd = "d" \/ job.recomp
Discards == job.cmd = "d" /\ job.verify
ToFile == ~job.stdout /\ ~Discards
InPlace == job.cmd = "c" /\ ~job.block /\ job.same /\ ToFile

\* The name of what is written.
Dest ==
  IF ~ToFile THEN "stdout" ELSE IF InPlace THEN "tmp" ELSE IF job.same THEN "src" ELSE "dst"
Buffered == ToFile /\ ~job.block

MzInit ==
  /\ job \in Jobs
  /\ \E old \in {Nothing, [kind |-> "old", data |-> <<>>]} :
       files = [src |-> [kind |-> "source", data |-> Whole], dst |-> old,
                tmp |-> Nothing, stdout |-> Result(<<>>)]
  /\ stage = "open" /\ fetched = <<>> /\ ended = FALSE /\ taken = 0 /\ flight = <<>>
  /\ bw = <<>> /\ pipe = <<>> /\ toCheck = <<>> /\ ver = "decoding" /\ checked = <<>>

-----------------------------------------------------------------------------
\* Faulty: the source is removed before errFn has waited for the verifier.
RouteHasty ==
  IF job.cmd = "c"
  THEN IF job.block THEN <<"open", "slurp", "dst", "copy", "remove", "verify", "done">>
       ELSE <<"open", "dst", "copy", "remove", "verify", "flush", "rename", "done">>
  ELSE IF job.block THEN <<"open", "dst", "slurp", "copy", "remove", "done">>
       ELSE <<"open", "dst", "copy", "remove", "flush", "done">>

\* The order things are done in; the deferred calls come last, in their order.
Route ==
  IF job.cmd = "c"
  THEN IF job.block THEN <<"open", "slurp", "dst", "copy", "verify", "remove", "done">>
       ELSE <<"open", "dst", "copy", "verify", "remove", "flush", "rename", "done">>
  ELSE IF job.block THEN <<"open", "dst", "slurp", "copy", "remove", "done">>
       ELSE <<"open", "dst", "copy", "remove", "flush", "done">>

GoOn == \E i \in DOMAIN Route : Route[i] = stage /\ stage' = Route[i + 1]
Running == stage \notin {"done", "failed"}

\* exitErr: os.Exit, without the deferred calls and with bw in memory.
Exit == stage' = "failed"

Open ==
  /\ stage = "open"
  /\ IF InPlace /\ job.rm THEN Exit ELSE GoOn \/ Exit
  /\ UNCHANGED <<job, files, reading, coding, bw, pipe, verifier>>

\* -safe looks whether there is a file, mz d also when it writes to stdout; for a
\* file compressed in place it looks at the temporary name.
InTheWay ==
  /\ job.safe /\ ~Discards /\ (ToFile \/ job.cmd = "d")
  /\ files[IF ToFile THEN Dest ELSE IF job.same THEN "src" ELSE "dst"].kind # "none"

\* os.O_TRUNC empties the file that is there, which may be the source.
OpenDst ==
  /\ stage = "dst"
  /\ \/ /\ ~InTheWay
        /\ files' = [files EXCEPT ![Dest] = Result(<<>>)] /\ GoOn
     \/ Exit /\ UNCHANGED files
  /\ UNCHANGED <<job, reading, coding, bw, pipe, verifier>>

\* The read-ahead goroutine; a block to compress is read by the main one.  What
\* is read is what is there, also when that has been truncated.
Fetch ==
  /\ Running /\ stage # "open" /\ ~ended
  /\ stage = "slurp" \/ (Len(fetched) - taken < Room /\ ~(job.cmd = "c" /\ job.block))
  /\ LET there == files["src"]
         k == Len(fetched) + 1
     IN  IF k > Len(there.data) THEN ended' = TRUE /\ UNCHANGED fetched
         ELSE /\ fetched' = Append(fetched, IF there.kind = "source" THEN k ELSE 0)
              /\ UNCHANGED ended
  /\ UNCHANGED <<job, files, stage, coding, bw, pipe, verifier>>

\* io.ReadAll.
Slurp ==
  /\ stage = "slurp"
  /\ (ended /\ GoOn) \/ Exit
  /\ UNCHANGED <<job, files, reading, coding, bw, pipe, verifier>>

\* A read of a stream fails: ReadFrom or DecodeConcurrent get the error behind
\* what was read before it.
FetchFails ==
  /\ stage = "copy" /\ ~job.block /\ ~ended /\ taken = Len(fetched) /\ Exit
  /\ UNCHANGED <<job, files, reading, coding, bw, pipe, verifier>>

Refused(u) == Decodes /\ u \in {0, job.bad}

\* A block: minlz.Encode or minlz.Decode and one Write, which may fall short.
\* An encoder may be at fault, which is what -verify is for.
CopyBlock ==
  /\ stage = "copy" /\ job.block
  /\ \/ /\ ~(Decodes /\ (Len(fetched) # N \/ \E i \in DOMAIN fetched : Refused(fetched[i])))
        /\ \E wrong \in IF Decodes THEN {0} ELSE 0..N, n \in 0..N :
             LET result == [i \in DOMAIN fetched |-> IF i = wrong THEN 0 ELSE fetched[i]]
             IN  /\ n <= Len(result)
                 /\ files' = [files EXCEPT ![Dest] = Result(SubSeq(result, 1, n))]
                 /\ IF n = Len(result) THEN GoOn ELSE Exit
        /\ taken' = Len(fetched)
     \/ Exit /\ UNCHANGED <<files, taken>>
  /\ UNCHANGED <<job, reading, flight, bw, pipe, verifier>>

\* A stream: ReadFrom or DecodeConcurrent take the input, with goroutines.
Consume ==
  /\ stage = "copy" /\ ~job.block /\ taken < Len(fetched) /\ Len(flight) < Cpu
  /\ LET u == fetched[taken + 1]
     IN  IF Refused(u) THEN Exit /\ UNCHANGED <<flight, taken>>
         ELSE /\ taken' = taken + 1 /\ UNCHANGED stage
              /\ \E c \in IF job.cmd = "c" THEN {u, 0} ELSE {u} : flight' = Append(flight, c)
  /\ UNCHANGED <<job, files, reading, bw, pipe, verifier>>

\* They write the results in order, behind the MultiWriter also to the pipe.
Write(u) ==
  IF ~Buffered THEN files' = [files EXCEPT ![Dest].data = Append(@, u)] /\ UNCHANGED bw
  ELSE IF Len(bw) < Cap THEN bw' = Append(bw, u) /\ UNCHANGED files
  ELSE files' = [files EXCEPT ![Dest].data = @ \o bw] /\ bw' = <<u>>

Emit ==
  /\ stage = "copy" /\ flight # <<>> /\ pipe = <<>>
  /\ Write(Head(flight)) /\ flight' = Tail(flight)
  /\ pipe' = IF job.cmd = "c" /\ job.verify THEN <<Head(flight)>> ELSE <<>>
  /\ UNCHANGED <<job, stage, reading, taken, verifier>>

\* An error of a write, of a block or of the end marks of Close, reaches ReadFrom,
\* Close or DecodeConcurrent and ends it all.
EmitFails ==
  /\ stage = "copy" /\ ~job.block /\ pipe = <<>>
  /\ flight # <<>> \/ (job.cmd = "c" /\ ended /\ taken = Len(fetched))
  /\ \E n \in 0..Len(bw) : files' = [files EXCEPT ![Dest].data = @ \o SubSeq(bw, 1, n)]
  /\ Exit
  /\ UNCHANGED <<job, reading, coding, bw, pipe, verifier>>

\* Faulty: the verifier does not close the pipe and the write to it stays.
PipeStays == FALSE

\* The write to the pipe gets the verifier's error.
PipeRefuses ==
  /\ stage = "copy" /\ pipe # <<>> /\ ver = "failed" /\ Exit
  /\ UNCHANGED <<job, files, reading, coding, bw, pipe, verifier>>

\* The input has ended and Close has waited for all writes.  A decoder accepts a
\* stream that is not there at all and none that breaks off.
CopyDone ==
  /\ stage = "copy" /\ ~job.block /\ ended /\ taken = Len(fetched)
  /\ IF Decodes /\ taken \notin {0, N} THEN Exit ELSE flight = <<>> /\ pipe = <<>> /\ GoOn
  /\ UNCHANGED <<job, files, reading, coding, bw, pipe, verifier>>

-----------------------------------------------------------------------------
(* verifyTo.                                                               *)

VerifierTakes ==
  /\ Running /\ ver = "decoding" /\ pipe # <<>>
  /\ toCheck' = toCheck \o pipe /\ pipe' = <<>>
  /\ UNCHANGED <<job, files, stage, reading, coding, bw, ver, checked>>

VerifierDecodes ==
  /\ Running /\ ver = "decoding" /\ toCheck # <<>>
  /\ IF Head(toCheck) = 0 THEN ver' = "failed" /\ UNCHANGED checked
     ELSE checked' = Append(checked, Head(toCheck)) /\ UNCHANGED ver
  /\ toCheck' = Tail(toCheck)
  /\ UNCHANGED <<job, files, stage, reading, coding, bw, pipe>>

\* The pipe has been closed by errFn and all of it is decoded.
VerifierEnds ==
  /\ stage = "verify" /\ ~job.block /\ ver = "decoding" /\ toCheck = <<>>
  /\ ver' = "ok"
  /\ UNCHANGED <<job, files, stage, reading, coding, bw, pipe, toCheck, checked>>

\* Faulty: errFn does not wait.
VerifiedSoon ==
  /\ stage = "verify"
  /\ IF ver = "failed" THEN Exit ELSE GoOn
  /\ UNCHANGED <<job, files, reading, coding, bw, pipe, verifier>>

\* errFn waits for the verifier; a block is decoded here.
Verified ==
  /\ stage = "verify"
  /\ IF ~job.verify THEN GoOn
     ELSE IF job.block THEN (IF files[Dest].data = fetched THEN GoOn ELSE Exit)
     ELSE \/ ver = "ok" /\ GoOn
          \/ ver = "failed" /\ Exit
  /\ UNCHANGED <<job, files, reading, coding, bw, pipe, verifier>>

-----------------------------------------------------------------------------
\* os.Remove, with -rm.
Remove ==
  /\ stage = "remove"
  /\ IF job.rm /\ ~Discards
     THEN \/ files' = [files EXCEPT !["src"] = Nothing] /\ GoOn
          \/ Exit /\ UNCHANGED files
     ELSE GoOn /\ UNCHANGED files
  /\ UNCHANGED <<job, reading, coding, bw, pipe, verifier>>

\* defer bw.Flush(): nobody looks at its error, nor at the one of Close.
Flush ==
  /\ stage = "flush"
  /\ \E n \in 0..Len(bw) :
       /\ files' = [files EXCEPT ![Dest].data = @ \o SubSeq(bw, 1, n)]
       /\ bw' = SubSeq(bw, n + 1, Len(bw))
  /\ GoOn
  /\ UNCHANGED <<job, reading, coding, pipe, verifier>>

\* defer os.Rename, when the file is compressed in place.
Rename ==
  /\ stage = "rename"
  /\ IF InPlace
     THEN \/ files' = [files EXCEPT !["src"] = files["tmp"], !["tmp"] = Nothing] /\ GoOn
          \/ Exit /\ UNCHANGED files
     ELSE GoOn /\ UNCHANGED files
  /\ UNCHANGED <<job, reading, coding, bw, pipe, verifier>>

Coder == CopyBlock \/ Consume \/ CopyDone
Main == Open \/ OpenDst \/ Slurp \/ Coder \/ Verified \/ Remove \/ Flush \/ Rename
Output == Emit \/ EmitFails \/ PipeRefuses
Verifier == VerifierTakes \/ VerifierDecodes \/ VerifierEnds

MzNext == Main \/ Fetch \/ FetchFails \/ Output \/ Verifier

\* The goroutines are scheduled, and reads and writes return; nothing has to fail.
MzSpec == MzInit /\ [][MzNext]_mzVars /\ WF_mzVars(Main) /\ WF_mzVars(Fetch) /\ WF_mzVars(Output) /\ WF_mzVars(Verifier)

-----------------------------------------------------------------------------
(* Properties.                                                             *)

Gone == files["src"].kind # "source"

\* Where the result is: a file renamed is at the source's name.
ResultFile == IF InPlace /\ stage = "done" THEN files["src"] ELSE files[Dest]
Handed == ResultFile.data \o bw

\* The source is removed or replaced, and the tool exits well, only with all of
\* the source, in order, in the hands of the output; what was decoded is right,
\* and with -verify what was encoded decodes, although the verifier is a
\* goroutine behind the writer.  (A destination that is the source is another matter.)
GoneIsHanded ==
  (Gone \/ stage = "done") /\ Dest # "src" =>
    /\ Len(Handed) = N
    /\ job.cmd = "d" \/ job.verify => Handed = Whole

\* "Delete source file(s) after success" (compress.go:56): with an exit status
\* other than 0 the source is what it was, at whatever step it failed.
FailureKeepsSource == stage = "failed" /\ Dest # "src" => ~Gone

\* The tool ends: no write waits for a verifier that has given up, and errFn
\* does not wait for one that waits for it.
Ends == <>(stage \in {"done", "failed"})

=============================================================================
