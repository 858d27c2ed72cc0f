--------------------------- MODULE CommandProofs ---------------------------
(***************************************************************************)
(* The command line tool, for inputs of any length and buffers of any size. *)
(* mz: when the source is gone, or mz has exited well, all of it is in the  *)
(* hands of the output, and an exit with an error leaves the source alone.  *)
(* The read-ahead reader it reads through: the user reads the input, an     *)
(* error comes last, and every buffer is in one place.                      *)
(***************************************************************************)
EXTENDS MzFile, ReadAhead, SequenceTheorems, WellFoundedInduction, TLAPS

-----------------------------------------------------------------------------
(* The inductive invariant.                                                *)

Names == {"src", "dst", "tmp", "stdout"}
File == [kind : {"none", "old", "source", "result"}, data : Seq(Nat)]
Stages ==
  {"open", "slurp", "dst", "copy", "verify", "remove", "flush", "rename", "done", "failed"}
SourceFile == [kind |-> "source", data |-> Whole]

MzTypeOK ==
  /\ job \in AllJobs
  /\ files \in [Names -> File]
  /\ stage \in Stages
  /\ fetched \in Seq(Nat) /\ ended \in BOOLEAN
  /\ taken \in Nat /\ flight \in Seq(Nat)
  /\ bw \in Seq(Nat) /\ pipe \in Seq(Nat) /\ toCheck \in Seq(Nat) /\ checked \in Seq(Nat)
  /\ ver \in {"decoding", "ok", "failed"}

\* The stages that only some of the four routes have; a file is never compressed
\* in place to be removed.
RouteInv ==
  /\ stage = "slurp" => job.block
  /\ stage = "verify" => job.cmd = "c"
  /\ stage = "flush" => ~job.block
  /\ stage = "rename" => job.cmd = "c" /\ ~job.block
  /\ InPlace /\ job.rm => stage \in {"open", "failed"}

\* Behind the copying.
Past == {"verify", "remove", "flush", "rename", "done"}

\* The source is there until the removal or the rename.
SourceInv ==
  \/ files["src"] = SourceFile
  \/ stage \in {"flush", "rename", "done"} /\ job.rm /\ ~Discards
  \/ stage = "done" /\ InPlace

\* What has been read is the source, all of it when it has ended, and behind the
\* copying nothing is read any more.
InputInv ==
  /\ Len(fetched) <= N
  /\ \A i \in 1..Len(fetched) : fetched[i] = i
  /\ ended => Len(fetched) = N
  /\ stage \in Past => ended
  /\ job.block /\ (stage = "copy" \/ (stage = "dst" /\ job.cmd = "c")) => ended

\* Unit u in place i: as it should be, or what an encoder at fault has made.
Ok(u, i) == u = i \/ (u = 0 /\ job.cmd = "c")

\* A stream: what is in the hands of the output and what is being coded are the
\* units taken, in order.
CodedInv ==
  /\ taken <= Len(fetched)
  /\ Len(Handed) + Len(flight) = taken
  /\ \A i \in 1..Len(Handed) : Ok(Handed[i], i)
  /\ \A i \in 1..Len(flight) : Ok(flight[i], Len(Handed) + i)
  /\ stage \in Past => flight = <<>> /\ pipe = <<>> /\ taken = Len(fetched)

\* The verifier has decoded, or has before it, what is in the hands of the output.
VerifierInv ==
  /\ ver # "failed" => (checked \o toCheck) \o pipe = Handed
  /\ \A i \in 1..Len(checked) : checked[i] # 0
  /\ ver = "ok" => toCheck = <<>> /\ stage \in Past
  /\ stage \in Past \ {"verify"} => ver = "ok"

NotYet ==
  /\ taken = 0 /\ flight = <<>> /\ bw = <<>>
  /\ pipe = <<>> /\ toCheck = <<>> /\ checked = <<>> /\ ver = "decoding"

\* A block: the encoder's fault is found when the result is decoded.
BlockInv ==
  /\ bw = <<>>
  /\ stage \in Past => Len(Handed) = N
  /\ stage \in Past /\ (job.cmd = "d" \/ (job.verify /\ stage # "verify")) => Handed = Whole

OutputInv ==
  /\ stage \in {"open", "slurp", "dst"} => NotYet
  /\ job.block => BlockInv
  /\ ~job.block /\ stage \in {"copy"} \cup Past =>
       CodedInv /\ (job.cmd = "c" /\ job.verify => VerifierInv)

MzInv ==
  /\ MzTypeOK /\ RouteInv
  /\ ~Buffered => bw = <<>>
  /\ Dest # "src" => SourceInv /\ (stage # "failed" => InputInv /\ OutputInv)

-----------------------------------------------------------------------------
(* Names and routes.                                                       *)

\* The names depend on the flags alone.
LEMMA SameNames ==
  ASSUME job' = job
  PROVE  /\ Dest' = Dest /\ InPlace' = InPlace /\ Discards' = Discards
         /\ Decodes' = Decodes /\ Buffered' = Buffered
  BY DEF Dest, InPlace, Discards, Decodes, Buffered, ToFile

\* What is written has one of the names, and the temporary one in place only.
LEMMA NamesOfDest ==
  /\ Dest \in Names
  /\ InPlace <=> Dest = "tmp"
  /\ InPlace => job.cmd = "c" /\ ~job.block /\ job.same
  BY DEF Dest, InPlace, Names, ToFile

LEMMA FlagsOfJob ==
  ASSUME MzTypeOK
  PROVE  /\ job.cmd \in {"c", "d"} /\ job.block \in BOOLEAN /\ job.recomp \in BOOLEAN
         /\ job.verify \in BOOLEAN /\ job.rm \in BOOLEAN /\ job.same \in BOOLEAN
         /\ job.recomp => job.cmd = "c" /\ ~job.block
  BY DEF MzTypeOK, AllJobs, Options

\* The four routes, stage by stage.
LEMMA NextStage ==
  ASSUME MzTypeOK, RouteInv, GoOn, Running
  PROVE  /\ stage = "open" => stage' = IF job.cmd = "c" /\ job.block THEN "slurp" ELSE "dst"
         /\ stage = "slurp" => stage' = IF job.cmd = "c" THEN "dst" ELSE "copy"
         /\ stage = "dst" => stage' = IF job.cmd = "d" /\ job.block THEN "slurp" ELSE "copy"
         /\ stage = "copy" => stage' = IF job.cmd = "c" THEN "verify" ELSE "remove"
         /\ stage = "verify" => stage' = "remove"
         /\ stage = "remove" => stage' = IF job.block THEN "done" ELSE "flush"
         /\ stage = "flush" => stage' = IF job.cmd = "c" THEN "rename" ELSE "done"
         /\ stage = "rename" => stage' = "done"
<1>1. PICK i \in DOMAIN Route : Route[i] = stage /\ stage' = Route[i + 1]
  BY DEF GoOn
<1>2. job.cmd \in {"c", "d"} /\ job.block \in BOOLEAN
  BY FlagsOfJob
<1>3. stage # "done"
  BY DEF Running
<1>4. CASE job.cmd = "c" /\ job.block
  <2>1. Route = <<"open", "slurp", "dst", "copy", "verify", "remove", "done">>
    BY <1>4 DEF Route
  <2>2. i \in 1..7
    BY <1>1, <2>1
  <2>3. i # 7
    BY <2>1, <1>1, <1>3
  <2>4. i = 1 \/ i = 2 \/ i = 3 \/ i = 4 \/ i = 5 \/ i = 6
    BY <2>2, <2>3
  <2> QED
    BY <1>1, <1>4, <2>1, <2>4 DEF RouteInv
<1>5. CASE job.cmd = "c" /\ ~job.block
  <2>1. Route = <<"open", "dst", "copy", "verify", "remove", "flush", "rename", "done">>
    BY <1>5 DEF Route
  <2>2. i \in 1..8
    BY <1>1, <2>1
  <2>3. i # 8
    BY <2>1, <1>1, <1>3
  <2>4. i = 1 \/ i = 2 \/ i = 3 \/ i = 4 \/ i = 5 \/ i = 6 \/ i = 7
    BY <2>2, <2>3
  <2> QED
    BY <1>1, <1>5, <2>1, <2>4 DEF RouteInv
<1>6. CASE job.cmd = "d" /\ job.block
  <2>1. Route = <<"open", "dst", "slurp", "copy", "remove", "done">>
    BY <1>6 DEF Route
  <2>2. i \in 1..6
    BY <1>1, <2>1
  <2>3. i # 6
    BY <2>1, <1>1, <1>3
  <2>4. i = 1 \/ i = 2 \/ i = 3 \/ i = 4 \/ i = 5
    BY <2>2, <2>3
  <2> QED
    BY <1>1, <1>6, <2>1, <2>4 DEF RouteInv
<1>7. CASE job.cmd = "d" /\ ~job.block
  <2>1. Route = <<"open", "dst", "copy", "remove", "flush", "done">>
    BY <1>7 DEF Route
  <2>2. i \in 1..6
    BY <1>1, <2>1
  <2>3. i # 6
    BY <2>1, <1>1, <1>3
  <2>4. i = 1 \/ i = 2 \/ i = 3 \/ i = 4 \/ i = 5
    BY <2>2, <2>3
  <2> QED
    BY <1>1, <1>7, <2>1, <2>4 DEF RouteInv
<1> QED
  BY <1>2, <1>4, <1>5, <1>6, <1>7

\* The stage that follows is one of the route's.
LEMMA NextStageInv ==
  ASSUME MzTypeOK, RouteInv, GoOn, Running, job' = job, InPlace /\ job.rm => stage # "open"
  PROVE  stage' \in Stages /\ RouteInv'
<1>1. job.cmd \in {"c", "d"} /\ job.block \in BOOLEAN /\ stage \in Stages
  BY FlagsOfJob DEF MzTypeOK
<1>2. InPlace' = InPlace
  BY SameNames
<1> QED
  BY NextStage, <1>1, <1>2 DEF RouteInv, Running, Stages

LEMMA ExitInv ==
  ASSUME Exit, job' = job
  PROVE  stage' \in Stages /\ RouteInv'
  BY DEF Exit, Stages, RouteInv

-----------------------------------------------------------------------------
(* Type correctness.                                                       *)

LEMMA FilesType ==
  ASSUME MzTypeOK, NEW n \in Names, NEW d \in Seq(Nat)
  PROVE  /\ Result(d) \in File /\ Nothing \in File
         /\ [files EXCEPT ![n] = Result(d)] \in [Names -> File]
         /\ [files EXCEPT ![n] = Nothing] \in [Names -> File]
         /\ [files EXCEPT ![n].data = d] \in [Names -> File]
         /\ files[n] \in File /\ files[n].data \in Seq(Nat)
<1>1. Result(d) \in File /\ Nothing \in File
  BY EmptySeq DEF Result, Nothing, File
<1>2. files \in [Names -> File]
  BY DEF MzTypeOK
<1>3. files[n] \in File /\ files[n].data \in Seq(Nat)
  BY <1>2 DEF File
<1>4. [files[n] EXCEPT !.data = d] \in File
  BY <1>3 DEF File
<1>5. [files EXCEPT ![n].data = d] = [files EXCEPT ![n] = [files[n] EXCEPT !.data = d]]
  BY <1>2
<1> QED
  BY <1>1, <1>2, <1>3, <1>4, <1>5

\* The data of one file are others.
LEMMA DataReplaced ==
  ASSUME MzTypeOK, NEW n \in Names, NEW d \in Seq(Nat), files' = [files EXCEPT ![n].data = d]
  PROVE  /\ files' \in [Names -> File] /\ files'[n].data = d
         /\ \A m \in Names \ {n} : files'[m] = files[m]
<1>1. files \in [Names -> File]
  BY DEF MzTypeOK
<1>2. files'[n] = [files[n] EXCEPT !.data = d]
  BY <1>1
<1> QED
  BY <1>1, <1>2, FilesType, ZenonT(30) DEF File

LEMMA AppendBehind ==
  ASSUME NEW d \in Seq(Nat), NEW s \in Seq(Nat), NEW u \in Nat
  PROVE  d \o Append(s, u) = (d \o s) \o <<u>>
<1> DEFINE one == <<u>>
<1>1. Append(s, u) = s \o one
  BY AppendIsConcat
<1>2. d \in Seq(Nat) /\ s \in Seq(Nat) /\ one \in Seq(Nat)
  OBVIOUS
<1> HIDE DEF one
<1>3. (d \o s) \o one = d \o (s \o one)
  BY <1>2, SMTT(30)
<1>4. d \o Append(s, u) = (d \o s) \o one
  BY <1>1, <1>3
<1> QED
  BY <1>4 DEF one

\* A unit is written: the output's hands hold one more, and no other file changes.
LEMMA WriteAppends ==
  ASSUME MzTypeOK, ~Buffered => bw = <<>>, NEW u \in Nat, Write(u)
  PROVE  /\ files' \in [Names -> File] /\ bw' \in Seq(Nat)
         /\ \A n \in Names \ {Dest} : files'[n] = files[n]
         /\ files'[Dest].data \o bw' = (files[Dest].data \o bw) \o <<u>>
         /\ ~Buffered => bw' = <<>>
<1> DEFINE d == files[Dest].data
<1>1. Dest \in Names
  BY NamesOfDest
<1>2. files \in [Names -> File] /\ d \in Seq(Nat) /\ bw \in Seq(Nat)
  BY <1>1, FilesType, EmptySeq DEF MzTypeOK
<1>3. <<u>> \in Seq(Nat) /\ Append(d, u) \in Seq(Nat) /\ Append(bw, u) \in Seq(Nat)
      /\ d \o bw \in Seq(Nat)
  BY <1>2
<1>4. CASE ~Buffered
  <2>1. files' = [files EXCEPT ![Dest].data = Append(d, u)] /\ bw' = <<>> /\ bw = <<>>
    BY <1>4 DEF Write
  <2> DEFINE e == Append(d, u)
  <2>2. files' = [files EXCEPT ![Dest].data = e] /\ e \in Seq(Nat)
    BY <2>1, <1>3
  <2> HIDE DEF e
  <2>3. /\ files' \in [Names -> File] /\ files'[Dest].data = e
        /\ \A m \in Names \ {Dest} : files'[m] = files[m]
    BY <2>2, <1>1, DataReplaced
  <2> USE DEF e
  <2>4. Append(d, u) \o <<>> = (d \o <<>>) \o <<u>>
    BY <1>2, <1>3, ConcatEmptySeq, AppendIsConcat, SMTT(30)
  <2> QED
    BY <2>1, <2>3, <2>4, <1>1, <1>2
<1>5. CASE Buffered /\ Len(bw) < Cap
  <2>1. files' = files /\ bw' = Append(bw, u)
    BY <1>5 DEF Write
  <2>2. d \o Append(bw, u) = (d \o bw) \o <<u>>
    BY <1>2, AppendBehind
  <2> QED
    BY <2>1, <2>2, <1>2, <1>3, <1>5
<1>6. CASE Buffered /\ ~(Len(bw) < Cap)
  <2>1. files' = [files EXCEPT ![Dest].data = d \o bw] /\ bw' = <<u>>
    BY <1>6 DEF Write
  <2> DEFINE e == d \o bw
  <2>2. files' = [files EXCEPT ![Dest].data = e] /\ e \in Seq(Nat)
    BY <2>1, <1>3
  <2> HIDE DEF e
  <2>3. /\ files' \in [Names -> File] /\ files'[Dest].data = e
        /\ \A m \in Names \ {Dest} : files'[m] = files[m]
    BY <2>2, <1>1, DataReplaced
  <2> USE DEF e
  <2> QED
    BY <2>1, <2>3, <1>1, <1>2, <1>3, <1>6
<1> QED
  BY <1>4, <1>5, <1>6

\* A sequence in two parts behind another one.
LEMMA CutInTwo ==
  ASSUME NEW d \in Seq(Nat), NEW s \in Seq(Nat), NEW n \in 0..Len(s)
  PROVE  /\ SubSeq(s, 1, n) \in Seq(Nat) /\ SubSeq(s, n + 1, Len(s)) \in Seq(Nat)
         /\ d \o SubSeq(s, 1, n) \in Seq(Nat)
         /\ (d \o SubSeq(s, 1, n)) \o SubSeq(s, n + 1, Len(s)) = d \o s
<1> DEFINE a == SubSeq(s, 1, n)
           b == SubSeq(s, n + 1, Len(s))
<1>1. a \in Seq(Nat) /\ b \in Seq(Nat) /\ d \o a \in Seq(Nat) /\ Len(s) \in Nat
  BY LenProperties
<1>2. a \o b = s
  <2>1. 1 \in 1..(Len(s) + 1) /\ n \in (1 - 1)..Len(s) /\ Len(s) \in n..Len(s)
    BY <1>1
  <2>2. a \o b = SubSeq(s, 1, Len(s))
    BY <1>1, <2>1, ConcatAdjacentSubSeq
  <2> QED
    BY <2>2, SubSeqFull
<1> HIDE DEF a, b
<1>3. (d \o a) \o b = d \o (a \o b)
  BY <1>1, SMTT(30)
<1> QED
  BY <1>1, <1>2, <1>3 DEF a, b

\* What a write that falls short, or the deferred flush, does to the file.
LEMMA FlushKeeps ==
  ASSUME MzTypeOK, NEW n \in 0..Len(bw),
         files' = [files EXCEPT ![Dest].data = @ \o SubSeq(bw, 1, n)]
  PROVE  /\ files' \in [Names -> File]
         /\ \A m \in Names \ {Dest} : files'[m] = files[m]
         /\ SubSeq(bw, n + 1, Len(bw)) \in Seq(Nat)
         /\ files'[Dest].data \o SubSeq(bw, n + 1, Len(bw)) = files[Dest].data \o bw
<1> DEFINE e == files[Dest].data \o SubSeq(bw, 1, n)
<1>1. Dest \in Names /\ bw \in Seq(Nat)
  BY NamesOfDest DEF MzTypeOK
<1>2. files[Dest].data \in Seq(Nat)
  BY <1>1, FilesType, EmptySeq
<1>3. /\ e \in Seq(Nat) /\ SubSeq(bw, n + 1, Len(bw)) \in Seq(Nat)
      /\ e \o SubSeq(bw, n + 1, Len(bw)) = files[Dest].data \o bw
  BY <1>1, <1>2, CutInTwo
<1>4. files' = [files EXCEPT ![Dest].data = e]
  OBVIOUS
<1> HIDE DEF e
<1>5. /\ files' \in [Names -> File] /\ files'[Dest].data = e
      /\ \A m \in Names \ {Dest} : files'[m] = files[m]
  BY <1>1, <1>3, <1>4, DataReplaced
<1> QED
  BY <1>3, <1>5

LEMMA WholeType == Whole \in Seq(Nat) /\ Len(Whole) = N /\ \A i \in 1..N : Whole[i] = i
<1>1. N \in Nat
  BY MzFileAssumption
<1>2. Whole \in [1..N -> Nat]
  BY <1>1 DEF Whole
<1>3. Whole \in Seq(Nat) /\ DOMAIN Whole = 1..N
  BY <1>1, <1>2
<1>4. Len(Whole) = N
  BY <1>1, <1>3
<1> QED
  BY <1>3, <1>4 DEF Whole

\* What CopyBlock makes of what was read.
LEMMA BlockResult ==
  ASSUME NEW s \in Seq(Nat), NEW wrong \in Nat, NEW n \in Nat
  PROVE  LET r == [i \in DOMAIN s |-> IF i = wrong THEN 0 ELSE s[i]]
         IN  /\ Len(r) = Len(s)
             /\ n <= Len(s) => SubSeq(r, 1, n) \in Seq(Nat)
             /\ SubSeq(r, 1, Len(s)) = r
             /\ wrong = 0 => r = s
<1> DEFINE r == [i \in DOMAIN s |-> IF i = wrong THEN 0 ELSE s[i]]
<1>1. DOMAIN s = 1..Len(s) /\ Len(s) \in Nat
  BY LenProperties
<1>2. r \in [1..Len(s) -> Nat]
  BY <1>1
<1>3. r \in Seq(Nat) /\ DOMAIN r = 1..Len(s)
  BY <1>1, <1>2
<1>4. Len(r) = Len(s)
  BY <1>1, <1>3
<1>5. wrong = 0 => r = s
  BY <1>1
<1>6. SubSeq(r, 1, Len(s)) = r
  BY <1>3, <1>4, SubSeqFull
<1>7. n <= Len(s) => SubSeq(r, 1, n) \in Seq(Nat)
  BY <1>3, <1>4
<1> HIDE DEF r
<1> QED
  BY <1>4, <1>5, <1>6, <1>7 DEF r

LEMMA InitType == MzInit => MzTypeOK /\ RouteInv
<1> SUFFICES ASSUME MzInit PROVE MzTypeOK /\ RouteInv
  OBVIOUS
<1>1. job \in AllJobs
  BY JobsAssumption DEF MzInit
<1>2. files \in [Names -> File]
  <2>1. <<>> \in Seq(Nat)
    BY EmptySeq
  <2>2. /\ SourceFile \in File /\ Nothing \in File /\ Result(<<>>) \in File
        /\ [kind |-> "old", data |-> <<>>] \in File
    BY <2>1, WholeType DEF SourceFile, File, Nothing, Result
  <2>3. PICK old \in {Nothing, [kind |-> "old", data |-> <<>>]} :
          files = [src |-> SourceFile, dst |-> old, tmp |-> Nothing, stdout |-> Result(<<>>)]
    BY DEF MzInit, SourceFile
  <2>4. old \in File
    BY <2>2
  <2> QED
    BY <2>2, <2>3, <2>4 DEF Names
<1> QED
  BY <1>1, <1>2, EmptySeq DEF MzInit, MzTypeOK, RouteInv, Stages

LEMMA StepType ==
  ASSUME MzTypeOK, RouteInv, ~Buffered => bw = <<>>, [MzNext]_mzVars
  PROVE  MzTypeOK' /\ RouteInv'
<1> DEFINE Rest == /\ fetched' \in Seq(Nat) /\ ended' \in BOOLEAN
                   /\ taken' \in Nat /\ flight' \in Seq(Nat) /\ bw' \in Seq(Nat)
                   /\ pipe' \in Seq(Nat) /\ toCheck' \in Seq(Nat) /\ checked' \in Seq(Nat)
                   /\ ver' \in {"decoding", "ok", "failed"}
<1>1. job' = job
  BY DEF MzNext, Main, Coder, Output, Verifier, Open, OpenDst, Slurp, CopyBlock, Consume,
    CopyDone, Verified, Remove, Flush, Rename, Fetch, Emit, EmitFails, FetchFails, PipeRefuses,
    VerifierTakes, VerifierDecodes, VerifierEnds, mzVars
<1>2. stage' \in Stages /\ RouteInv'
  <2>1. stage' = stage \/ Exit \/ (GoOn /\ Running /\ (InPlace /\ job.rm => stage # "open"))
    BY DEF MzNext, Main, Coder, Output, Verifier, Open, OpenDst, Slurp, CopyBlock, Consume,
      CopyDone, Verified, Remove, Flush, Rename, Fetch, Emit, EmitFails, FetchFails, PipeRefuses,
      VerifierTakes, VerifierDecodes, VerifierEnds, mzVars, Running, Exit
  <2>2. CASE stage' = stage
    BY <1>1, <2>2, SameNames DEF RouteInv, MzTypeOK
  <2> QED
    BY <1>1, <2>1, <2>2, ExitInv, NextStageInv
<1>3. files' \in [Names -> File]
  <2> USE DEF MzTypeOK
  <2>0. Dest \in Names /\ "src" \in Names /\ "tmp" \in Names
    BY NamesOfDest DEF Names
  <2>1. CASE OpenDst
    <3>1. <<>> \in Seq(Nat)
      BY EmptySeq
    <3>2. [files EXCEPT ![Dest] = Result(<<>>)] \in [Names -> File]
      BY <2>0, <3>1, FilesType
    <3> QED
      BY <2>1, <3>2 DEF OpenDst
  <2>2. CASE CopyBlock
    <3>1. CASE files' = files
      BY <3>1
    <3>2. CASE files' # files
      <4>1. PICK wrong \in Nat, n \in Nat :
              LET r == [i \in DOMAIN fetched |-> IF i = wrong THEN 0 ELSE fetched[i]]
              IN  n <= Len(r) /\ files' = [files EXCEPT ![Dest] = Result(SubSeq(r, 1, n))]
        <5>1. {0} \subseteq Nat /\ 0..N \subseteq Nat
          BY MzFileAssumption
        <5>2. (IF Decodes THEN {0} ELSE 0..N) \subseteq Nat
          BY <5>1
        <5> QED
          BY <2>2, <3>2, <5>1, <5>2, ZenonT(30) DEF CopyBlock
      <4> DEFINE r == [i \in DOMAIN fetched |-> IF i = wrong THEN 0 ELSE fetched[i]]
                 part == SubSeq(r, 1, n)
      <4>2. part \in Seq(Nat)
        BY <4>1, BlockResult, SMTT(30)
      <4>3. files' = [files EXCEPT ![Dest] = Result(part)]
        BY <4>1
      <4> HIDE DEF part
      <4> QED
        BY <2>0, <4>2, <4>3, FilesType
    <3> QED
      BY <3>1, <3>2
  <2>3. CASE Emit
    <3>1. Head(flight) \in Nat
      BY <2>3 DEF Emit
    <3> QED
      BY <2>3, <3>1, WriteAppends DEF Emit
  <2>4. CASE EmitFails \/ Flush
    BY <2>4, FlushKeeps DEF EmitFails, Flush
  <2>5. CASE Remove
    BY <2>0, <2>5, FilesType, EmptySeq DEF Remove
  <2>6. CASE Rename
    <3>1. files["tmp"] \in File /\ Nothing \in File
      BY <2>0, FilesType, EmptySeq
    <3> QED
      BY <2>0, <2>6, <3>1 DEF Rename
  <2>7. ASSUME UNCHANGED files PROVE files' \in [Names -> File]
    BY <2>7
  <2> QED
    BY <2>1, <2>2, <2>3, <2>4, <2>5, <2>6, <2>7 DEF MzNext, Main, Coder, Output, Verifier,
      Open, Slurp, Consume, CopyDone, Verified, Fetch, FetchFails, PipeRefuses,
      VerifierTakes, VerifierDecodes, VerifierEnds, mzVars
<1>4. Rest
  <2> USE DEF MzTypeOK
  <2>1. CASE Fetch
    <3> DEFINE k == Len(fetched) + 1
    <3>1. k \in Nat /\ Append(fetched, k) \in Seq(Nat) /\ Append(fetched, 0) \in Seq(Nat)
      BY LenProperties
    <3> HIDE DEF MzTypeOK
    <3>2. /\ fetched' \in {fetched, Append(fetched, k), Append(fetched, 0)}
          /\ ended' \in {ended, TRUE} /\ taken' = taken /\ flight' = flight
          /\ bw' = bw /\ pipe' = pipe /\ toCheck' = toCheck /\ checked' = checked /\ ver' = ver
      BY <2>1 DEF Fetch, coding, verifier
    <3> QED
      BY <3>1, <3>2 DEF MzTypeOK
  <2>2. CASE CopyBlock
    BY <2>2, LenProperties DEF CopyBlock, reading, verifier
  <2>3. CASE Consume
    <3>1. fetched[taken + 1] \in Nat
      BY <2>3, SMTT(30) DEF Consume
    <3>2. Append(flight, fetched[taken + 1]) \in Seq(Nat) /\ Append(flight, 0) \in Seq(Nat)
      BY <3>1
    <3> HIDE DEF MzTypeOK
    <3>3. \/ flight' = flight /\ taken' = taken
          \/ taken' = taken + 1 /\ flight' = Append(flight, fetched[taken + 1])
          \/ taken' = taken + 1 /\ flight' = Append(flight, 0)
      <4> DEFINE u == fetched[taken + 1]
      <4>1. CASE Refused(u)
        BY <2>3, <4>1 DEF Consume
      <4>2. CASE ~Refused(u)
        <5>1. taken' = taken + 1
              /\ \E c \in IF job.cmd = "c" THEN {u, 0} ELSE {u} : flight' = Append(flight, c)
          BY <2>3, <4>2 DEF Consume
        <5>2. PICK c \in {u, 0} : flight' = Append(flight, c)
          BY <5>1
        <5> QED
          BY <5>1, <5>2
      <4> QED
        BY <4>1, <4>2
    <3>4. taken' \in Nat /\ flight' \in Seq(Nat)
      <4>1. CASE flight' = flight /\ taken' = taken
        BY <4>1 DEF MzTypeOK
      <4>2. CASE taken' = taken + 1 /\ flight' = Append(flight, fetched[taken + 1])
        BY <3>2, <4>2 DEF MzTypeOK
      <4>3. CASE taken' = taken + 1 /\ flight' = Append(flight, 0)
        BY <3>2, <4>3 DEF MzTypeOK
      <4> QED
        BY <3>3, <4>1, <4>2, <4>3
    <3>5. fetched' = fetched /\ ended' = ended /\ bw' = bw /\ pipe' = pipe
          /\ toCheck' = toCheck /\ checked' = checked /\ ver' = ver
      BY <2>3 DEF Consume, reading, verifier
    <3> QED
      BY <3>4, <3>5 DEF MzTypeOK
  <2>4. CASE Emit
    <3>1. Head(flight) \in Nat /\ Tail(flight) \in Seq(Nat)
      BY <2>4 DEF Emit
    <3>2. bw' \in Seq(Nat)
      BY <2>4, <3>1, WriteAppends DEF Emit
    <3> QED
      BY <2>4, <3>1, <3>2, EmptySeq DEF Emit, reading, verifier
  <2>5. CASE Flush
    BY <2>5, FlushKeeps DEF Flush, reading, coding, verifier
  <2>6. CASE VerifierTakes
    BY <2>6, ConcatProperties, EmptySeq DEF VerifierTakes, reading, coding
  <2>7. CASE VerifierDecodes
    <3>1. /\ Head(toCheck) \in Nat /\ Tail(toCheck) \in Seq(Nat)
          /\ Append(checked, Head(toCheck)) \in Seq(Nat)
      BY <2>7 DEF VerifierDecodes
    <3> HIDE DEF MzTypeOK
    <3>2. /\ fetched' = fetched /\ ended' = ended /\ taken' = taken /\ flight' = flight
          /\ bw' = bw /\ pipe' = pipe /\ toCheck' = Tail(toCheck)
          /\ checked' \in {checked, Append(checked, Head(toCheck))} /\ ver' \in {ver, "failed"}
      BY <2>7 DEF VerifierDecodes, reading, coding
    <3> QED
      BY <3>1, <3>2 DEF MzTypeOK
  <2>8. CASE VerifierEnds
    BY <2>8 DEF VerifierEnds, reading, coding
  <2>9. ASSUME UNCHANGED <<reading, coding, bw, pipe, verifier>> PROVE Rest
    BY <2>9 DEF reading, coding, verifier
  <2> QED
    BY <2>1, <2>2, <2>3, <2>4, <2>5, <2>6, <2>7, <2>8, <2>9 DEF MzNext, Main, Coder, Output,
      Verifier, Open, OpenDst, Slurp, CopyDone, Verified, Remove, Rename, EmitFails, FetchFails,
      PipeRefuses, mzVars
<1> QED
  BY <1>1, <1>2, <1>3, <1>4 DEF MzTypeOK

-----------------------------------------------------------------------------
(* The source and what is read of it.                                      *)

\* Only Remove and Rename touch the source, and a stage behind them goes on.
LEMMA StepSource ==
  ASSUME MzTypeOK, RouteInv, ~Buffered => bw = <<>>, Dest # "src", SourceInv, [MzNext]_mzVars
  PROVE  SourceInv'
<1>1. job' = job /\ InPlace' = InPlace /\ Discards' = Discards
  BY SameNames DEF MzNext, Main, Coder, Output, Verifier, Open, OpenDst, Slurp, CopyBlock, Consume,
    CopyDone, Verified, Remove, Flush, Rename, Fetch, Emit, EmitFails, FetchFails, PipeRefuses,
    VerifierTakes, VerifierDecodes, VerifierEnds, mzVars
<1>2. Dest \in Names /\ "src" \in Names /\ files \in [Names -> File]
  BY NamesOfDest DEF Names, MzTypeOK
<1>3. CASE Remove
  <2>1. CASE job.rm /\ ~Discards /\ GoOn
    <3>1. stage' \in {"done", "flush"}
      BY <1>3, <2>1, NextStage DEF Remove, Running
    <3> QED
      BY <1>1, <2>1, <3>1 DEF SourceInv
  <2>2. CASE ~(job.rm /\ ~Discards /\ GoOn)
    <3>1. files' = files
      BY <1>3, <2>2 DEF Remove
    <3> QED
      BY <1>3, <3>1 DEF SourceInv, Remove
  <2> QED
    BY <2>1, <2>2
<1>4. CASE Rename
  <2>1. CASE GoOn
    <3>1. stage' = "done"
      BY <1>4, <2>1, NextStage DEF Rename, Running
    <3> QED
      BY <1>1, <1>4, <2>1, <3>1 DEF SourceInv, Rename, RouteInv
  <2>2. CASE ~GoOn
    <3>1. InPlace /\ files' = files
      BY <1>4, <2>2 DEF Rename
    <3> QED
      BY <1>1, <1>4, <3>1 DEF SourceInv, Rename, RouteInv
  <2> QED
    BY <2>1, <2>2
<1>5. CASE Flush
  <2>1. files'["src"] = files["src"]
    BY <1>2, <1>5, FlushKeeps DEF Flush
  <2>2. stage' \in {"rename", "done"}
    BY <1>5, NextStage, FlagsOfJob DEF Flush, Running
  <2> QED
    BY <1>1, <1>5, <2>1, <2>2 DEF SourceInv, Flush
<1>6. ASSUME stage' = stage \/ stage \notin {"flush", "rename", "done"}, files'["src"] = files["src"]
      PROVE  SourceInv'
  BY <1>1, <1>6 DEF SourceInv
<1>7. CASE EmitFails
  BY <1>2, <1>6, <1>7, FlushKeeps DEF EmitFails
<1>8. CASE Emit
  <2>1. Head(flight) \in Nat
    BY <1>8 DEF Emit, MzTypeOK
  <2> QED
    BY <1>2, <1>6, <1>8, <2>1, WriteAppends DEF Emit
<1>9. CASE OpenDst
  <2>1. files'["src"] = files["src"]
    BY <1>2, <1>9 DEF OpenDst
  <2> QED
    BY <1>6, <1>9, <2>1 DEF OpenDst
<1>10. CASE CopyBlock
  <2>1. \/ files' = files
        \/ \E d : files' = [files EXCEPT ![Dest] = d]
    BY <1>10 DEF CopyBlock
  <2>2. files'["src"] = files["src"]
    BY <1>2, <2>1
  <2> QED
    BY <1>6, <1>10, <2>2 DEF CopyBlock
<1>11. CASE Open \/ Slurp \/ Consume \/ CopyDone \/ Verified \/ FetchFails \/ PipeRefuses
  BY <1>6, <1>11 DEF Open, Slurp, Consume, CopyDone, Verified, FetchFails, PipeRefuses
<1>12. CASE Fetch \/ Verifier \/ UNCHANGED mzVars
  BY <1>6, <1>12 DEF Fetch, Verifier, VerifierTakes, VerifierDecodes, VerifierEnds, mzVars
<1> QED
  BY <1>3, <1>4, <1>5, <1>7, <1>8, <1>9, <1>10, <1>11, <1>12 DEF MzNext, Main, Coder, Output

\* The source is read while it is there.
LEMMA StepInput ==
  ASSUME MzTypeOK, RouteInv, SourceInv, InputInv, [MzNext]_mzVars, stage' # "failed"
  PROVE  InputInv'
<1>1. job' = job /\ Len(fetched) \in Nat /\ N \in Nat
  BY MzFileAssumption, LenProperties DEF MzTypeOK, MzNext, Main, Coder, Output, Verifier, Open, OpenDst, Slurp, CopyBlock, Consume,
    CopyDone, Verified, Remove, Flush, Rename, Fetch, Emit, EmitFails, FetchFails, PipeRefuses,
    VerifierTakes, VerifierDecodes, VerifierEnds, mzVars
<1>2. CASE Fetch
  <2>1. stage \notin Past /\ stage' = stage
    BY <1>2 DEF Fetch, InputInv
  <2>2. files["src"] = SourceFile
    BY <2>1 DEF SourceInv, Past
  <2>3. files["src"].data = Whole /\ files["src"].kind = "source"
    BY <2>2 DEF SourceFile
  <2>4. CASE Len(fetched) + 1 > N
    <3>1. fetched' = fetched /\ ended' = TRUE
      BY <1>2, <2>3, <2>4, WholeType DEF Fetch
    <3> QED
      BY <1>1, <2>1, <2>4, <3>1 DEF InputInv
  <2>5. CASE ~(Len(fetched) + 1 > N)
    <3>1. fetched' = Append(fetched, Len(fetched) + 1) /\ ended' = ended
      BY <1>2, <2>3, <2>5, WholeType DEF Fetch
    <3>2. /\ Len(fetched') = Len(fetched) + 1
          /\ \A i \in 1..Len(fetched) : fetched'[i] = fetched[i]
          /\ fetched'[Len(fetched) + 1] = Len(fetched) + 1
      BY <1>1, <3>1, AppendProperties DEF MzTypeOK
    <3>3. ended = FALSE
      BY <1>2 DEF Fetch, MzTypeOK
    <3> QED
      BY <1>1, <2>1, <2>5, <3>1, <3>2, <3>3 DEF InputInv
  <2> QED
    BY <2>4, <2>5
<1>3. CASE ~Fetch
  <2>1. fetched' = fetched /\ ended' = ended
    BY <1>3 DEF MzNext, Main, Coder, Output, Verifier, Open, OpenDst, Slurp, CopyBlock, Consume,
      CopyDone, Verified, Remove, Flush, Rename, Emit, EmitFails, FetchFails, PipeRefuses,
      VerifierTakes, VerifierDecodes, VerifierEnds, mzVars, reading
  <2>2. \/ stage' = stage
        \/ /\ GoOn /\ Running
           /\ stage = "slurp" => ended
           /\ stage = "copy" => job.block \/ ended
    BY <1>3 DEF MzNext, Main, Coder, Output, Verifier, Open, OpenDst, Slurp, CopyBlock, Consume,
      CopyDone, Verified, Remove, Flush, Rename, Emit, EmitFails, FetchFails, PipeRefuses,
      VerifierTakes, VerifierDecodes, VerifierEnds, mzVars, Running, Exit
  <2>3. CASE stage' = stage
    BY <1>1, <2>1, <2>3 DEF InputInv
  <2>4. CASE GoOn /\ Running /\ (stage = "slurp" => ended) /\ (stage = "copy" => job.block \/ ended)
    <3>1. job.cmd \in {"c", "d"}
      BY FlagsOfJob
    <3>2. (stage' \in Past \/ (job.block /\ (stage' = "copy" \/ (stage' = "dst" /\ job.cmd = "c")))) => ended
      <4>1. CASE stage \in Past \/ stage = "slurp" \/ stage = "copy"
        BY <2>4, <4>1 DEF InputInv
      <4>2. CASE stage = "open"
        BY <2>4, <3>1, <4>2, NextStage DEF Past
      <4>3. CASE stage = "dst"
        BY <2>4, <3>1, <4>3, NextStage DEF InputInv, Past
      <4> QED
        BY <2>4, <4>1, <4>2, <4>3 DEF Past, Running, MzTypeOK, Stages
    <3> QED
      BY <1>1, <2>1, <3>2 DEF InputInv
  <2> QED
    BY <2>2, <2>3, <2>4
<1> QED
  BY <1>2, <1>3

-----------------------------------------------------------------------------
(* What the output has in its hands.                                       *)

LEMMA HandedIs ==
  ASSUME MzTypeOK, job' = job
  PROVE  /\ ~(InPlace /\ stage = "done") => Handed = files[Dest].data \o bw
         /\ ~(InPlace /\ stage' = "done") => Handed' = files'[Dest].data \o bw'
         /\ Handed \in Seq(Nat) /\ Len(Handed) \in Nat
<1>1. Dest \in Names /\ "src" \in Names
  BY NamesOfDest DEF Names
<1>2. files[Dest].data \in Seq(Nat) /\ files["src"].data \in Seq(Nat) /\ bw \in Seq(Nat)
  BY <1>1, FilesType, EmptySeq DEF MzTypeOK
<1>3. files[Dest].data \o bw \in Seq(Nat) /\ files["src"].data \o bw \in Seq(Nat)
  BY <1>2, ConcatProperties
<1>4. Handed \in {files[Dest].data \o bw, files["src"].data \o bw}
  BY DEF Handed, ResultFile
<1>5. Handed \in Seq(Nat)
  BY <1>3, <1>4
<1>6. Len(Handed) \in Nat
  BY <1>5, LenProperties
<1>7. ~(InPlace /\ stage = "done") => Handed = files[Dest].data \o bw
  BY DEF Handed, ResultFile
<1>8. ~(InPlace /\ stage' = "done") => Handed' = files'[Dest].data \o bw'
  <2>1. InPlace' = InPlace /\ Dest' = Dest
    BY SameNames
  <2> QED
    BY <2>1 DEF Handed, ResultFile
<1> QED
  BY <1>5, <1>6, <1>7, <1>8

\* A step that touches neither the result nor bw.
LEMMA HandedStays ==
  ASSUME MzTypeOK, job' = job, files'[Dest] = files[Dest], bw' = bw,
         ~(InPlace /\ stage = "done"), ~(InPlace /\ stage' = "done")
  PROVE  Handed' = Handed
  BY HandedIs

\* The units taken are the units in order.
LEMMA AllOfIt ==
  ASSUME NEW s \in Seq(Nat), Len(s) = N, \A i \in 1..N : s[i] = i
  PROVE  s = Whole
  BY SeqEqual, WholeType

\* The caller of a lemma on one action has these facts.
Before ==
  /\ MzTypeOK /\ RouteInv /\ (~Buffered => bw = <<>>)
  /\ Dest # "src" /\ SourceInv /\ InputInv /\ OutputInv

LEMMA OutputOpened ==
  ASSUME Before, OpenDst, stage' # "failed"
  PROVE  OutputInv'
<1> USE DEF Before
<1>1. job' = job /\ stage = "dst" /\ files' = [files EXCEPT ![Dest] = Result(<<>>)] /\ GoOn
      /\ bw' = bw
  BY DEF OpenDst, Exit
<1>2. NotYet /\ NotYet' /\ bw = <<>>
  BY <1>1 DEF OpenDst, OutputInv, NotYet, coding, verifier, reading
<1>3. stage' \in {"slurp", "copy"}
  BY <1>1, NextStage DEF Running
<1>4. Dest \in Names /\ files \in [Names -> File]
  BY NamesOfDest DEF MzTypeOK
<1>5. files'[Dest].data = <<>>
  BY <1>1, <1>4 DEF Result
<1>6. Handed' = <<>>
  <2>1. Handed' = <<>> \o <<>>
    BY <1>1, <1>2, <1>3, <1>5, HandedIs
  <2> QED
    BY <2>1, ConcatEmptySeq, EmptySeq
<1>7. ((<<>> \o <<>>) \o <<>>) = <<>>
  BY ConcatEmptySeq, EmptySeq
<1>8. stage' = "copy" => CodedInv' /\ VerifierInv'
  <2>1. stage' \notin Past
    BY <1>3 DEF Past
  <2>2. Len(fetched) \in Nat /\ fetched' = fetched
    BY LenProperties DEF OpenDst, reading, MzTypeOK
  <2>3. CodedInv'
    BY <1>2, <1>6, <2>1, <2>2 DEF CodedInv, NotYet
  <2>4. VerifierInv'
    BY <1>2, <1>6, <1>7, <2>1 DEF VerifierInv, NotYet
  <2> QED
    BY <2>3, <2>4
<1> QED
  BY <1>2, <1>3, <1>8 DEF OutputInv, BlockInv, NotYet, Past

LEMMA OutputCopied ==
  ASSUME Before, CopyBlock, stage' # "failed"
  PROVE  OutputInv'
<1> USE DEF Before
<1>1. job' = job /\ stage = "copy" /\ job.block /\ bw' = bw /\ bw = <<>>
  BY DEF CopyBlock, OutputInv, BlockInv
<1>2. ended /\ Len(fetched) = N /\ N \in Nat /\ fetched \in Seq(Nat)
  BY <1>1, MzFileAssumption DEF InputInv, MzTypeOK
<1>3. fetched = Whole
  BY <1>2, AllOfIt DEF InputInv
<1>4. job.cmd \in {"c", "d"} /\ (Decodes <=> job.cmd = "d")
  BY <1>1, FlagsOfJob DEF Decodes
<1>5. PICK wrong \in Nat, n \in Nat :
        LET r == [i \in DOMAIN fetched |-> IF i = wrong THEN 0 ELSE fetched[i]]
        IN  /\ n = Len(r) /\ files' = [files EXCEPT ![Dest] = Result(SubSeq(r, 1, n))]
            /\ job.cmd = "d" => wrong = 0
            /\ GoOn
  <2>1. {0} \subseteq Nat /\ 0..N \subseteq Nat
    BY <1>2
  <2>2. (IF Decodes THEN {0} ELSE 0..N) \subseteq Nat
    BY <2>1
  <2>3. \A wrong \in IF Decodes THEN {0} ELSE 0..N : job.cmd = "d" => wrong = 0
    BY <1>4
  <2> QED
    BY <2>1, <2>2, <2>3, Zenon DEF CopyBlock, Exit
<1> DEFINE r == [i \in DOMAIN fetched |-> IF i = wrong THEN 0 ELSE fetched[i]]
<1>6. Len(r) = N /\ SubSeq(r, 1, n) = r /\ (job.cmd = "d" => r = Whole)
  BY <1>2, <1>3, <1>5, BlockResult
<1>7. files' = [files EXCEPT ![Dest] = Result(r)]
  BY <1>5, <1>6
<1>8. GoOn
  BY <1>5
<1>9. r \in Seq(Nat)
  <2>1. SubSeq(r, 1, n) \in Seq(Nat)
    BY <1>2, <1>5, BlockResult
  <2> QED
    BY <1>6, <2>1
<1> HIDE DEF r
<1>10. stage' = IF job.cmd = "c" THEN "verify" ELSE "remove"
  BY <1>1, <1>8, NextStage DEF Running
<1>11. files'[Dest].data = r
  BY <1>7, NamesOfDest DEF MzTypeOK, Result
<1>12. Handed' = r
  BY <1>1, <1>4, <1>9, <1>10, <1>11, HandedIs, ConcatEmptySeq
<1> QED
  BY <1>1, <1>4, <1>6, <1>10, <1>12 DEF OutputInv, BlockInv, Past

LEMMA OutputConsumed ==
  ASSUME Before, Consume, stage' # "failed"
  PROVE  OutputInv'
<1> USE DEF Before
<1> DEFINE u == fetched[taken + 1]
<1>1. job' = job /\ stage = "copy" /\ ~job.block /\ taken < Len(fetched) /\ CodedInv
  BY DEF Consume, OutputInv, Past
<1>2. files' = files /\ bw' = bw /\ pipe' = pipe /\ toCheck' = toCheck /\ ver' = ver
      /\ checked' = checked /\ fetched' = fetched
  BY DEF Consume, reading, verifier
<1>3. ~Refused(u) /\ taken' = taken + 1 /\ stage' = "copy"
  BY <1>1 DEF Consume, Exit
<1>4. PICK c \in {u, 0} : flight' = Append(flight, c) /\ (job.cmd # "c" => c = u)
  <2>1. PICK c \in IF job.cmd = "c" THEN {u, 0} ELSE {u} : flight' = Append(flight, c)
    BY <1>1, <1>3 DEF Consume
  <2> QED
    BY <2>1
<1>5. taken \in Nat /\ Len(fetched) \in Nat /\ flight \in Seq(Nat) /\ Len(flight) \in Nat
  BY LenProperties DEF MzTypeOK
<1>6. u = taken + 1 /\ u \in Nat
  BY <1>1, <1>5 DEF InputInv
<1>7. Handed' = Handed /\ Len(Handed) \in Nat
  BY <1>1, <1>2, <1>3, HandedStays, HandedIs
<1>8. /\ Len(flight') = Len(flight) + 1 /\ flight'[Len(flight) + 1] = c
      /\ \A i \in 1..Len(flight) : flight'[i] = flight[i]
  BY <1>4, <1>5, <1>6, AppendProperties
<1>9. CodedInv'
  <2>1. Ok(c, Len(Handed) + (Len(flight) + 1))
    <3>1. Len(Handed) + Len(flight) = taken
      BY <1>1 DEF CodedInv
    <3>2. Len(Handed) + (Len(flight) + 1) = taken + 1
      BY <1>5, <1>7, <3>1
    <3>3. c = taken + 1 \/ (c = 0 /\ job.cmd = "c")
      BY <1>4, <1>6
    <3> QED
      BY <3>2, <3>3 DEF Ok
  <2>2. \A i \in 1..Len(flight') : Ok(flight'[i], Len(Handed) + i)
    <3>1. TAKE i \in 1..Len(flight')
    <3>2. CASE i = Len(flight) + 1
      BY <1>8, <2>1, <3>2
    <3>3. CASE i # Len(flight) + 1
      <4>1. i \in 1..Len(flight)
        BY <1>5, <1>8, <3>3
      <4> QED
        BY <1>1, <1>8, <4>1 DEF CodedInv
    <3> QED
      BY <3>2, <3>3
  <2> QED
    BY <1>1, <1>2, <1>3, <1>5, <1>7, <1>8, <2>2 DEF CodedInv, Ok, Past
<1>10. VerifierInv => VerifierInv'
  BY <1>1, <1>2, <1>3, <1>7 DEF VerifierInv
<1> QED
  BY <1>1, <1>3, <1>9, <1>10 DEF OutputInv

LEMMA OutputEmitted ==
  ASSUME Before, Emit
  PROVE  OutputInv'
<1> USE DEF Before
<1> DEFINE u == Head(flight)
<1>1. /\ job' = job /\ stage = "copy" /\ stage' = "copy" /\ flight # <<>> /\ pipe = <<>>
      /\ flight' = Tail(flight) /\ taken' = taken /\ fetched' = fetched
      /\ toCheck' = toCheck /\ checked' = checked /\ ver' = ver
      /\ pipe' = IF job.cmd = "c" /\ job.verify THEN <<u>> ELSE <<>>
  BY DEF Emit, reading, verifier
<1>2. /\ flight \in Seq(Nat) /\ Len(flight) \in Nat /\ Len(flight) > 0 /\ u \in Nat
      /\ u = flight[1] /\ flight' \in Seq(Nat) /\ Len(flight') = Len(flight) - 1
      /\ \A i \in 1..Len(flight') : flight'[i] = flight[i + 1]
  BY <1>1, SMTT(30) DEF MzTypeOK
<1>3. Handed' = Handed \o <<u>> /\ Handed \in Seq(Nat) /\ Len(Handed) \in Nat
  <2>1. files'[Dest].data \o bw' = (files[Dest].data \o bw) \o <<u>>
    BY <1>2, WriteAppends DEF Emit
  <2> QED
    BY <1>1, <2>1, HandedIs
<1>4. /\ Len(Handed') = Len(Handed) + 1 /\ Handed'[Len(Handed) + 1] = u
      /\ \A i \in 1..Len(Handed) : Handed'[i] = Handed[i]
  BY <1>2, <1>3
<1>5. stage' \notin Past
  BY <1>1 DEF Past
<1>6. CASE job.block
  <2>1. bw = <<>> /\ bw' = <<>>
    <3>1. ~Buffered
      BY <1>6 DEF Buffered
    <3> QED
      BY <1>2, <3>1, WriteAppends DEF Emit
  <2> QED
    BY <1>1, <1>5, <1>6, <2>1 DEF OutputInv, BlockInv
<1>7. CASE ~job.block
  <2>1. CodedInv
    BY <1>1, <1>7 DEF OutputInv
  <2>2. CodedInv'
    <3>1. Ok(u, Len(Handed) + 1)
      BY <1>2, <2>1 DEF CodedInv
    <3>2. \A i \in 1..Len(Handed') : Ok(Handed'[i], i)
      BY <1>3, <1>4, <2>1, <3>1 DEF CodedInv
    <3>3. \A i \in 1..Len(flight') : Ok(flight'[i], Len(Handed') + i)
      <4>1. TAKE i \in 1..Len(flight')
      <4>2. i + 1 \in 1..Len(flight) /\ Len(Handed) + (i + 1) = Len(Handed') + i
        BY <1>2, <1>3, <1>4
      <4>3. Ok(flight[i + 1], Len(Handed) + (i + 1))
        BY <2>1, <4>2 DEF CodedInv
      <4> QED
        BY <1>2, <4>2, <4>3
    <3>4. Len(Handed') + Len(flight') = taken
      BY <1>2, <1>3, <1>4, <2>1 DEF CodedInv
    <3> QED
      BY <1>1, <1>5, <2>1, <3>2, <3>3, <3>4 DEF CodedInv, Ok
  <2>3. ASSUME job.cmd = "c", job.verify PROVE VerifierInv'
    <3>1. VerifierInv /\ pipe' = <<u>>
      BY <1>1, <1>7, <2>3 DEF OutputInv
    <3>2. checked \in Seq(Nat) /\ toCheck \in Seq(Nat) /\ checked \o toCheck \in Seq(Nat)
      BY ConcatProperties DEF MzTypeOK
    <3>3. (checked \o toCheck) \o <<>> = checked \o toCheck
      BY <3>2, ConcatEmptySeq
    <3>4. ver # "failed" => (checked \o toCheck) \o <<u>> = Handed'
      BY <1>1, <1>3, <3>1, <3>3 DEF VerifierInv
    <3> QED
      BY <1>1, <1>5, <3>1, <3>4 DEF VerifierInv, Past
  <2> QED
    BY <1>1, <1>7, <2>2, <2>3 DEF OutputInv
<1> QED
  BY <1>6, <1>7

LEMMA OutputDone ==
  ASSUME Before, CopyDone, stage' # "failed"
  PROVE  OutputInv'
<1> USE DEF Before
<1>1. /\ job' = job /\ stage = "copy" /\ ~job.block /\ GoOn /\ flight = <<>> /\ pipe = <<>>
      /\ taken = Len(fetched) /\ UNCHANGED <<files, reading, coding, bw, pipe, verifier>>
  BY DEF CopyDone, Exit
<1>2. stage' = IF job.cmd = "c" THEN "verify" ELSE "remove"
  BY <1>1, NextStage DEF Running
<1>3. Handed' = Handed
  BY <1>1, <1>2, HandedStays
<1>4. CodedInv /\ (job.cmd = "c" /\ job.verify => VerifierInv)
  BY <1>1 DEF OutputInv
<1>5. CodedInv'
  BY <1>1, <1>3, <1>4 DEF CodedInv, Ok, reading, coding
<1>6. job.cmd = "c" /\ VerifierInv => VerifierInv'
  BY <1>1, <1>2, <1>3 DEF VerifierInv, verifier, Past
<1> QED
  BY <1>1, <1>2, <1>4, <1>5, <1>6 DEF OutputInv

LEMMA HeadMoves ==
  ASSUME NEW s \in Seq(Nat), NEW t \in Seq(Nat), t # <<>>
  PROVE  Append(s, Head(t)) \o Tail(t) = s \o t
<1> DEFINE one == <<Head(t)>>
           rest == Tail(t)
<1>1. one \in Seq(Nat) /\ rest \in Seq(Nat) /\ t = one \o rest /\ Append(s, Head(t)) = s \o one
  BY HeadTailProperties, AppendIsConcat
<1> HIDE DEF one, rest
<1>2. (s \o one) \o rest = s \o (one \o rest)
  BY <1>1
<1> QED
  BY <1>1, <1>2 DEF rest

\* The verifier decodes what has been written and not yet looked at.
LEMMA OutputVerified ==
  ASSUME Before, Verifier
  PROVE  OutputInv'
<1> USE DEF Before
<1>1. /\ job' = job /\ stage' = stage /\ Running /\ ver = "decoding"
      /\ UNCHANGED <<files, reading, coding, bw>>
  BY DEF Verifier, VerifierTakes, VerifierDecodes, VerifierEnds, Running
<1>2. ~(stage \in {"open", "slurp", "dst"})
  BY DEF Verifier, VerifierTakes, VerifierDecodes, VerifierEnds, OutputInv, NotYet
<1>3. Handed' = Handed /\ Handed \in Seq(Nat)
  BY <1>1, HandedStays, HandedIs DEF Running
<1>4. job.block => BlockInv'
  BY <1>1, <1>3 DEF OutputInv, BlockInv
<1>5. ASSUME ~job.block, stage \in {"copy"} \cup Past
      PROVE  CodedInv' /\ (job.cmd = "c" /\ job.verify => VerifierInv')
  <2>1. CodedInv /\ (job.cmd = "c" /\ job.verify => VerifierInv)
    BY <1>5 DEF OutputInv
  <2>2. stage \in Past => pipe' = pipe
    BY <2>1 DEF CodedInv, Verifier, VerifierTakes, VerifierDecodes, VerifierEnds
  <2>3. CodedInv'
    BY <1>1, <1>3, <2>1, <2>2 DEF CodedInv, Ok, reading, coding
  <2>4. ASSUME VerifierInv PROVE VerifierInv'
    <3>1. checked \in Seq(Nat) /\ toCheck \in Seq(Nat) /\ pipe \in Seq(Nat)
      BY DEF MzTypeOK
    <3>2. (checked \o toCheck) \o pipe = Handed
      BY <1>1, <2>4 DEF VerifierInv
    <3>3. ~(stage \in Past \ {"verify"})
      BY <1>1, <2>4 DEF VerifierInv
    <3>4. CASE VerifierTakes
      <4>1. checked' = checked /\ toCheck' = toCheck \o pipe /\ pipe' = <<>> /\ ver' = ver
        BY <3>4 DEF VerifierTakes
      <4>2. (checked \o toCheck) \o pipe = checked \o (toCheck \o pipe)
        BY <3>1, SMTT(30)
      <4>3. checked \o (toCheck \o pipe) \in Seq(Nat)
        BY <3>1, ConcatProperties
      <4>4. (checked \o (toCheck \o pipe)) \o <<>> = checked \o (toCheck \o pipe)
        BY <4>3, ConcatEmptySeq
      <4>5. (checked' \o toCheck') \o pipe' = Handed
        BY <3>2, <4>1, <4>2, <4>4
      <4> QED
        BY <1>1, <1>3, <2>4, <3>3, <4>1, <4>5 DEF VerifierInv, Past
    <3>5. CASE VerifierDecodes
      <4>1. toCheck # <<>> /\ pipe' = pipe /\ toCheck' = Tail(toCheck)
        BY <3>5 DEF VerifierDecodes
      <4>2. CASE Head(toCheck) = 0
        <5>1. ver' = "failed" /\ checked' = checked
          BY <3>5, <4>2 DEF VerifierDecodes
        <5> QED
          BY <1>1, <2>4, <3>3, <5>1 DEF VerifierInv
      <4>3. CASE Head(toCheck) # 0
        <5>1. ver' = ver /\ checked' = Append(checked, Head(toCheck))
          BY <3>5, <4>3 DEF VerifierDecodes
        <5>2. Append(checked, Head(toCheck)) \o Tail(toCheck) = checked \o toCheck
          BY <3>1, <4>1, HeadMoves
        <5>3. (checked' \o toCheck') \o pipe' = Handed'
          BY <1>3, <3>2, <4>1, <5>1, <5>2
        <5>4. \A i \in 1..Len(checked') : checked'[i] # 0
          BY <2>4, <3>1, <4>1, <4>3, <5>1 DEF VerifierInv
        <5> QED
          BY <1>1, <2>4, <3>3, <5>1, <5>3, <5>4 DEF VerifierInv
      <4> QED
        BY <4>2, <4>3
    <3>6. CASE VerifierEnds
      BY <1>1, <1>3, <2>4, <3>2, <3>3, <3>6 DEF VerifierInv, VerifierEnds, Past
    <3> QED
      BY <3>4, <3>5, <3>6 DEF Verifier
  <2> QED
    BY <2>1, <2>3, <2>4
<1> QED
  BY <1>1, <1>2, <1>4, <1>5 DEF OutputInv, Past

\* errFn lets the main goroutine go on only behind a verifier that has decoded all.
LEMMA OutputChecked ==
  ASSUME Before, Verified, stage' # "failed"
  PROVE  OutputInv'
<1> USE DEF Before
<1>1. /\ job' = job /\ stage = "verify" /\ GoOn /\ job.cmd = "c"
      /\ UNCHANGED <<files, reading, coding, bw, pipe, verifier>>
      /\ job.verify => IF job.block THEN files[Dest].data = fetched ELSE ver = "ok"
  BY DEF Verified, Exit, RouteInv
<1>2. stage' = "remove" /\ stage \in Past /\ stage' \in Past
  BY <1>1, NextStage DEF Running, Past
<1>3. Handed' = Handed /\ Handed = files[Dest].data \o bw
  BY <1>1, <1>2, HandedStays, HandedIs
<1>4. ASSUME job.block PROVE BlockInv'
  <2>1. bw = <<>> /\ Len(Handed) = N
    BY <1>2, <1>4 DEF OutputInv, BlockInv
  <2>2. job.verify => Handed = Whole
    <3>1. SUFFICES ASSUME job.verify PROVE Handed = Whole
      OBVIOUS
    <3>2. files[Dest].data = fetched /\ fetched \in Seq(Nat)
      BY <1>1, <1>4, <3>1 DEF MzTypeOK
    <3>3. Handed = fetched
      BY <1>3, <2>1, <3>2, ConcatEmptySeq
    <3>4. fetched = Whole
      BY <1>2, <3>2, AllOfIt DEF InputInv
    <3> QED
      BY <3>3, <3>4
  <2> QED
    BY <1>1, <1>2, <1>3, <2>1, <2>2 DEF BlockInv
<1>5. ASSUME ~job.block PROVE CodedInv' /\ (job.verify => VerifierInv')
  <2>1. CodedInv /\ (job.verify => VerifierInv)
    BY <1>1, <1>2, <1>5 DEF OutputInv
  <2>2. CodedInv'
    BY <1>1, <1>2, <1>3, <2>1 DEF CodedInv, Ok, reading, coding
  <2>3. job.verify => VerifierInv'
    BY <1>1, <1>2, <1>3, <1>5, <2>1 DEF VerifierInv, verifier
  <2> QED
    BY <2>2, <2>3
<1> QED
  BY <1>1, <1>2, <1>4, <1>5 DEF OutputInv

\* What comes behind moves what is in the output's hands, and changes none of it.
LEMMA OutputMoved ==
  ASSUME Before, Remove \/ Flush \/ Rename, stage' # "failed"
  PROVE  OutputInv'
<1> USE DEF Before
<1>1. job' = job /\ GoOn /\ Running /\ stage \in Past \ {"verify"}
      /\ UNCHANGED <<reading, coding, pipe, verifier>>
  BY DEF Remove, Flush, Rename, Exit, Running, Past
<1>2. /\ stage = "remove" => stage' \in {"done", "flush"} /\ (stage' = "done" => job.block)
      /\ stage = "flush" => stage' = IF job.cmd = "c" THEN "rename" ELSE "done"
      /\ stage = "rename" => stage' = "done"
      /\ stage' \in Past \ {"verify"}
  BY <1>1, NextStage DEF Running, Past
<1>3. Dest \in Names /\ "src" \in Names /\ "tmp" \in Names /\ files \in [Names -> File]
  BY NamesOfDest DEF Names, MzTypeOK
<1>4. Handed' = Handed
  <2>1. CASE Remove
    <3>1. files'[Dest] = files[Dest] /\ bw' = bw /\ stage = "remove"
      BY <1>3, <2>1 DEF Remove
    <3> QED
      BY <1>1, <1>2, <3>1, NamesOfDest, HandedStays
  <2>2. CASE Flush
    <3>1. PICK n \in 0..Len(bw) :
            /\ files' = [files EXCEPT ![Dest].data = @ \o SubSeq(bw, 1, n)]
            /\ bw' = SubSeq(bw, n + 1, Len(bw))
      BY <2>2 DEF Flush
    <3>2. files'[Dest].data \o bw' = files[Dest].data \o bw
      BY <3>1, FlushKeeps
    <3>3. ~(InPlace /\ stage = "done") /\ ~(InPlace /\ stage' = "done")
      BY <1>2, <2>2, NamesOfDest DEF Flush
    <3> QED
      BY <1>1, <3>2, <3>3, HandedIs
  <2>3. CASE Rename /\ ~InPlace
    <3>1. files' = files /\ bw' = bw
      BY <2>3 DEF Rename
    <3> QED
      BY <1>1, <2>3, <3>1, HandedStays
  <2>4. CASE Rename /\ InPlace
    <3>1. files'["src"] = files["tmp"] /\ bw' = bw /\ stage = "rename" /\ stage' = "done"
      BY <1>1, <1>2, <1>3, <2>4 DEF Rename, Exit
    <3>2. Handed = files["tmp"].data \o bw
      BY <1>1, <2>4, <3>1, NamesOfDest, HandedIs
    <3>3. Handed' = files'["src"].data \o bw'
      BY <1>1, <2>4, <3>1, SameNames DEF Handed, ResultFile
    <3> QED
      BY <3>1, <3>2, <3>3
  <2> QED
    BY <2>1, <2>2, <2>3, <2>4
<1>5. ASSUME job.block PROVE BlockInv'
  <2>1. BlockInv /\ bw = <<>>
    BY <1>5 DEF OutputInv, BlockInv
  <2>2. bw' = bw
    BY <1>5 DEF Remove, Flush, Rename, RouteInv
  <2> QED
    BY <1>1, <1>2, <1>4, <2>1, <2>2 DEF BlockInv
<1>6. ASSUME ~job.block PROVE CodedInv' /\ (job.cmd = "c" /\ job.verify => VerifierInv')
  <2>1. CodedInv /\ (job.cmd = "c" /\ job.verify => VerifierInv)
    BY <1>1, <1>6 DEF OutputInv
  <2>2. CodedInv'
    BY <1>1, <1>2, <1>4, <2>1 DEF CodedInv, Ok, reading, coding
  <2>3. VerifierInv => VerifierInv'
    BY <1>1, <1>2, <1>4 DEF VerifierInv, verifier
  <2> QED
    BY <2>1, <2>2, <2>3
<1> QED
  BY <1>1, <1>2, <1>5, <1>6 DEF OutputInv, Past

LEMMA StepOutput ==
  ASSUME Before, [MzNext]_mzVars, stage' # "failed"
  PROVE  OutputInv'
<1> USE DEF Before
<1>1. CASE Open \/ Slurp
  <2>1. /\ job' = job /\ GoOn /\ stage \in {"open", "slurp"}
        /\ UNCHANGED <<files, reading, coding, bw, pipe, verifier>>
    BY <1>1 DEF Open, Slurp, Exit
  <2>2. stage' \in {"slurp", "dst", "copy"} /\ (stage' = "copy" => job.block)
    BY <2>1, NextStage DEF Running, RouteInv
  <2>3. NotYet' /\ bw = <<>>
    BY <2>1 DEF OutputInv, NotYet, coding, verifier
  <2> QED
    BY <2>1, <2>2, <2>3 DEF OutputInv, BlockInv, Past, NotYet
<1>2. CASE Fetch \/ UNCHANGED mzVars
  <2>1. /\ job' = job /\ stage' = stage /\ UNCHANGED <<files, coding, bw, pipe, verifier>>
        /\ (fetched' = fetched \/ ~ended)
    BY <1>2 DEF Fetch, mzVars, reading
  <2>2. Len(fetched) \in Nat /\ taken \in Nat
    BY LenProperties DEF MzTypeOK
  <2>3. Len(fetched) <= Len(fetched')
    <3>1. CASE fetched' = fetched
      BY <2>2, <3>1
    <3>2. CASE fetched' # fetched
      <4>1. \E u \in Nat : fetched' = Append(fetched, u)
        BY <1>2, <2>2, <3>2 DEF Fetch, mzVars, reading
      <4> QED
        BY <4>1, AppendProperties, <2>2 DEF MzTypeOK
    <3> QED
      BY <3>1, <3>2
  <2>4. stage \in Past => fetched' = fetched
    BY <2>1 DEF InputInv
  <2>5. Handed' = Handed
    <3>1. Dest' = Dest /\ InPlace' = InPlace
      BY <2>1, SameNames
    <3> QED
      BY <2>1, <3>1 DEF Handed, ResultFile
  <2>6. CodedInv => Len(fetched') \in Nat /\ CodedInv'
    <3>1. Len(fetched') \in Nat
      <4>1. fetched' \in Seq(Nat)
        BY StepType DEF MzTypeOK
      <4> QED
        BY <4>1, LenProperties
    <3> QED
      BY <2>1, <2>2, <2>3, <2>4, <2>5, <3>1 DEF CodedInv, Ok, coding
  <2>7. VerifierInv => VerifierInv'
    BY <2>1, <2>5 DEF VerifierInv, verifier
  <2>8. BlockInv => BlockInv'
    BY <2>1, <2>5 DEF BlockInv
  <2>9. NotYet => NotYet'
    BY <2>1 DEF NotYet, coding, verifier
  <2> QED
    BY <2>1, <2>6, <2>7, <2>8, <2>9 DEF OutputInv
<1>3. CASE EmitFails \/ FetchFails \/ PipeRefuses
  BY <1>3 DEF EmitFails, FetchFails, PipeRefuses, Exit
<1> QED
  BY <1>1, <1>2, <1>3, OutputOpened, OutputCopied, OutputConsumed, OutputEmitted, OutputDone,
    OutputVerified, OutputChecked, OutputMoved DEF MzNext, Main, Coder, Output

\* bw is used only where it is there.
LEMMA StepUnbuffered ==
  ASSUME MzTypeOK, ~Buffered => bw = <<>>, [MzNext]_mzVars, job' = job
  PROVE  ~Buffered' => bw' = <<>>
<1>1. Buffered' = Buffered
  BY SameNames
<1>2. CASE Emit
  <2>1. Head(flight) \in Nat
    BY <1>2 DEF Emit, MzTypeOK
  <2> QED
    BY <1>1, <1>2, <2>1, WriteAppends DEF Emit
<1>3. CASE Flush
  <2>1. SUFFICES ASSUME bw = <<>> PROVE bw' = <<>>
    BY <1>1
  <2>2. PICK n \in 0..Len(bw) : bw' = SubSeq(bw, n + 1, Len(bw))
    BY <1>3 DEF Flush
  <2>3. bw' = SubSeq(<<>>, 1, 0)
    BY <2>1, <2>2
  <2> QED
    BY <2>3, EmptySeq, SubSeqFull
<1>4. CASE bw' = bw
  BY <1>1, <1>4
<1> QED
  BY <1>2, <1>3, <1>4 DEF MzNext, Main, Coder, Output, Verifier, Open, OpenDst, Slurp, CopyBlock,
    Consume, CopyDone, Verified, Remove, Rename, Fetch, EmitFails, FetchFails, PipeRefuses,
    VerifierTakes, VerifierDecodes, VerifierEnds, mzVars

-----------------------------------------------------------------------------
(* The theorems.                                                           *)

LEMMA InitMzInv == MzInit => MzInv
<1> SUFFICES ASSUME MzInit PROVE MzInv
  OBVIOUS
<1>1. SourceInv
  BY DEF MzInit, SourceInv, SourceFile
<1>2. InputInv
  BY MzFileAssumption, EmptySeq DEF MzInit, InputInv, Past
<1>3. OutputInv
  BY DEF MzInit, OutputInv, NotYet, BlockInv, Past
<1> QED
  BY <1>1, <1>2, <1>3, InitType DEF MzInv, MzInit

LEMMA StepMzInv == MzInv /\ [MzNext]_mzVars => MzInv'
<1> SUFFICES ASSUME MzInv, [MzNext]_mzVars PROVE MzInv'
  OBVIOUS
<1>1. job' = job
  BY DEF MzNext, Main, Coder, Output, Verifier, Open, OpenDst, Slurp, CopyBlock, Consume,
    CopyDone, Verified, Remove, Flush, Rename, Fetch, Emit, EmitFails, FetchFails, PipeRefuses,
    VerifierTakes, VerifierDecodes, VerifierEnds, mzVars
<1>2. MzTypeOK' /\ RouteInv'
  BY StepType DEF MzInv
<1>3. ~Buffered' => bw' = <<>>
  BY <1>1, StepUnbuffered DEF MzInv
<1>4. ASSUME Dest # "src" PROVE SourceInv' /\ (stage' # "failed" => InputInv' /\ OutputInv')
  <2>1. SourceInv'
    BY <1>4, StepSource DEF MzInv
  <2>2. ASSUME stage' # "failed" PROVE InputInv' /\ OutputInv'
    <3>1. stage # "failed"
      BY <2>2 DEF MzNext, Main, Coder, Output, Verifier, Open, OpenDst, Slurp, CopyBlock, Consume,
        CopyDone, Verified, Remove, Flush, Rename, Fetch, Emit, EmitFails, FetchFails, PipeRefuses,
        VerifierTakes, VerifierDecodes, VerifierEnds, mzVars, Running
    <3>2. Before
      BY <1>4, <3>1 DEF MzInv, Before
    <3> QED
      BY <2>2, <3>2, StepInput, StepOutput DEF Before
  <2> QED
    BY <2>1, <2>2
<1> QED
  BY <1>1, <1>2, <1>3, <1>4, SameNames DEF MzInv

\* The invariant that the two properties rest on.
THEOREM MzKeeps == MzSpec => []MzInv
<1>1. MzInit => MzInv
  BY InitMzInv
<1>2. MzInv /\ [MzNext]_mzVars => MzInv'
  BY StepMzInv
<1> QED
  BY <1>1, <1>2, PTL DEF MzSpec

LEMMA MzInvGone == MzInv => GoneIsHanded
<1> SUFFICES ASSUME MzInv, Gone \/ stage = "done", Dest # "src"
             PROVE  Len(Handed) = N /\ (job.cmd = "d" \/ job.verify => Handed = Whole)
  BY DEF GoneIsHanded
<1>1. SourceInv /\ MzTypeOK
  BY DEF MzInv
<1>2. stage \in Past \ {"verify"}
  BY <1>1 DEF SourceInv, SourceFile, Gone, Past
<1>3. InputInv /\ OutputInv
  BY <1>2 DEF MzInv, Past
<1>4. CASE job.block
  BY <1>2, <1>3, <1>4 DEF OutputInv, BlockInv
<1>5. CASE ~job.block
  <2>1. CodedInv /\ (job.cmd = "c" /\ job.verify => VerifierInv)
    BY <1>2, <1>3, <1>5 DEF OutputInv
  <2>2. Handed \in Seq(Nat) /\ Len(Handed) \in Nat /\ flight = <<>> /\ pipe = <<>>
    <3>1. Handed \in Seq(Nat)
      <4>1. Dest \in Names /\ "src" \in Names /\ bw \in Seq(Nat)
        BY <1>1, NamesOfDest DEF Names, MzTypeOK
      <4>2. files[Dest].data \in Seq(Nat) /\ files["src"].data \in Seq(Nat)
        BY <1>1, <4>1, FilesType, EmptySeq
      <4>3. files[Dest].data \o bw \in Seq(Nat) /\ files["src"].data \o bw \in Seq(Nat)
        BY <4>1, <4>2, ConcatProperties
      <4> QED
        BY <4>3 DEF Handed, ResultFile
    <3> QED
      BY <1>2, <2>1, <3>1, LenProperties DEF CodedInv
  <2>3. Len(Handed) = N
    BY <1>2, <1>3, <2>1, <2>2 DEF CodedInv, InputInv
  <2>4. job.cmd = "d" => Handed = Whole
    BY <2>1, <2>2, <2>3, AllOfIt DEF CodedInv, Ok
  <2>5. ASSUME job.cmd = "c", job.verify PROVE Handed = Whole
    <3>1. VerifierInv /\ ver = "ok" /\ toCheck = <<>> /\ checked \in Seq(Nat)
      BY <1>1, <1>2, <2>1, <2>5 DEF VerifierInv, MzTypeOK
    <3>2. (checked \o <<>>) \o <<>> = checked
      BY <3>1, ConcatEmptySeq
    <3>3. Handed = checked
      BY <2>2, <3>1, <3>2 DEF VerifierInv
    <3>4. \A i \in 1..N : Handed[i] = i
      BY <2>1, <2>3, <3>1, <3>3 DEF CodedInv, VerifierInv, Ok
    <3> QED
      BY <2>2, <2>3, <3>4, AllOfIt
  <2>6. job.cmd \in {"c", "d"}
    BY <1>1, FlagsOfJob
  <2> QED
    BY <2>3, <2>4, <2>5, <2>6
<1> QED
  BY <1>4, <1>5

\* Whenever the source has been removed or replaced, or mz is done, the output
\* holds all of the source, in order, and what -verify passed is right (compress.go
\* processStream, errFn before os.Remove; decompress.go decompressFile).
THEOREM MzGoneIsHanded == MzSpec => []GoneIsHanded
  BY MzKeeps, MzInvGone, PTL

\* exitErr leaves the source alone, at whatever step it is called.
THEOREM MzFailureKeepsSource == MzSpec => []FailureKeepsSource
<1>1. MzInv => FailureKeepsSource
  BY DEF MzInv, SourceInv, FailureKeepsSource, Gone, SourceFile
<1> QED
  BY <1>1, MzKeeps, PTL

-----------------------------------------------------------------------------
(* The inductive invariant.                                                *)

Errors == {"none", "eof", "io"}
Buffer == [lo : Nat, hi : Nat, off : Nat, err : Errors]

TypeOK ==
  /\ size \in Nat /\ pos \in 0..size /\ shut \in BOOLEAN /\ closer \in BOOLEAN
  /\ buf \in [Ids -> Buffer]
  /\ reuse \in Seq(Ids) /\ ready \in Seq(Ids)
  /\ gor \in {"select", "read", "exited"} /\ held \in 0..Buffers /\ atEOF \in BOOLEAN
  /\ cur \in 0..Buffers /\ err \in Errors \cup {"closed"}
  /\ at \in Nat /\ call.n \in Int /\ (call.op = "Read" => call.n \in Nat)

\* Where everybody is: the goroutine holds a buffer to read, a call that serves
\* has met no error, and serves from a buffer.
StageInv ==
  /\ held # 0 <=> gor = "read"
  /\ pc \in {"fill", "serve"} => err = "none"
  /\ pc = "serve" => cur # 0
  /\ pc = "stopped" => gor = "exited"

\* A buffer is in one place, place by place.
PlacesInv ==
  /\ \A i, j \in 1..Len(reuse) : reuse[i] = reuse[j] => i = j
  /\ \A i, j \in 1..Len(ready) : ready[i] = ready[j] => i = j
  /\ \A i \in 1..Len(reuse), j \in 1..Len(ready) : reuse[i] # ready[j]
  /\ \A i \in 1..Len(reuse) : reuse[i] # held /\ reuse[i] # cur
  /\ \A i \in 1..Len(ready) : ready[i] # held /\ ready[i] # cur
  /\ held # 0 => held # cur

\* What comes behind place i of ready, and behind the buffer that is served.
Behind(i) == IF i = Len(ready) THEN pos ELSE buf[ready[i + 1]].off

\* The input from the user's position to the goroutine's is in the buffer being
\* served and in ready, in order and without a gap.
SeamInv ==
  /\ cur # 0 => buf[cur].off = at /\ buf[cur].off <= buf[cur].hi /\ buf[cur].hi = Behind(0)
  /\ cur = 0 /\ err = "none" => at = Behind(0)
  /\ \A i \in 1..Len(ready) :
       buf[ready[i]].off <= buf[ready[i]].hi /\ buf[ready[i]].hi = Behind(i)

\* Nothing comes behind a buffer with an error, and the end is the end.
LastInv ==
  /\ \A i \in 1..Len(ready) : buf[ready[i]].err # "none" =>
       i = Len(ready) /\ gor = "exited" /\ (buf[ready[i]].err = "eof" => pos = size)
  /\ cur # 0 /\ buf[cur].err # "none" =>
       ready = <<>> /\ gor = "exited" /\ (buf[cur].err = "eof" => pos = size)
  /\ atEOF => pos = size
  /\ err \in {"eof", "io"} => at = pos /\ gor = "exited" /\ (err = "eof" => pos = size)

AheadInv == TypeOK /\ StageInv /\ PlacesInv /\ SeamInv /\ LastInv /\ Transparent

-----------------------------------------------------------------------------
(* Sums over ready.                                                        *)

LEMMA LeastNat ==
  ASSUME NEW T \in SUBSET Nat, T # {}
  PROVE  \E x \in T : \A y \in T : x <= y
<1>1. IsWellFoundedOn(OpToRel(<, Nat), Nat)
  BY NatLessThanWellFounded
<1>2. PICK x \in T : \A y \in T : ~(<<y, x>> \in OpToRel(<, Nat))
  BY <1>1, WFMin
<1>3. x \in T /\ \A y \in T : ~(y < x)
  BY <1>2 DEF OpToRel
<1>4. \A y \in T : x <= y
  BY <1>3
<1> QED
  BY <1>3, <1>4

\* A function that goes on like the sum is the sum: the loop of Seek.
LEMMA AheadIs ==
  ASSUME Len(ready) \in Nat,
         NEW h \in [0..Len(ready) -> Int], h[0] = Unread(cur),
         \A i \in 1..Len(ready) : h[i] = h[i - 1] + Unread(ready[i])
  PROVE  Ahead = h[Len(ready)]
<1> DEFINE n == Len(ready)
           P(f) == f = [i \in 0..n |-> IF i = 0 THEN Unread(cur) ELSE f[i - 1] + Unread(ready[i])]
           s == CHOOSE f : P(f)
<1>1. P(h)
  OBVIOUS
<1>2. P(s)
  BY <1>1
<1>3. Ahead = s[n]
  BY DEF Ahead
<1>4. s[0] = Unread(cur) /\ \A i \in 1..n : s[i] = s[i - 1] + Unread(ready[i])
  BY <1>2
<1> HIDE DEF s, P
<1>5. \A i \in 0..n : s[i] = h[i]
  <2> DEFINE T == {i \in 0..n : s[i] # h[i]}
  <2>1. SUFFICES ASSUME T # {} PROVE FALSE
    OBVIOUS
  <2>2. T \in SUBSET Nat
    OBVIOUS
  <2>3. PICK x \in T : \A y \in T : x <= y
    BY <2>1, <2>2, LeastNat
  <2>4. x # 0 /\ x \in 1..n
    BY <1>4, <2>3
  <2>5. x - 1 \in 0..n /\ x - 1 \notin T
    BY <2>3, <2>4
  <2> QED
    BY <1>4, <2>3, <2>4, <2>5
<1> QED
  BY <1>3, <1>5

\* What Seek takes back is what the goroutine is ahead of the user.
LEMMA AheadOfUser ==
  ASSUME TypeOK, SeamInv, cur # 0
  PROVE  Ahead = pos - at
<1> DEFINE h == [i \in 0..Len(ready) |-> Behind(i) - at]
<1>1. Len(ready) \in Nat /\ ready \in Seq(Ids) /\ pos \in Nat /\ at \in Nat
      /\ \A i \in 1..Len(ready) : ready[i] \in Ids
  BY LenProperties DEF TypeOK
<1>2. \A b \in Ids : buf[b].off \in Nat /\ buf[b].hi \in Nat
  BY DEF TypeOK, Buffer
<1>3. cur \in Ids
  BY DEF TypeOK, Ids
<1>4. \A i \in 0..Len(ready) : Behind(i) \in Nat
  BY <1>1, <1>2 DEF Behind
<1>5. h \in [0..Len(ready) -> Int]
  BY <1>1, <1>4
<1>6. h[0] = Unread(cur)
  BY <1>1 DEF SeamInv, Unread
<1>7. \A i \in 1..Len(ready) : h[i] = h[i - 1] + Unread(ready[i])
  <2>1. TAKE i \in 1..Len(ready)
  <2>2. ready[i] \in Ids /\ i - 1 # Len(ready) /\ (i - 1) + 1 = i /\ i - 1 \in 0..Len(ready)
    BY <1>1
  <2>3. Behind(i - 1) = buf[ready[i]].off
    BY <2>2 DEF Behind
  <2>4. Behind(i) = buf[ready[i]].hi
    BY DEF SeamInv
  <2>5. h[i] = buf[ready[i]].hi - at /\ h[i - 1] = buf[ready[i]].off - at
    BY <1>1, <2>2, <2>3, <2>4
  <2> QED
    BY <1>1, <1>2, <2>2, <2>5 DEF Unread
<1>8. h[Len(ready)] = pos - at
  BY <1>1 DEF Behind
<1> HIDE DEF h
<1> QED
  BY <1>1, <1>5, <1>6, <1>7, <1>8, AheadIs

-----------------------------------------------------------------------------
(* Steps that leave the queues alone.                                      *)

LEMMA InitAhead == Init => AheadInv
<1> SUFFICES ASSUME Init PROVE AheadInv
  OBVIOUS
<1>1. Buffers \in Nat /\ Sizes \subseteq Nat
  BY ReadAheadAssumption
<1>2. /\ reuse = [b \in 1..Buffers |-> b] /\ Len(reuse) = Buffers /\ reuse \in Seq(Ids)
      /\ \A i \in 1..Buffers : reuse[i] = i
  BY <1>1 DEF Init, Ids
<1>3. ready = <<>> /\ Len(ready) = 0 /\ ready \in Seq(Ids)
  BY EmptySeq DEF Init
<1>4. TypeOK
  <2>1. [lo |-> 0, hi |-> 0, off |-> 0, err |-> "none"] \in Buffer
    BY DEF Buffer, Errors
  <2>2. buf \in [Ids -> Buffer]
    BY <2>1 DEF Init
  <2> QED
    <3>1. call.n \in Int /\ call.op # "Read"
      BY DEF Init
    <3>2. cur \in 0..Buffers /\ held \in 0..Buffers /\ size \in Nat /\ pos \in 0..size
      BY <1>1 DEF Init
    <3> QED
      BY <1>2, <1>3, <2>2, <3>1, <3>2 DEF Init, TypeOK, Errors
<1>5. PlacesInv
  BY <1>1, <1>2, <1>3 DEF Init, PlacesInv
<1>6. SeamInv /\ LastInv
  BY <1>3 DEF Init, SeamInv, LastInv, Behind
<1> QED
  BY <1>4, <1>5, <1>6 DEF Init, AheadInv, StageInv, Transparent

\* Only the stage of the call and of the goroutine change, and a.err to "closed".
LEMMA StepUntouched ==
  ASSUME AheadInv, UNCHANGED <<size, pos, queues, held, atEOF, cur, at, seen>>,
         gor' = gor \/ gor' = "exited", err' = err \/ err' = "closed"
  PROVE  PlacesInv' /\ SeamInv' /\ LastInv' /\ Transparent'
<1>1. /\ size' = size /\ pos' = pos /\ buf' = buf /\ reuse' = reuse /\ ready' = ready
      /\ held' = held /\ atEOF' = atEOF /\ cur' = cur /\ at' = at /\ seen' = seen
  BY DEF queues
<1>2. PlacesInv'
  BY <1>1 DEF AheadInv, PlacesInv
<1>3. SeamInv'
  BY <1>1 DEF AheadInv, SeamInv, Behind
<1>4. LastInv'
  BY <1>1 DEF AheadInv, LastInv
<1>5. Transparent'
  BY <1>1 DEF AheadInv, Transparent
<1> QED
  BY <1>2, <1>3, <1>4, <1>5

LEMMA StepCalls == AheadInv /\ Calls => AheadInv'
<1> SUFFICES ASSUME AheadInv, Calls PROVE AheadInv'
  OBVIOUS
<1>1. PICK op \in {"Read", "WriteTo", "Close", "SeekStart", "SeekCurrent"}, n \in Int,
           first \in {"fill", "stop"} :
        /\ Call(op, n, first)
        /\ op = "Read" => n \in Nat
        /\ first = "fill" => err = "none"
  <2>1. \A n \in 1..(BufSize + 1) : n \in Int /\ n \in Nat
    BY ReadAheadAssumption
  <2>2. \A n \in 0..size : n \in Int
    BY DEF AheadInv, TypeOK
  <2>3. CASE \E n \in 1..(BufSize + 1) : CallRead(n)
    BY <2>1, <2>3 DEF CallRead
  <2>4. CASE CallWriteTo \/ CallClose
    BY <2>4 DEF CallWriteTo, CallClose
  <2>5. CASE \E n \in 0..size : CallSeek("SeekStart", n)
    BY <2>2, <2>5 DEF CallSeek
  <2>6. CASE \E n \in -1..1 : CallSeek("SeekCurrent", n)
    BY <2>6 DEF CallSeek
  <2> QED
    BY <2>3, <2>4, <2>5, <2>6 DEF Calls
<1>2. /\ UNCHANGED <<size, pos, shut, closer, queues, gor, held, atEOF, cur, err, at, seen>>
      /\ pc' = first /\ call' = [op |-> op, n |-> n]
  BY <1>1 DEF Call, input, goroutine
<1>3. PlacesInv' /\ SeamInv' /\ LastInv' /\ Transparent'
  BY <1>2, StepUntouched
<1>4. TypeOK' /\ StageInv'
  BY <1>1, <1>2 DEF AheadInv, TypeOK, StageInv, queues
<1> QED
  BY <1>3, <1>4 DEF AheadInv

LEMMA StepStages ==
  AheadInv /\ (FillRest \/ FillClosed \/ Stop \/ CloseDone) => AheadInv'
<1> SUFFICES ASSUME AheadInv, FillRest \/ FillClosed \/ Stop \/ CloseDone PROVE AheadInv'
  OBVIOUS
<1>1. /\ UNCHANGED <<size, pos, queues, held, atEOF, cur, at, seen>>
      /\ shut' \in BOOLEAN /\ closer' \in BOOLEAN
      /\ gor' = gor \/ (gor \in {"select", "exited"} /\ gor' = "exited")
      /\ err' = err \/ err' = "closed"
      /\ call' = call \/ call' = [op |-> "none", n |-> 0]
  BY DEF FillRest, FillClosed, Stop, CloseDone, Idle, input, goroutine, user, history,
    AheadInv, TypeOK
<1>2. /\ pc' \in {"serve", "idle", "stopped"}
      /\ pc' = "serve" => err' = "none" /\ cur # 0
      /\ pc' = "stopped" => gor' = "exited"
  BY DEF FillRest, FillClosed, Stop, CloseDone, Idle, AheadInv, StageInv
<1>3. PlacesInv' /\ SeamInv' /\ LastInv' /\ Transparent'
  BY <1>1, StepUntouched
<1>4. TypeOK'
  BY <1>1 DEF AheadInv, TypeOK, queues, Errors
<1>5. StageInv'
  BY <1>1, <1>2 DEF AheadInv, StageInv
<1> QED
  BY <1>3, <1>4, <1>5 DEF AheadInv

-----------------------------------------------------------------------------
(* The goroutine.                                                          *)

\* A buffer that nobody has goes to ready, with what was read last.
LEMMA SeamGrows ==
  ASSUME TypeOK, PlacesInv, SeamInv, NEW b \in Ids, NEW rec \in Buffer,
         \A i \in 1..Len(ready) : ready[i] # b, b # cur,
         buf' = [buf EXCEPT ![b] = rec], ready' = Append(ready, b),
         rec.off = pos, rec.off <= rec.hi, pos' = rec.hi,
         cur' = cur, err' = err, at' = at
  PROVE  SeamInv'
<1>1. /\ Len(ready) \in Nat /\ Len(ready') = Len(ready) + 1
      /\ \A i \in 1..Len(ready) : ready'[i] = ready[i] /\ ready[i] \in Ids
      /\ ready'[Len(ready) + 1] = b
  BY LenProperties, AppendProperties DEF TypeOK
<1>2. buf'[b] = rec /\ \A c \in Ids \ {b} : buf'[c] = buf[c]
  BY DEF TypeOK
<1>3. \A i \in 0..Len(ready) : Behind(i)' = Behind(i)
  <2>1. TAKE i \in 0..Len(ready)
  <2>2. i # Len(ready')
    BY <1>1
  <2>3. CASE i = Len(ready)
    BY <1>1, <1>2, <2>2, <2>3 DEF Behind
  <2>4. CASE i # Len(ready)
    <3>1. i + 1 \in 1..Len(ready)
      BY <1>1, <2>4
    <3>2. ready'[i + 1] = ready[i + 1] /\ ready[i + 1] \in Ids \ {b}
      BY <1>1, <3>1
    <3> QED
      BY <1>2, <2>2, <2>4, <3>2 DEF Behind
  <2> QED
    BY <2>3, <2>4
<1>4. \A i : i = Len(ready) + 1 => Behind(i)' = rec.hi
  BY <1>1 DEF Behind
<1>5. cur # 0 => cur \in Ids \ {b}
  BY DEF TypeOK, Ids
<1>6. \A i \in 1..Len(ready') :
        buf'[ready'[i]].off <= buf'[ready'[i]].hi /\ buf'[ready'[i]].hi = Behind(i)'
  <2>1. TAKE i \in 1..Len(ready')
  <2>2. CASE i = Len(ready) + 1
    BY <1>1, <1>2, <1>4, <2>2
  <2>3. CASE i # Len(ready) + 1
    <3>1. i \in 1..Len(ready) /\ i \in 0..Len(ready)
      BY <1>1, <2>3
    <3> QED
      BY <1>1, <1>2, <1>3, <3>1 DEF SeamInv
  <2> QED
    BY <2>2, <2>3
<1>7. 0 \in 0..Len(ready)
  BY <1>1
<1> QED
  BY <1>2, <1>3, <1>5, <1>6, <1>7 DEF SeamInv

LEMMA StepTake == AheadInv /\ Take => AheadInv'
<1> SUFFICES ASSUME AheadInv, Take PROVE AheadInv'
  OBVIOUS
<1> DEFINE b == Head(reuse)
           rec == [lo |-> pos, hi |-> pos, off |-> pos, err |-> "eof"]
<1>1. TypeOK /\ StageInv /\ PlacesInv /\ SeamInv /\ LastInv /\ Transparent
  BY DEF AheadInv
<1>2. /\ gor = "select" /\ reuse # <<>> /\ reuse' = Tail(reuse) /\ held = 0
      /\ UNCHANGED <<size, pos, shut, closer, atEOF, cur, err, pc, call, at, seen>>
  BY <1>1 DEF Take, input, user, history, StageInv
<1>3. /\ reuse \in Seq(Ids) /\ Len(reuse) \in Nat /\ Len(reuse) > 0 /\ b = reuse[1] /\ b \in Ids
      /\ reuse' \in Seq(Ids) /\ Len(reuse') = Len(reuse) - 1
      /\ \A i \in 1..Len(reuse') : reuse'[i] = reuse[i + 1]
  BY <1>1, <1>2 DEF TypeOK
<1>4. ready \in Seq(Ids) /\ Len(ready) \in Nat /\ Ids \subseteq 1..Buffers /\ b # 0
  BY <1>1, <1>3, LenProperties DEF TypeOK, Ids
<1>5. /\ \A i \in 1..Len(ready) : ready[i] # b
      /\ \A i \in 1..Len(reuse') : reuse'[i] # b
      /\ b # cur
  BY <1>1, <1>3, <1>4 DEF PlacesInv
<1>6. /\ \A i, j \in 1..Len(reuse') : reuse'[i] = reuse'[j] => i = j
      /\ \A i \in 1..Len(reuse'), j \in 1..Len(ready) : reuse'[i] # ready[j]
      /\ \A i \in 1..Len(reuse') : reuse'[i] # cur /\ reuse'[i] # 0
  <2>1. \A i \in 1..Len(reuse') : i + 1 \in 1..Len(reuse) /\ reuse[i + 1] \in Ids
    BY <1>3
  <2>2. \A i, j \in 1..Len(reuse') : reuse'[i] = reuse'[j] => i = j
    <3>1. TAKE i, j \in 1..Len(reuse')
    <3>2. reuse[i + 1] = reuse[j + 1] => i + 1 = j + 1
      BY <1>1, <2>1 DEF PlacesInv
    <3>3. reuse'[i] = reuse[i + 1] /\ reuse'[j] = reuse[j + 1]
      BY <1>3
    <3>4. i \in Int /\ j \in Int
      BY <1>3
    <3> QED
      BY <3>2, <3>3, <3>4
  <2>3. \A i \in 1..Len(reuse'), j \in 1..Len(ready) : reuse'[i] # ready[j]
    BY <1>1, <1>3, <2>1 DEF PlacesInv
  <2>4. \A i \in 1..Len(reuse') : reuse'[i] # cur /\ reuse'[i] # 0
    BY <1>1, <1>3, <1>4, <2>1 DEF PlacesInv
  <2> QED
    BY <2>2, <2>3, <2>4
<1>7. CASE atEOF
  <2>1. /\ buf' = [buf EXCEPT ![b] = rec] /\ ready' = Append(ready, b)
        /\ gor' = "exited" /\ held' = 0
    BY <1>2, <1>7 DEF Take
  <2>2. rec \in Buffer /\ rec.off = pos /\ rec.hi = pos /\ rec.err = "eof" /\ pos = size
    BY <1>1, <1>7 DEF TypeOK, Buffer, Errors, LastInv
  <2> HIDE DEF rec
  <2>3. /\ ready' \in Seq(Ids) /\ Len(ready') = Len(ready) + 1
        /\ \A i \in 1..Len(ready) : ready'[i] = ready[i] /\ ready[i] \in Ids
        /\ ready'[Len(ready) + 1] = b
    BY <1>3, <1>4, <2>1
  <2>4. buf' \in [Ids -> Buffer] /\ buf'[b] = rec /\ \A c \in Ids \ {b} : buf'[c] = buf[c]
    BY <1>1, <1>3, <2>1, <2>2 DEF TypeOK
  <2>5. TypeOK'
    BY <1>1, <1>2, <1>3, <2>1, <2>3, <2>4 DEF TypeOK
  <2>6. StageInv'
    BY <1>1, <1>2, <2>1 DEF StageInv
  <2>7. PlacesInv'
    BY <1>1, <1>2, <1>3, <1>4, <1>5, <1>6, <2>1, <2>3 DEF PlacesInv
  <2>8. SeamInv'
    <3>1. rec.off <= rec.hi /\ pos' = rec.hi
      BY <1>1, <1>2, <2>2 DEF TypeOK
    <3> QED
      BY <1>1, <1>2, <1>3, <1>5, <2>1, <2>2, <3>1, SeamGrows
  <2>9. LastInv'
    <3>1. \A i \in 1..Len(ready) : buf[ready[i]].err = "none"
      BY <1>1, <1>2 DEF LastInv
    <3>2. \A i \in 1..Len(ready) : buf'[ready'[i]].err = "none"
      BY <1>5, <2>3, <2>4, <3>1
    <3>3. cur # 0 => buf[cur].err = "none" /\ buf'[cur] = buf[cur]
      BY <1>1, <1>2, <1>5, <2>4 DEF LastInv, TypeOK, Ids
    <3>4. \A i \in 1..Len(ready') : i \in 1..Len(ready) \/ i = Len(ready')
      BY <1>4, <2>3
    <3> QED
      BY <1>1, <1>2, <2>1, <2>2, <3>2, <3>3, <3>4 DEF LastInv
  <2> QED
    BY <1>1, <1>2, <2>5, <2>6, <2>7, <2>8, <2>9 DEF AheadInv, Transparent
<1>8. CASE ~atEOF
  <2>1. held' = b /\ gor' = "read" /\ buf' = buf /\ ready' = ready
    BY <1>2, <1>8 DEF Take
  <2>2. TypeOK'
    <3>1. b \in 0..Buffers
      BY <1>3 DEF Ids
    <3> QED
      BY <1>1, <1>2, <1>3, <2>1, <3>1 DEF TypeOK
  <2>3. StageInv'
    BY <1>1, <1>2, <1>4, <2>1 DEF StageInv
  <2>4. PlacesInv'
    BY <1>1, <1>2, <1>3, <1>4, <1>5, <1>6, <2>1 DEF PlacesInv
  <2>5. SeamInv'
    BY <1>1, <1>2, <2>1 DEF SeamInv, Behind
  <2>6. LastInv'
    BY <1>1, <1>2, <1>8, <2>1 DEF LastInv
  <2> QED
    BY <1>1, <1>2, <2>2, <2>3, <2>4, <2>5, <2>6 DEF AheadInv, Transparent
<1> QED
  BY <1>1, <1>7, <1>8 DEF TypeOK

\* The queues hold numbers of buffers.
LEMMA QueueOfIds ==
  ASSUME NEW q \in Seq(Ids), NEW b \in Ids
  PROVE  /\ Len(q) \in Nat /\ \A i \in 1..Len(q) : q[i] \in Ids /\ q[i] \in 1..Buffers /\ q[i] # 0
         /\ Append(q, b) \in Seq(Ids) /\ Len(Append(q, b)) = Len(q) + 1
         /\ \A i \in 1..Len(q) : Append(q, b)[i] = q[i]
         /\ Append(q, b)[Len(q) + 1] = b
<1>1. Len(q) \in Nat /\ \A i \in 1..Len(q) : q[i] \in Ids
  BY LenProperties
<1>2. Ids = 1..Buffers /\ \A i \in Ids : i # 0
  BY DEF Ids
<1> QED
  BY <1>1, <1>2, AppendProperties

LEMMA QueueServed ==
  ASSUME NEW q \in Seq(Ids), q # <<>>
  PROVE  /\ Len(q) \in Nat /\ Len(q) > 0 /\ 1 \in 1..Len(q) /\ Head(q) = q[1] /\ q[1] \in Ids
         /\ q[1] \in 1..Buffers /\ q[1] # 0
         /\ Tail(q) \in Seq(Ids) /\ Len(Tail(q)) = Len(q) - 1
         /\ \A i \in 1..Len(Tail(q)) : Tail(q)[i] = q[i + 1] /\ i + 1 \in 1..Len(q) /\ i \in Int
<1>1. Len(q) \in Nat /\ Len(q) > 0 /\ \A i \in 1..Len(q) : q[i] \in Ids
  BY EmptySeq, LenProperties
<1>2. Ids = 1..Buffers /\ \A i \in Ids : i # 0
  BY DEF Ids
<1>3. Head(q) = q[1] /\ Tail(q) \in Seq(Ids) /\ Len(Tail(q)) = Len(q) - 1
      /\ \A i \in 1..Len(Tail(q)) : Tail(q)[i] = q[i + 1]
  BY <1>1, HeadTailProperties
<1> QED
  BY <1>1, <1>2, <1>3

LEMMA StepDeliver == AheadInv /\ Deliver => AheadInv'
<1> SUFFICES ASSUME AheadInv, Deliver PROVE AheadInv'
  OBVIOUS
<1>1. TypeOK /\ StageInv /\ PlacesInv /\ SeamInv /\ LastInv /\ Transparent
  BY DEF AheadInv
<1>2. /\ gor = "read" /\ held # 0 /\ held' = 0 /\ ready' = Append(ready, held)
      /\ UNCHANGED <<size, shut, closer, reuse, cur, err, pc, call, at, seen>>
  BY <1>1 DEF Deliver, user, history, StageInv
<1>3. PICK o \in Outcomes : Delivered(o)
  BY DEF Deliver
<1> DEFINE full == IF size - pos < BufSize THEN size - pos ELSE BufSize
<1>4. size \in Nat /\ pos \in Nat /\ pos <= size /\ BufSize \in Nat /\ full \in 0..(size - pos)
  BY <1>1, ReadAheadAssumption DEF TypeOK
<1>5. /\ o.n \in 0..full /\ o.err \in Errors
      /\ o.err = "eof" => o.n = size - pos
  BY <1>3, <1>4 DEF Outcomes, Errors
<1> DEFINE e == IF o.n > 0 /\ o.err = "eof" THEN "none" ELSE o.err
           rec == [lo |-> pos, hi |-> pos + o.n, off |-> pos, err |-> e]
<1>6. held \in Ids /\ held \in 1..Buffers
  BY <1>1, <1>2 DEF TypeOK, Ids
<1>7. /\ pos' = pos + o.n /\ buf' = [buf EXCEPT ![held] = rec]
      /\ atEOF' = (o.n > 0 /\ o.err = "eof")
  BY <1>3 DEF Delivered
<1>8. /\ rec \in Buffer /\ rec.off = pos /\ rec.hi = pos' /\ rec.off <= rec.hi
      /\ rec.err = e /\ pos' \in 0..size
      /\ e = "eof" => pos' = size
      /\ atEOF' => pos' = size
  <2>1. pos + o.n \in 0..size /\ o.n \in Nat
    BY <1>4, <1>5
  <2>2. e \in Errors /\ (e = "eof" => o.err = "eof")
    BY <1>5 DEF Errors
  <2>3. o.err = "eof" => pos + o.n = size
    BY <1>4, <1>5
  <2> HIDE DEF e
  <2>4. rec \in Buffer
    BY <1>4, <2>1, <2>2 DEF Buffer
  <2>5. pos' = pos + o.n /\ (atEOF' => o.err = "eof")
    BY <1>7
  <2>6. rec.off = pos /\ rec.hi = pos + o.n /\ rec.err = e
    OBVIOUS
  <2> HIDE DEF rec
  <2> QED
    BY <1>4, <2>1, <2>2, <2>3, <2>4, <2>5, <2>6
<1> HIDE DEF rec
<1>9. buf' \in [Ids -> Buffer] /\ buf'[held] = rec /\ \A c \in Ids \ {held} : buf'[c] = buf[c]
  BY <1>1, <1>6, <1>7, <1>8 DEF TypeOK
<1>10. gor' = IF e = "none" THEN "select" ELSE "exited"
  BY <1>3, <1>8, <1>9 DEF Delivered
<1> HIDE DEF e, full
<1>11. /\ ready \in Seq(Ids) /\ Len(ready) \in Nat /\ reuse \in Seq(Ids) /\ Len(reuse) \in Nat
       /\ ready' \in Seq(Ids) /\ Len(ready') = Len(ready) + 1
       /\ \A i \in 1..Len(ready) : ready'[i] = ready[i] /\ ready[i] \in Ids
       /\ ready'[Len(ready) + 1] = held
       /\ \A i \in 1..Len(reuse) : reuse[i] \in 1..Buffers
  BY <1>1, <1>2, <1>6, QueueOfIds DEF TypeOK
<1>12. TypeOK'
  BY <1>1, <1>2, <1>7, <1>8, <1>9, <1>10, <1>11, ReadAheadAssumption DEF TypeOK
<1>13. StageInv'
  BY <1>1, <1>2, <1>10 DEF StageInv
<1>14. PlacesInv'
  <2>1. \A i \in 1..Len(ready) : ready[i] # held /\ ready[i] # cur /\ ready[i] # 0
    BY <1>1, <1>11 DEF PlacesInv, Ids
  <2>2. held # cur
    BY <1>1, <1>2 DEF PlacesInv
  <2>3. \A i, j \in 1..Len(ready') : ready'[i] = ready'[j] => i = j
    BY <1>1, <1>11, <2>1, SMTT(30) DEF PlacesInv
  <2>4. \A i \in 1..Len(ready') : ready'[i] # 0 /\ ready'[i] # cur
    BY <1>6, <1>11, <2>1, <2>2, SMTT(30)
  <2>5. \A i \in 1..Len(reuse), j \in 1..Len(ready') : reuse[i] # ready'[j]
    BY <1>1, <1>11 DEF PlacesInv
  <2> QED
    BY <1>1, <1>2, <1>11, <2>3, <2>4, <2>5 DEF PlacesInv
<1>15. SeamInv'
  <2>1. \A i \in 1..Len(ready) : ready[i] # held
    BY <1>1 DEF PlacesInv
  <2>2. held # cur
    BY <1>1, <1>2 DEF PlacesInv
  <2> QED
    BY <1>1, <1>2, <1>6, <1>7, <1>8, <2>1, <2>2, SeamGrows
<1>16. LastInv'
  <2>1. \A i \in 1..Len(ready) : buf[ready[i]].err = "none" /\ ready[i] # held
    BY <1>1, <1>2 DEF LastInv, PlacesInv
  <2>2. \A i \in 1..Len(ready) : buf'[ready'[i]].err = "none"
    BY <1>9, <1>11, <2>1
  <2>3. cur # 0 => buf[cur].err = "none" /\ buf'[cur] = buf[cur]
    BY <1>1, <1>2, <1>9 DEF LastInv, TypeOK, Ids, PlacesInv
  <2>4. \A i \in 1..Len(ready') : i \in 1..Len(ready) \/ i = Len(ready')
    BY <1>11
  <2>5. buf'[ready'[Len(ready')]].err = e
    BY <1>8, <1>9, <1>11
  <2>6. ~(err \in {"eof", "io"})
    BY <1>1, <1>2 DEF LastInv
  <2> QED
    BY <1>2, <1>8, <1>10, <2>2, <2>3, <2>4, <2>5, <2>6 DEF LastInv
<1> QED
  BY <1>1, <1>2, <1>12, <1>13, <1>14, <1>15, <1>16 DEF AheadInv, Transparent

-----------------------------------------------------------------------------
(* The user's calls.                                                       *)

LEMMA StepFillServed == AheadInv /\ FillServed => AheadInv'
<1> SUFFICES ASSUME AheadInv, FillServed PROVE AheadInv'
  OBVIOUS
<1>1. TypeOK /\ StageInv /\ PlacesInv /\ SeamInv /\ LastInv /\ Transparent
  BY DEF AheadInv
<1>2. /\ pc = "fill" /\ cur # 0 /\ Unread(cur) = 0 /\ reuse' = Append(reuse, cur) /\ cur' = 0
      /\ UNCHANGED <<size, pos, shut, closer, buf, ready, gor, held, atEOF, err, pc, call, at, seen>>
  BY DEF FillServed, input, goroutine, history
<1>3. cur \in Ids /\ cur \in 1..Buffers /\ 0 \in 0..Buffers /\ Len(ready) \in Nat
  BY <1>1, <1>2, ReadAheadAssumption, LenProperties DEF TypeOK, Ids
<1>4. /\ Len(reuse) \in Nat /\ reuse' \in Seq(Ids) /\ Len(reuse') = Len(reuse) + 1
      /\ \A i \in 1..Len(reuse) : reuse'[i] = reuse[i] /\ reuse[i] \in 1..Buffers
      /\ reuse'[Len(reuse) + 1] = cur
      /\ \A i \in 1..Len(ready) : ready[i] \in 1..Buffers
  BY <1>1, <1>2, <1>3, QueueOfIds DEF TypeOK
<1>5. at = Behind(0)
  <2>1. buf[cur].off \in Nat /\ buf[cur].hi \in Nat
    BY <1>1, <1>3 DEF TypeOK, Buffer
  <2> QED
    BY <1>1, <1>2, <2>1 DEF SeamInv, Unread
<1>6. TypeOK'
  BY <1>1, <1>2, <1>3, <1>4 DEF TypeOK
<1>7. StageInv'
  BY <1>1, <1>2 DEF StageInv
<1>8. PlacesInv'
  BY <1>1, <1>2, <1>3, <1>4 DEF PlacesInv
<1>9. SeamInv'
  BY <1>1, <1>2, <1>5 DEF SeamInv, Behind
<1>10. LastInv'
  BY <1>1, <1>2 DEF LastInv
<1> QED
  BY <1>1, <1>2, <1>6, <1>7, <1>8, <1>9, <1>10 DEF AheadInv, Transparent

LEMMA StepFillReady == AheadInv /\ FillReady => AheadInv'
<1> SUFFICES ASSUME AheadInv, FillReady PROVE AheadInv'
  OBVIOUS
<1>1. TypeOK /\ StageInv /\ PlacesInv /\ SeamInv /\ LastInv /\ Transparent
  BY DEF AheadInv
<1>2. /\ pc = "fill" /\ cur = 0 /\ ready # <<>> /\ cur' = Head(ready) /\ ready' = Tail(ready)
      /\ pc' = "serve" /\ err = "none"
      /\ UNCHANGED <<size, pos, shut, closer, buf, reuse, gor, held, atEOF, err, call, at, seen>>
  BY <1>1 DEF FillReady, input, goroutine, history, StageInv
<1>3. /\ Len(ready) \in Nat /\ Len(ready) > 0 /\ cur' = ready[1] /\ ready[1] \in Ids
      /\ ready' \in Seq(Ids) /\ Len(ready') = Len(ready) - 1
      /\ \A i \in 1..Len(ready') : ready'[i] = ready[i + 1] /\ i + 1 \in 1..Len(ready)
      /\ 1 \in 1..Len(ready)
  BY <1>1, <1>2, QueueServed DEF TypeOK
<1>4. cur' \in 1..Buffers /\ cur' # 0 /\ (Len(ready') = 0 => ready' = <<>>)
  <2>1. Len(ready') = 0 => ready' = <<>>
    BY <1>3, EmptySeq
  <2> QED
    BY <1>1, <1>2, <1>3, <2>1, QueueServed DEF TypeOK
<1>5. \A i \in 0..Len(ready') : Behind(i)' = Behind(i + 1)
  <2>1. TAKE i \in 0..Len(ready')
  <2>2. CASE i = Len(ready')
    <3>1. i + 1 = Len(ready)
      BY <1>3, <2>2
    <3> QED
      BY <1>2, <2>2, <3>1 DEF Behind
  <2>3. CASE i # Len(ready')
    <3>1. i + 1 \in 1..Len(ready') /\ i + 1 # Len(ready)
      BY <1>3, <2>3
    <3>2. ready'[i + 1] = ready[(i + 1) + 1]
      BY <1>3, <3>1
    <3> QED
      BY <1>2, <2>3, <3>1, <3>2 DEF Behind
  <2> QED
    BY <2>2, <2>3
<1>6. TypeOK'
  BY <1>1, <1>2, <1>3, <1>4 DEF TypeOK
<1>7. StageInv'
  BY <1>1, <1>2, <1>4 DEF StageInv
<1>8. PlacesInv'
  <2>1. \A i, j \in 1..Len(ready') : ready'[i] = ready'[j] => i = j
    <3>1. TAKE i, j \in 1..Len(ready')
    <3>2. ready[i + 1] = ready[j + 1] => i + 1 = j + 1
      BY <1>1, <1>3 DEF PlacesInv
    <3>3. i \in Int /\ j \in Int
      BY <1>3
    <3> QED
      BY <1>3, <3>2, <3>3
  <2>2. \A i \in 1..Len(ready') : ready'[i] # cur' /\ ready'[i] # held
    <3>1. TAKE i \in 1..Len(ready')
    <3>2. i + 1 \in 1..Len(ready) /\ i + 1 # 1 /\ ready'[i] = ready[i + 1]
      BY <1>3
    <3> QED
      BY <1>1, <1>3, <3>2 DEF PlacesInv
  <2>3. \A i \in 1..Len(reuse) : reuse[i] # cur' /\ reuse[i] # held
    BY <1>1, <1>3 DEF PlacesInv
  <2>4. \A i \in 1..Len(reuse), j \in 1..Len(ready') : reuse[i] # ready'[j]
    BY <1>1, <1>3 DEF PlacesInv
  <2>5. held # 0 => held # cur'
    BY <1>1, <1>3 DEF PlacesInv
  <2> QED
    BY <1>1, <1>2, <2>1, <2>2, <2>3, <2>4, <2>5 DEF PlacesInv
<1>9. SeamInv'
  <2>1. Behind(0)' = Behind(1) /\ Behind(0) = buf[ready[1]].off
    <3>1. 0 \in 0..Len(ready') /\ 0 + 1 = 1 /\ 0 # Len(ready)
      BY <1>3
    <3> QED
      BY <1>5, <3>1 DEF Behind
  <2>2. at' = buf'[cur'].off /\ buf'[cur'].off <= buf'[cur'].hi /\ buf'[cur'].hi = Behind(0)'
    BY <1>1, <1>2, <1>3, <2>1 DEF SeamInv
  <2>3. \A i \in 1..Len(ready') :
          buf'[ready'[i]].off <= buf'[ready'[i]].hi /\ buf'[ready'[i]].hi = Behind(i)'
    BY <1>1, <1>2, <1>3, <1>5 DEF SeamInv
  <2> QED
    BY <1>4, <2>2, <2>3 DEF SeamInv
<1>10. LastInv'
  <2>1. \A i \in 1..Len(ready') : i + 1 = Len(ready) => i = Len(ready')
    BY <1>3
  <2>2. buf[ready[1]].err # "none" => Len(ready') = 0
    BY <1>1, <1>3 DEF LastInv
  <2>3. \A i \in 1..Len(ready') : buf'[ready'[i]].err # "none" =>
          i = Len(ready') /\ gor' = "exited" /\ (buf'[ready'[i]].err = "eof" => pos' = size')
    BY <1>1, <1>2, <1>3, <2>1, ZenonT(30) DEF LastInv
  <2>4. cur' # 0 /\ buf'[cur'].err # "none" =>
          ready' = <<>> /\ gor' = "exited" /\ (buf'[cur'].err = "eof" => pos' = size')
    BY <1>1, <1>2, <1>3, <1>4, <2>2 DEF LastInv
  <2> QED
    BY <1>1, <1>2, <2>3, <2>4 DEF LastInv
<1> QED
  BY <1>1, <1>2, <1>6, <1>7, <1>8, <1>9, <1>10 DEF AheadInv, Transparent

\* Units are served: the user's position moves with the buffer's.
LEMMA Served ==
  ASSUME AheadInv, pc = "serve", NEW n \in Nat, n <= Unread(cur), Serve(n)
  PROVE  /\ cur \in Ids /\ cur \in 1..Buffers /\ cur # 0 /\ err = "none"
         /\ buf' \in [Ids -> Buffer] /\ \A b \in Ids \ {cur} : buf'[b] = buf[b]
         /\ buf'[cur].hi = buf[cur].hi /\ buf'[cur].err = buf[cur].err
         /\ buf[cur].err \in Errors
         /\ buf'[cur].off = at' /\ at' = at + n /\ at' \in Nat /\ at' <= buf[cur].hi
         /\ (n = Unread(cur) => at' = buf[cur].hi)
         /\ Transparent'
<1>1. TypeOK /\ StageInv /\ SeamInv
  BY DEF AheadInv
<1>2. cur \in Ids /\ cur \in 1..Buffers /\ cur # 0 /\ err = "none"
  BY <1>1 DEF StageInv, TypeOK, Ids
<1> DEFINE rec == [buf[cur] EXCEPT !.off = @ + n]
<1>3. buf[cur] \in Buffer /\ buf[cur].off \in Nat /\ buf[cur].hi \in Nat /\ buf[cur].err \in Errors
  BY <1>1, <1>2 DEF TypeOK, Buffer
<1>4. /\ rec \in Buffer /\ rec.off = buf[cur].off + n /\ rec.hi = buf[cur].hi
      /\ rec.err = buf[cur].err
  BY <1>3 DEF Buffer
<1>5. buf' = [buf EXCEPT ![cur] = rec] /\ at' = at + n /\ seen' = [want |-> at, got |-> buf[cur].off]
  BY DEF Serve
<1> HIDE DEF rec
<1>6. buf' \in [Ids -> Buffer] /\ buf'[cur] = rec /\ \A b \in Ids \ {cur} : buf'[b] = buf[b]
  BY <1>1, <1>2, <1>4, <1>5 DEF TypeOK
<1>7. at = buf[cur].off /\ at \in Nat /\ n <= buf[cur].hi - buf[cur].off
  BY <1>1, <1>2 DEF SeamInv, TypeOK, Unread
<1>8. /\ at' = buf[cur].off + n /\ at' \in Nat /\ at' <= buf[cur].hi
      /\ (n = Unread(cur) => at' = buf[cur].hi)
  BY <1>3, <1>5, <1>7 DEF Unread
<1>9. Transparent'
  BY <1>5, <1>7 DEF Transparent
<1> QED
  BY <1>2, <1>3, <1>4, <1>5, <1>6, <1>8, <1>9

\* The buffer stays current: what is served of it is the beginning.
LEMMA ServeKeeps ==
  ASSUME AheadInv, pc = "serve", NEW n \in Nat, n <= Unread(cur), Serve(n),
         UNCHANGED <<size, pos, shut, closer, reuse, ready, gor, held, atEOF, cur>>,
         err' = err \/ (n = Unread(cur) /\ err' = buf[cur].err),
         pc' = "idle" \/ (pc' = "fill" /\ err' = "none"),
         call' = call \/ call' = [op |-> "none", n |-> 0]
  PROVE  AheadInv'
<1>1. TypeOK /\ StageInv /\ PlacesInv /\ SeamInv /\ LastInv
  BY DEF AheadInv
<1>2. /\ cur \in Ids /\ cur # 0 /\ err = "none"
      /\ buf' \in [Ids -> Buffer] /\ \A b \in Ids \ {cur} : buf'[b] = buf[b]
      /\ buf'[cur].hi = buf[cur].hi /\ buf'[cur].err = buf[cur].err
      /\ buf[cur].err \in Errors
      /\ buf'[cur].off = at' /\ at' \in Nat /\ at' <= buf[cur].hi
      /\ (n = Unread(cur) => at' = buf[cur].hi)
      /\ Transparent'
  BY Served
<1>3. Len(ready) \in Nat /\ \A i \in 1..Len(ready) : ready[i] \in Ids \ {cur}
  BY <1>1, LenProperties DEF TypeOK, PlacesInv
<1>4. \A i \in 1..Len(ready) : buf'[ready[i]] = buf[ready[i]]
  BY <1>2, <1>3
<1>5. \A i \in 0..Len(ready) : Behind(i)' = Behind(i)
  BY <1>3, <1>4 DEF Behind
<1>6. TypeOK'
  BY <1>1, <1>2 DEF TypeOK
<1>7. StageInv'
  BY <1>1, <1>2 DEF StageInv
<1>8. PlacesInv'
  BY <1>1 DEF PlacesInv
<1>9. 0 \in 0..Len(ready)
  BY <1>3
<1>10. SeamInv'
  BY <1>1, <1>2, <1>3, <1>4, <1>5, <1>9 DEF SeamInv
<1>11. LastInv'
  <2>1. err' \in {"eof", "io"} =>
          at' = pos /\ gor = "exited" /\ (err' = "eof" => pos = size)
    <3>1. SUFFICES ASSUME err' \in {"eof", "io"}
                   PROVE  at' = pos /\ gor = "exited" /\ (err' = "eof" => pos = size)
      OBVIOUS
    <3>2. n = Unread(cur) /\ err' = buf[cur].err /\ buf[cur].err # "none"
      BY <1>2, <3>1
    <3>3. ready = <<>> /\ gor = "exited" /\ (buf[cur].err = "eof" => pos = size)
      BY <1>1, <1>2, <3>2 DEF LastInv
    <3>4. at' = Behind(0)
      BY <1>1, <1>2, <3>2 DEF SeamInv
    <3> QED
      BY <3>2, <3>3, <3>4, EmptySeq DEF Behind
  <2> QED
    BY <1>1, <1>2, <1>4, <2>1 DEF LastInv
<1> QED
  BY <1>2, <1>6, <1>7, <1>8, <1>10, <1>11 DEF AheadInv

LEMMA StepServeWrite == AheadInv /\ (ServeWrite \/ WriteFails) => AheadInv'
<1> SUFFICES ASSUME AheadInv, ServeWrite \/ WriteFails PROVE AheadInv'
  OBVIOUS
<1>1. pc = "serve" /\ UNCHANGED <<size, pos, shut, closer, reuse, ready, gor, held, atEOF, cur>>
  BY DEF ServeWrite, WriteFails, input, goroutine
<1>2. Unread(cur) \in Nat /\ err = "none"
  <2>1. cur \in Ids /\ cur # 0 /\ err = "none"
    BY <1>1 DEF AheadInv, StageInv, TypeOK, Ids
  <2>2. buf[cur].off \in Nat /\ buf[cur].hi \in Nat /\ buf[cur].off <= buf[cur].hi
    BY <2>1 DEF AheadInv, TypeOK, Buffer, SeamInv
  <2> QED
    BY <2>1, <2>2 DEF Unread
<1>3. CASE ServeWrite
  <2>1. /\ Serve(Unread(cur)) /\ err' = buf[cur].err
        /\ pc' = "idle" \/ (pc' = "fill" /\ err' = "none")
        /\ call' = call \/ call' = [op |-> "none", n |-> 0]
    BY <1>3 DEF ServeWrite, Idle
  <2> QED
    BY <1>1, <1>2, <2>1, ServeKeeps
<1>4. CASE WriteFails
  <2>1. PICK n \in 0..Unread(cur) : Serve(n)
    BY <1>4 DEF WriteFails
  <2>2. n \in Nat /\ n <= Unread(cur)
    BY <1>2
  <2>3. err' = err /\ pc' = "idle" /\ call' = [op |-> "none", n |-> 0]
    BY <1>4 DEF WriteFails, Idle
  <2> QED
    BY <1>1, <2>1, <2>2, <2>3, ServeKeeps
<1> QED
  BY <1>3, <1>4

LEMMA StepServeRead == AheadInv /\ ServeRead => AheadInv'
<1> SUFFICES ASSUME AheadInv, ServeRead PROVE AheadInv'
  OBVIOUS
<1>1. TypeOK /\ StageInv /\ PlacesInv /\ SeamInv /\ LastInv
  BY DEF AheadInv
<1> DEFINE n == IF call.n < Unread(cur) THEN call.n ELSE Unread(cur)
<1>2. /\ pc = "serve" /\ Serve(n) /\ GiveBack(n) /\ pc' = "idle"
      /\ call' = [op |-> "none", n |-> 0] /\ call.op = "Read"
      /\ UNCHANGED <<size, pos, shut, closer, ready, gor, held, atEOF>>
  BY DEF ServeRead, Idle, input, goroutine
<1>3. n \in Nat /\ n <= Unread(cur)
  <2>1. cur \in Ids /\ cur # 0 /\ call.n \in Nat
    BY <1>1, <1>2 DEF StageInv, TypeOK, Ids
  <2>2. buf[cur].off \in Nat /\ buf[cur].hi \in Nat /\ buf[cur].off <= buf[cur].hi
    BY <1>1, <2>1 DEF TypeOK, Buffer, SeamInv
  <2>3. Unread(cur) \in Nat
    BY <2>2 DEF Unread
  <2> QED
    BY <2>1, <2>3
<1> HIDE DEF n
<1>4. CASE Unread(cur) # n
  <2>1. UNCHANGED <<err, reuse, cur>>
    BY <1>2, <1>4 DEF GiveBack
  <2> QED
    BY <1>2, <1>3, <2>1, ServeKeeps
<1>5. CASE Unread(cur) = n
  <2>1. err' = buf[cur].err /\ reuse' = Append(reuse, cur) /\ cur' = 0
    BY <1>2, <1>5 DEF GiveBack
  <2>2. /\ cur \in Ids /\ cur \in 1..Buffers /\ cur # 0 /\ err = "none"
        /\ buf' \in [Ids -> Buffer] /\ \A b \in Ids \ {cur} : buf'[b] = buf[b]
        /\ buf[cur].err \in Errors /\ at' \in Nat /\ at' = buf[cur].hi
        /\ Transparent'
    BY <1>2, <1>3, <1>5, Served
  <2>3. Len(ready) \in Nat /\ \A i \in 1..Len(ready) : ready[i] \in Ids \ {cur} /\ ready[i] # 0
    BY <1>1, <2>2, QueueOfIds DEF TypeOK, PlacesInv
  <2>4. \A i \in 1..Len(ready) : buf'[ready[i]] = buf[ready[i]]
    BY <2>2, <2>3
  <2>5. /\ 0 \in 0..Len(ready)
        /\ \A i \in 0..Len(ready) : Behind(i)' = Behind(i)
    BY <1>2, <2>3, <2>4 DEF Behind
  <2>6. /\ Len(reuse) \in Nat /\ reuse' \in Seq(Ids) /\ Len(reuse') = Len(reuse) + 1
        /\ \A i \in 1..Len(reuse) : reuse'[i] = reuse[i] /\ reuse[i] # 0
        /\ reuse'[Len(reuse) + 1] = cur
    BY <1>1, <2>1, <2>2, QueueOfIds DEF TypeOK
  <2>7. TypeOK'
    <3>1. cur' \in 0..Buffers /\ err' \in Errors \cup {"closed"}
      BY <2>1, <2>2, ReadAheadAssumption
    <3>2. call'.n \in Int /\ call'.op # "Read"
      BY <1>2
    <3> QED
      BY <1>1, <1>2, <2>2, <2>6, <3>1, <3>2 DEF TypeOK
  <2>8. StageInv'
    BY <1>1, <1>2 DEF StageInv
  <2>9. PlacesInv'
    <3>1. \A i \in 1..Len(reuse') :
            (i = Len(reuse) + 1 /\ reuse'[i] = cur) \/ (i \in 1..Len(reuse) /\ reuse'[i] = reuse[i])
      BY <2>6
    <3>2. \A i, j \in 1..Len(reuse') : reuse'[i] = reuse'[j] => i = j
      BY <1>1, <3>1 DEF PlacesInv
    <3>3. \A i \in 1..Len(reuse'), j \in 1..Len(ready) : reuse'[i] # ready[j]
      BY <1>1, <3>1 DEF PlacesInv
    <3>4. \A i \in 1..Len(reuse') : reuse'[i] # held /\ reuse'[i] # 0
      BY <1>1, <2>2, <2>6, <3>1 DEF PlacesInv
    <3> QED
      BY <1>1, <1>2, <2>1, <2>3, <3>2, <3>3, <3>4 DEF PlacesInv
  <2>10. SeamInv'
    BY <1>1, <1>2, <2>1, <2>2, <2>4, <2>5 DEF SeamInv
  <2>11. LastInv'
    <3>1. buf[cur].err # "none" =>
            at' = pos /\ gor = "exited" /\ (buf[cur].err = "eof" => pos = size)
      <4>1. SUFFICES ASSUME buf[cur].err # "none"
                     PROVE  at' = pos /\ gor = "exited" /\ (buf[cur].err = "eof" => pos = size)
        OBVIOUS
      <4>2. ready = <<>> /\ gor = "exited" /\ (buf[cur].err = "eof" => pos = size)
        BY <1>1, <2>2, <4>1 DEF LastInv
      <4>3. at' = Behind(0)
        BY <1>1, <2>2 DEF SeamInv
      <4> QED
        BY <4>2, <4>3, EmptySeq DEF Behind
    <3> QED
      BY <1>1, <1>2, <2>1, <2>2, <2>4, <3>1 DEF LastInv
  <2> QED
    BY <2>2, <2>7, <2>8, <2>9, <2>10, <2>11 DEF AheadInv
<1> QED
  BY <1>4, <1>5

-----------------------------------------------------------------------------
(* Seek.                                                                   *)

LEMMA StepSeekDone == AheadInv /\ SeekDone => AheadInv'
<1> SUFFICES ASSUME AheadInv, SeekDone PROVE AheadInv'
  OBVIOUS
<1>1. TypeOK /\ StageInv /\ SeamInv
  BY DEF AheadInv
<1>2. /\ pc = "stopped" /\ call.op \in {"SeekStart", "SeekCurrent"}
      /\ Target \in 0..size /\ pos' = Target /\ at' = Target
      /\ UNCHANGED <<size, shut, closer>> /\ pc' = "idle" /\ call' = [op |-> "none", n |-> 0]
  BY DEF SeekDone, Idle
<1>3. /\ buf' = [b \in Ids |-> [lo |-> 0, hi |-> 0, off |-> 0, err |-> "none"]]
      /\ reuse' = [b \in 1..Buffers |-> b] /\ ready' = <<>>
      /\ gor' = "select" /\ held' = 0 /\ atEOF' = FALSE /\ cur' = 0 /\ err' = "none"
  BY DEF SeekDone, Fresh, Ids
<1>4. Buffers \in Nat
  BY ReadAheadAssumption
<1>5. /\ reuse' \in Seq(Ids) /\ Len(reuse') = Buffers /\ \A i \in 1..Buffers : reuse'[i] = i
      /\ ready' \in Seq(Ids) /\ Len(ready') = 0
  BY <1>3, <1>4, EmptySeq DEF Ids
<1>6. TypeOK'
  <2>1. [lo |-> 0, hi |-> 0, off |-> 0, err |-> "none"] \in Buffer
    BY DEF Buffer, Errors
  <2>2. buf' \in [Ids -> Buffer]
    BY <1>3, <2>1
  <2>3. call'.n \in Int /\ call'.op # "Read"
    BY <1>2
  <2>4. at' \in Nat /\ cur' \in 0..Buffers /\ held' \in 0..Buffers
    BY <1>1, <1>2, <1>3, <1>4 DEF TypeOK
  <2>5. size' \in Nat /\ pos' \in 0..size' /\ shut' \in BOOLEAN /\ closer' \in BOOLEAN
    BY <1>1, <1>2 DEF TypeOK
  <2>6. /\ gor' \in {"select", "read", "exited"} /\ atEOF' \in BOOLEAN
        /\ err' \in Errors \cup {"closed"}
    BY <1>3 DEF Errors
  <2> QED
    BY <1>5, <2>2, <2>3, <2>4, <2>5, <2>6 DEF TypeOK
<1>7. StageInv' /\ LastInv'
  BY <1>2, <1>3, <1>5 DEF StageInv, LastInv
<1>8. PlacesInv'
  BY <1>3, <1>4, <1>5 DEF PlacesInv
<1>9. SeamInv'
  BY <1>2, <1>3, <1>5 DEF SeamInv, Behind
<1>10. Transparent'
  <2>1. CASE call.op = "SeekCurrent" /\ cur # 0
    <3>1. Target = pos + call.n - (pos - at)
      BY <1>1, <2>1, AheadOfUser DEF Target
    <3>2. pos \in Int /\ at \in Int /\ call.n \in Int
      BY <1>1 DEF TypeOK
    <3>3. seen' = [want |-> at + call.n, got |-> Target]
      BY <2>1 DEF SeekDone
    <3> QED
      BY <3>1, <3>2, <3>3 DEF Transparent
  <2>2. CASE ~(call.op = "SeekCurrent" /\ cur # 0)
    BY <2>2 DEF SeekDone, Transparent
  <2> QED
    BY <2>1, <2>2
<1> QED
  BY <1>6, <1>7, <1>8, <1>9, <1>10 DEF AheadInv

\* Two queues without a buffer in common, one behind the other.
LEMMA QueuesJoined ==
  ASSUME NEW q \in Seq(Ids), NEW r \in Seq(Ids),
         \A i, j \in 1..Len(q) : q[i] = q[j] => i = j,
         \A i, j \in 1..Len(r) : r[i] = r[j] => i = j,
         \A i \in 1..Len(q), j \in 1..Len(r) : q[i] # r[j]
  PROVE  /\ q \o r \in Seq(Ids) /\ DOMAIN (q \o r) = 1..Len(q \o r)
         /\ \A i, j \in 1..Len(q \o r) : (q \o r)[i] = (q \o r)[j] => i = j
         /\ \A i \in 1..Len(q \o r) : \/ \E j \in 1..Len(q) : (q \o r)[i] = q[j]
                                      \/ \E j \in 1..Len(r) : (q \o r)[i] = r[j]
<1> DEFINE s == q \o r
<1>1. Len(q) \in Nat /\ Len(r) \in Nat /\ s \in Seq(Ids)
  BY LenProperties, ConcatProperties
<1>2. /\ Len(s) = Len(q) + Len(r)
      /\ \A i \in 1..Len(s) : s[i] = IF i <= Len(q) THEN q[i] ELSE r[i - Len(q)]
  BY <1>1, ConcatProperties
<1> HIDE DEF s
<1>3. \A i \in 1..Len(s) :
        \/ i \in 1..Len(q) /\ s[i] = q[i]
        \/ i - Len(q) \in 1..Len(r) /\ s[i] = r[i - Len(q)]
  BY <1>1, <1>2
<1>4. ASSUME NEW i \in 1..Len(s), NEW j \in 1..Len(s), s[i] = s[j] PROVE i = j
  <2>1. i \in Int /\ j \in Int
    BY <1>1, <1>2
  <2>2. CASE i \in 1..Len(q) /\ s[i] = q[i] /\ j \in 1..Len(q) /\ s[j] = q[j]
    BY <1>4, <2>2
  <2>3. CASE i \in 1..Len(q) /\ s[i] = q[i] /\ j - Len(q) \in 1..Len(r) /\ s[j] = r[j - Len(q)]
    BY <1>4, <2>3
  <2>4. CASE j \in 1..Len(q) /\ s[j] = q[j] /\ i - Len(q) \in 1..Len(r) /\ s[i] = r[i - Len(q)]
    BY <1>4, <2>4
  <2>5. CASE i - Len(q) \in 1..Len(r) /\ s[i] = r[i - Len(q)]
             /\ j - Len(q) \in 1..Len(r) /\ s[j] = r[j - Len(q)]
    <3>1. i - Len(q) = j - Len(q)
      BY <1>4, <2>5
    <3> QED
      BY <1>1, <2>1, <3>1
  <2> QED
    BY <1>3, <2>2, <2>3, <2>4, <2>5
<1>5. DOMAIN s = 1..Len(s)
  BY <1>1, LenProperties
<1> QED
  BY <1>1, <1>3, <1>4, <1>5 DEF s

LEMMA StepSeekFails == AheadInv /\ SeekFails => AheadInv'
<1> SUFFICES ASSUME AheadInv, SeekFails PROVE AheadInv'
  OBVIOUS
<1>1. TypeOK /\ StageInv /\ PlacesInv /\ SeamInv /\ LastInv /\ Transparent
  BY DEF AheadInv
<1>2. /\ pc = "stopped" /\ pc' = "idle" /\ call' = [op |-> "none", n |-> 0]
      /\ UNCHANGED <<size, pos, shut, closer, buf, gor, held, atEOF, at, seen>>
  BY DEF SeekFails, Idle, input, goroutine, history
<1>3. call'.n \in Int /\ call'.op # "Read"
  BY <1>2
<1>4. CASE call.op = "SeekCurrent" /\ cur # 0
  <2>1. /\ reuse' = (reuse \o <<cur>>) \o ready /\ ready' = <<>> /\ cur' = 0
        /\ err' = IF err = "none" THEN "closed" ELSE err
    BY <1>4 DEF SeekFails
  <2>2. cur \in Ids /\ gor = "exited" /\ held = 0 /\ 0 \in 0..Buffers
    BY <1>1, <1>2, <1>4, ReadAheadAssumption DEF TypeOK, StageInv, Ids
  <2>3. /\ reuse' \in Seq(Ids)
        /\ \A i, j \in 1..Len(reuse') : reuse'[i] = reuse'[j] => i = j
    <3> DEFINE one == <<cur>>
               t == reuse \o one
    <3>1. one \in Seq(Ids) /\ Len(one) = 1 /\ \A i \in 1..Len(one) : one[i] = cur /\ i = 1
      BY <2>2
    <3>2. reuse \in Seq(Ids) /\ ready \in Seq(Ids)
      BY <1>1 DEF TypeOK
    <3> HIDE DEF one
    <3>3. /\ t \in Seq(Ids)
          /\ \A i, j \in 1..Len(t) : t[i] = t[j] => i = j
          /\ \A i \in 1..Len(t) : t[i] = cur \/ \E j \in 1..Len(reuse) : t[i] = reuse[j]
      <4>1. /\ \A i, j \in 1..Len(reuse) : reuse[i] = reuse[j] => i = j
            /\ \A i, j \in 1..Len(one) : one[i] = one[j] => i = j
            /\ \A i \in 1..Len(reuse), j \in 1..Len(one) : reuse[i] # one[j]
        BY <1>1, <3>1 DEF PlacesInv
      <4>2. /\ t \in Seq(Ids)
            /\ \A i, j \in 1..Len(t) : t[i] = t[j] => i = j
            /\ \A i \in 1..Len(t) : \/ \E j \in 1..Len(reuse) : t[i] = reuse[j]
                                   \/ \E j \in 1..Len(one) : t[i] = one[j]
        <5>1. reuse \in Seq(Ids) /\ one \in Seq(Ids)
          BY <3>1, <3>2
        <5> QED
          BY ONLY <4>1, <5>1, QueuesJoined, Zenon
      <4> HIDE DEF t
      <4> QED
        BY <3>1, <4>2
    <3>4. reuse' = t \o ready
      BY <2>1 DEF one
    <3> HIDE DEF t
    <3>5. /\ \A i, j \in 1..Len(ready) : ready[i] = ready[j] => i = j
          /\ \A i \in 1..Len(t), j \in 1..Len(ready) : t[i] # ready[j]
      BY <1>1, <3>3 DEF PlacesInv
    <3> DEFINE u == t \o ready
    <3>6. /\ u \in Seq(Ids)
          /\ \A i, j \in 1..Len(u) : u[i] = u[j] => i = j
      <4>1. /\ t \in Seq(Ids) /\ ready \in Seq(Ids)
            /\ \A i, j \in 1..Len(t) : t[i] = t[j] => i = j
        BY <3>2, <3>3
      <4> QED
        BY ONLY <4>1, <3>5, QueuesJoined, Zenon
    <3> HIDE DEF u
    <3>7. reuse' = u
      BY <3>4 DEF u
    <3> QED
      BY <3>6, <3>7
  <2>4. \A i \in 1..Len(reuse') : reuse'[i] # 0
    BY <2>2, <2>3, QueueOfIds
  <2>5. ready' \in Seq(Ids) /\ Len(ready') = 0
    BY <2>1, EmptySeq
  <2>6. TypeOK'
    BY <1>1, <1>2, <1>3, <2>1, <2>2, <2>3, <2>5 DEF TypeOK
  <2>7. StageInv'
    BY <1>1, <1>2, <2>1 DEF StageInv
  <2>8. PlacesInv'
    BY <1>2, <2>1, <2>2, <2>3, <2>4, <2>5 DEF PlacesInv
  <2>9. SeamInv'
    BY <2>1, <2>5 DEF SeamInv
  <2>10. LastInv'
    BY <1>1, <1>2, <2>1, <2>5 DEF LastInv
  <2> QED
    BY <1>1, <1>2, <2>6, <2>7, <2>8, <2>9, <2>10 DEF AheadInv, Transparent
<1>5. CASE ~(call.op = "SeekCurrent" /\ cur # 0)
  <2>1. reuse' = reuse /\ ready' = ready /\ cur' = cur /\ err' = err
    BY <1>5 DEF SeekFails
  <2>2. PlacesInv' /\ SeamInv' /\ LastInv' /\ Transparent'
    BY <1>2, <2>1, StepUntouched DEF queues
  <2>3. TypeOK' /\ StageInv'
    BY <1>1, <1>2, <1>3, <2>1 DEF TypeOK, StageInv
  <2> QED
    BY <2>2, <2>3 DEF AheadInv
<1> QED
  BY <1>4, <1>5

-----------------------------------------------------------------------------
(* The theorems.                                                           *)

LEMMA StepAhead == AheadInv /\ [Next]_vars => AheadInv'
<1> SUFFICES ASSUME AheadInv, [Next]_vars PROVE AheadInv'
  OBVIOUS
<1>1. CASE UNCHANGED vars
  <2>1. UNCHANGED <<size, pos, shut, closer, queues, gor, held, atEOF, cur, err, pc, call, at, seen>>
    BY <1>1 DEF vars, input, goroutine, user, history
  <2>2. PlacesInv' /\ SeamInv' /\ LastInv' /\ Transparent'
    BY <2>1, StepUntouched
  <2>3. TypeOK' /\ StageInv'
    BY <2>1 DEF AheadInv, TypeOK, StageInv, queues
  <2> QED
    BY <2>2, <2>3 DEF AheadInv
<1>2. CASE Goroutine
  BY <1>2, StepTake, StepDeliver DEF Goroutine
<1>3. CASE InCall
  BY <1>3, StepFillServed, StepFillReady, StepStages, StepServeRead, StepServeWrite,
    StepSeekDone, StepSeekFails DEF InCall
<1>4. CASE Calls
  BY <1>4, StepCalls
<1> QED
  BY <1>1, <1>2, <1>3, <1>4 DEF Next

\* The invariant the three properties rest on.
THEOREM AheadKeeps == Spec => []AheadInv
<1> QED
  BY InitAhead, StepAhead, PTL DEF Spec

\* However far the goroutine is ahead, the user reads the input (readahead/reader.go
\* fill, Read, WriteTo, Seek).
THEOREM AheadTransparent == Spec => []Transparent
<1>1. AheadInv => Transparent
  BY DEF AheadInv
<1> QED
  BY <1>1, AheadKeeps, PTL

\* The end or an error is reported behind the data (readahead/reader.go, a.err).
THEOREM AheadErrorLast == Spec => []ErrorComesLast
<1>1. AheadInv => ErrorComesLast
  BY DEF AheadInv, LastInv, ErrorComesLast
<1> QED
  BY <1>1, AheadKeeps, PTL

LEMMA PlacesOfInv == AheadInv => BuffersInOnePlace
<1> SUFFICES ASSUME AheadInv PROVE BuffersInOnePlace
  OBVIOUS
<1> DEFINE q == reuse \o ready
<1>1. TypeOK /\ PlacesInv
  BY DEF AheadInv
<1>2. reuse \in Seq(Ids) /\ ready \in Seq(Ids)
  BY <1>1 DEF TypeOK
<1>3. /\ \A i, j \in 1..Len(reuse) : reuse[i] = reuse[j] => i = j
      /\ \A i, j \in 1..Len(ready) : ready[i] = ready[j] => i = j
      /\ \A i \in 1..Len(reuse), j \in 1..Len(ready) : reuse[i] # ready[j]
  BY <1>1 DEF PlacesInv
<1>4. /\ DOMAIN q = 1..Len(q)
      /\ \A i, j \in 1..Len(q) : q[i] = q[j] => i = j
      /\ \A i \in 1..Len(q) : \/ \E j \in 1..Len(reuse) : q[i] = reuse[j]
                              \/ \E j \in 1..Len(ready) : q[i] = ready[j]
  BY <1>2, <1>3, QueuesJoined
<1> HIDE DEF q
<1>5. \A i \in 1..Len(q) : q[i] # held /\ q[i] # cur
  BY <1>1, <1>4 DEF PlacesInv
<1>6. held # 0 => held # cur
  BY <1>1 DEF PlacesInv
<1> QED
  BY <1>4, <1>5, <1>6 DEF BuffersInOnePlace, IsInjective, Range, q

\* A buffer is never with the goroutine and the user, nor twice in the channels
\* (readahead/reader.go ready, reuse, cur).
THEOREM AheadOnePlace == Spec => []BuffersInOnePlace
  BY PlacesOfInv, AheadKeeps, PTL
=============================================================================
