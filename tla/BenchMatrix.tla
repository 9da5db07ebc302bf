------------------------------ MODULE BenchMatrix ------------------------------
(***************************************************************************)
(* bench/bench_matrix.py: a matrix of cells (concurrency by category), each*)
(* a batch of streams that start together on a barrier; then prefill       *)
(* points.  The result file is rewritten after every cell, a failed output *)
(* check stops the matrix, a failed request ends it.  Verifies is          *)
(* tools/verify_final_data.py: what the published file is held to.         *)
(*                                                                         *)
(* An answer is whether its text passes the check of its category, and     *)
(* what can be timed: no token arrived ("none"), all of them at once       *)
(* ("burst"), or a decoding rate ("rate").  Numbers are left out.          *)
(***************************************************************************)
EXTENDS Integers, Sequences

CONSTANTS
  Levels,       \* --levels, a sequence of concurrencies
  Cats,         \* the categories, a sequence
  Ceiling,      \* the counting category, left out of the headline
  Checked,      \* categories whose output is checked
  Targets,      \* --prefill, how many
  WarmPrefill,  \* --warm-prefill
  MaxRuns,      \* bound: runs with one label and output directory
  NoFile, Partial   \* no result file, one cut off while it was being written

ASSUME MatrixAssumption ==
  /\ Levels \in Seq(Nat \ {0}) /\ Targets \in Nat /\ MaxRuns \in Nat
  /\ Cats \in Seq({Cats[k] : k \in DOMAIN Cats}) \ {<<>>}
  /\ WarmPrefill \in BOOLEAN

VARIABLES
  run,      \* runs begun
  pc,       \* where main() is, or how it ended
  job,      \* the batch or prefill point under way
  stream,   \* stream[i]: state of the i-th request of the job
  got,      \* got[i]: its answer
  res,      \* the results in memory
  file,     \* the result file
  raw       \* receipts, of answers and of errors: [run, job, stream]

vars == <<run, pc, job, stream, got, res, file, raw>>

(***************************************************************************)
(* What is run, in order                                                   *)
(***************************************************************************)
AllCats == Append(Cats, Ceiling)
Warmups == IF Len(Cats) < 3 THEN Len(Cats) ELSE 3
Cells == Len(Levels) * Len(AllCats)
PerTarget == IF WarmPrefill THEN 2 ELSE 1
LastJob == Warmups + Cells + Targets * PerTarget

Kind(j) ==
  IF j <= Warmups THEN "warm"
  ELSE IF j <= Warmups + Cells THEN "cell"
  ELSE IF WarmPrefill /\ (j - Warmups - Cells) % 2 = 1 THEN "shape" ELSE "prefill"
Level(j) ==
  IF Kind(j) = "cell" THEN Levels[((j - Warmups - 1) \div Len(AllCats)) + 1] ELSE 1
Cat(j) ==
  CASE Kind(j) = "warm" -> Cats[j]
    [] Kind(j) = "cell" -> AllCats[((j - Warmups - 1) % Len(AllCats)) + 1]
    [] OTHER -> "prefill"
Streams(j) == 1 .. Level(j)

Empty(n) == [run |-> n, status |-> "running", cells |-> <<>>, prefill |-> <<>>, shapes |-> <<>>]
Ended == {"idle", "failed", "stopped", "completed", "killed"}
Timings == {"none", "burst", "rate"}
NoAnswer == [check |-> "none", timing |-> "none"]

\* What a result file may hold that is there and has been written whole.
AnswerRecords == [check : {"none", "true", "false"}, timing : Timings]
Results ==
  [run : Nat, status : {"running", "stopped", "completed"}, cells : Seq(Seq(AnswerRecords)),
   prefill : Seq(Nat), shapes : Seq(Nat)]
ASSUME FileAssumption == NoFile \notin Results /\ Partial \notin Results

Init ==
  /\ run = 0 /\ pc = "idle" /\ job = 1
  /\ stream = [i \in {} |-> "queued"] /\ got = [i \in {} |-> NoAnswer]
  /\ res = Empty(0) /\ file = NoFile /\ raw = {}

(***************************************************************************)
(* main()                                                                  *)
(***************************************************************************)
Forget == stream' = [i \in {} |-> "queued"] /\ got' = [i \in {} |-> NoAnswer]

\* A new run takes over the file and the directory of receipts of the last.
Begin ==
  /\ pc \in Ended /\ run < MaxRuns
  /\ run' = run + 1 /\ pc' = "save" /\ job' = 0 /\ res' = Empty(run')
  /\ Forget
  /\ UNCHANGED <<file, raw>>

\* checkpoint(), and the last json.dump: the file is truncated, then written.
Truncate ==
  /\ pc = "save"
  /\ file' = Partial /\ pc' = "write"
  /\ UNCHANGED <<run, job, stream, got, res, raw>>

\* Output checks are looked at when the cell has been saved.
MutSpoiled(r) == FALSE                 \* mutant: nobody looks
Spoiled(r) ==
  /\ r.cells # <<>>
  /\ LET last == r.cells[Len(r.cells)] IN \E i \in DOMAIN last : last[i].check = "false"

Write ==
  /\ pc = "write"
  /\ file' = res
  /\ pc' = CASE res.status # "running" -> res.status
             [] res.status = "running" /\ Kind(job) = "cell" /\ Spoiled(res) -> "judge"
             [] OTHER -> "next"
  /\ UNCHANGED <<run, job, stream, got, res, raw>>

Stop ==
  /\ pc = "judge"
  /\ res' = [res EXCEPT !.status = "stopped"] /\ pc' = "save"
  /\ UNCHANGED <<run, job, stream, got, file, raw>>

\* The pool's c threads wait for each other; a prefill point needs no pool.
StartJob ==
  /\ pc = "next" /\ job < LastJob
  /\ job' = job + 1 /\ pc' = "batch"
  /\ stream' = [i \in Streams(job') |->
                  IF Kind(job') \in {"shape", "prefill"} THEN "sent" ELSE "queued"]
  /\ got' = [i \in Streams(job') |-> NoAnswer]
  /\ UNCHANGED <<run, res, file, raw>>

\* The headline is the mean over a level's categories, without the ceiling, of
\* what could be timed; a mean of nothing raises.
HeadlineCells(c) ==
  {k \in DOMAIN res.cells : Level(Warmups + k) = c /\ Cat(Warmups + k) # Ceiling}
Timed(k, kinds) == \E i \in DOMAIN res.cells[k] : res.cells[k][i].timing \in kinds
HeadlineExists ==
  \A l \in DOMAIN Levels :
    /\ \E k \in HeadlineCells(Levels[l]) : Timed(k, {"rate"})
    /\ \E k \in HeadlineCells(Levels[l]) : Timed(k, {"rate", "burst"})

Finish ==
  /\ pc = "next" /\ job = LastJob
  /\ res' = [res EXCEPT !.status = "completed"]
  /\ pc' = IF HeadlineExists THEN "save" ELSE "failed"
  /\ UNCHANGED <<run, job, stream, got, file, raw>>

(***************************************************************************)
(* run_batch() and stream_chat()                                           *)
(***************************************************************************)
Arrive(i) ==
  /\ pc = "batch" /\ stream[i] = "queued"
  /\ stream' = [stream EXCEPT ![i] = "waiting"]
  /\ UNCHANGED <<run, pc, job, got, res, file, raw>>

Waiting == {i \in DOMAIN stream : stream[i] = "waiting"}
MutBarrierNever == Waiting = 1 .. Level(job) + 1   \* mutant: one party too many
BarrierFull == Waiting = Streams(job)

Release ==
  /\ pc = "batch" /\ Waiting # {} /\ BarrierFull
  /\ stream' = [i \in DOMAIN stream |-> IF i \in Waiting THEN "sent" ELSE stream[i]]
  /\ UNCHANGED <<run, pc, job, got, res, file, raw>>

Receipt(i) == raw' = raw \cup {[run |-> run, job |-> job, stream |-> i]}
CheckResults(cat) == IF cat \in Checked THEN {"true", "false"} ELSE {"none"}

Answer(i) ==
  /\ pc = "batch" /\ stream[i] = "sent"
  /\ \E check \in CheckResults(Cat(job)), timing \in Timings :
       got' = [got EXCEPT ![i] = [check |-> check, timing |-> timing]]
  /\ stream' = [stream EXCEPT ![i] = "answered"]
  /\ Receipt(i)
  /\ UNCHANGED <<run, pc, job, res, file>>

\* No answer in time, an aborted generation, no token usage.
Error(i) ==
  /\ pc = "batch" /\ stream[i] = "sent"
  /\ stream' = [stream EXCEPT ![i] = "error"]
  /\ Receipt(i)
  /\ UNCHANGED <<run, pc, job, got, res, file>>

MutJoined == \A i \in DOMAIN stream : stream[i] \in {"answered", "error"}
                \/ \E k \in DOMAIN stream : stream[k] = "error"   \* mutant: the pool is left
Joined == \A i \in DOMAIN stream : stream[i] \in {"answered", "error"}

\* What is added to the results, and whether the file is written then.
MutKeep(kind) ==                       \* mutant: warm-up batches are kept as cells
  CASE kind \in {"warm", "cell"} -> [res EXCEPT !.cells = Append(@, got)]
    [] kind = "shape" -> [res EXCEPT !.shapes = Append(@, job)]
    [] kind = "prefill" -> [res EXCEPT !.prefill = Append(@, job)]
Keep(kind) ==
  CASE kind = "warm" -> res
    [] kind = "cell" -> [res EXCEPT !.cells = Append(@, got)]
    [] kind = "shape" -> [res EXCEPT !.shapes = Append(@, job)]
    [] kind = "prefill" -> [res EXCEPT !.prefill = Append(@, job)]
MutSaved(kind) == kind \in {"shape", "prefill"}   \* mutant: cells are written at the end
Saved(kind) == kind # "warm"

\* The pool waits for every stream; then one that failed ends main().  So does a
\* prefill point of which no token arrived.
Collect ==
  /\ pc = "batch" /\ Joined
  /\ IF \/ \E i \in DOMAIN stream : stream[i] = "error"
        \/ Kind(job) = "prefill" /\ got[1].timing = "none"
       THEN pc' = "failed" /\ UNCHANGED res
       ELSE pc' = (IF Saved(Kind(job)) THEN "save" ELSE "next") /\ res' = Keep(Kind(job))
  /\ UNCHANGED <<run, job, stream, got, file, raw>>

\* The operator interrupts the run.
Kill ==
  /\ pc \notin Ended
  /\ pc' = "killed" /\ Forget
  /\ UNCHANGED <<run, job, res, file, raw>>

Step ==
  \/ Truncate \/ Write \/ Stop \/ StartJob \/ Finish \/ Release \/ Collect
  \/ \E i \in DOMAIN stream : Arrive(i) \/ Answer(i) \/ Error(i)

Next == Begin \/ Step \/ Kill

\* Threads are scheduled, and a request ends: max_tokens bounds the answer, a
\* timeout the wait for each part of it.
Spec == Init /\ [][Next]_vars /\ WF_vars(Step)

(***************************************************************************)
(* tools/verify_final_data.py                                              *)
(***************************************************************************)
HasReceipt(f, j, i) == [run |-> f.run, job |-> j, stream |-> i] \in raw

Verifies(f) ==
  /\ f.status = "completed"
  /\ Len(f.cells) = Cells
  /\ \A k \in 1 .. Cells :
       /\ DOMAIN f.cells[k] = Streams(Warmups + k)
       /\ \A i \in DOMAIN f.cells[k] :
            /\ f.cells[k][i].check = "true" /\ f.cells[k][i].timing = "rate"
            /\ HasReceipt(f, Warmups + k, i)
  /\ Len(f.prefill) = Targets
  /\ \A p \in DOMAIN f.prefill : HasReceipt(f, f.prefill[p], 1)
  /\ \A p \in DOMAIN f.shapes : HasReceipt(f, f.shapes[p], 1)

(***************************************************************************)
(* Properties                                                              *)
(***************************************************************************)
CellsBefore(j) == IF j <= Warmups THEN 0 ELSE IF j > Warmups + Cells THEN Cells ELSE j - Warmups - 1

\* Results in memory belong to the jobs that came before, in order: the k-th cell has
\* as many answers as its level (bench_matrix.py:176-195).
ResultsTyped ==
  /\ run \in 0 .. MaxRuns /\ job \in 0 .. LastJob
  /\ pc \in Ended \cup {"save", "write", "judge", "next", "batch"}
  /\ \A i \in DOMAIN stream : stream[i] \in {"queued", "waiting", "sent", "answered", "error"}
  /\ pc = "batch" => DOMAIN stream = Streams(job) /\ Len(res.cells) = CellsBefore(job)
  /\ \A k \in DOMAIN res.cells : DOMAIN res.cells[k] = Streams(Warmups + k)

\* A file that calls itself complete passes the verification of published data, if
\* every answer could be timed: every cell is there, every check passed and every
\* receipt exists, whatever failed, was stopped, interrupted or run again under the
\* same label before (bench_matrix.py:181-183, 197; verify_final_data.py:13-50).
Timeable(f) == \A k \in DOMAIN f.cells : \A i \in DOMAIN f.cells[k] : f.cells[k][i].timing = "rate"
CompletedVerifies ==
  file \notin {NoFile, Partial} /\ {AllCats[k] : k \in DOMAIN AllCats} \subseteq Checked =>
    (file.status = "completed" /\ Timeable(file) => Verifies(file))

\* "a failed cell loses no earlier data" (bench_matrix.py:20): while a job runs, and
\* when a run was ended by a failure, an output check or its completion, the file has
\* every cell and point that was finished before.
NothingLost ==
  pc \in {"batch", "judge", "failed", "stopped", "completed"} =>
    /\ file \notin {NoFile, Partial}
    /\ file.cells = res.cells /\ file.prefill = res.prefill /\ file.shapes = res.shapes
    /\ Len(file.cells) >= CellsBefore(job)

\* The streams of a cell are sent together, when all have arrived, and none of them
\* is still running when anything else is: cells do not disturb each other's timing
\* (bench_matrix.py:112-119).
CellIsolated ==
  /\ pc # "batch" => \A i \in DOMAIN stream : stream[i] # "sent"
  /\ (\E i \in DOMAIN stream : stream[i] \notin {"queued", "waiting"}) =>
       \A i \in DOMAIN stream : stream[i] \notin {"queued", "waiting"}

\* Every run ends: no stream waits at the barrier for one that never comes, and main()
\* never waits for the pool for ever (bench_matrix.py:112-119).
RunEnds == pc \notin Ended ~> pc \in Ended
=============================================================================
