-------------------------- MODULE EngramPipelineProofs --------------------------
(***************************************************************************)
(* Proofs about the staging buffers, the Works and the queue of            *)
(* engram_backend.py, for any lists of ids, any number of forwards and any *)
(* mixture of eager forwards, failed launches, captures and replays.       *)
(***************************************************************************)
EXTENDS EngramPipeline, SequenceTheorems, TLAPS

(***************************************************************************)
(* The invariant                                                           *)
(***************************************************************************)
Kinds == {"ids", "lookup", "rows", "gather", "fill", "take"}
Operations == [do : Kinds, buf : Nat, count : Counts, fwd : Nat]
States == {"pending", "done", "raised"}
Buffer(c) == [ids : [1 .. c -> Int], host : [1 .. c -> Int], dev : [1 .. c -> Int],
              arange : {TRUE}]
AnyBuffer == UNION {Buffer(c) : c \in Nat}
Arrays == UNION {[1 .. c -> Int] : c \in Nat}

\* The tables: every capacity has a buffer of that size, every Work is the one of its
\* count, and every graph is the four operations on its count's buffer.
OpOf(kind, n) == [do |-> kind, buf |-> staging[Capacity(n)], count |-> n, fwd |-> 0]
Recorded(n) == <<OpOf("ids", n), OpOf("lookup", n), OpOf("rows", n), OpOf("gather", n)>>
Buffers ==
  /\ alive \in BOOLEAN /\ bufs \in Seq(AnyBuffer)
  /\ \A c \in DOMAIN staging :
       c \in Nat /\ staging[c] \in 1 .. Len(bufs) /\ bufs[staging[c]] \in Buffer(c)
Worked ==
  \A n \in DOMAIN works :
    /\ n \in Counts /\ Capacity(n) \in DOMAIN staging
    /\ works[n] = [buf |-> staging[Capacity(n)], count |-> n]
Graphs ==
  /\ graph \in [Counts -> Seq(Operations)]
  /\ \A n \in Counts : graph[n] # <<>> => n \in DOMAIN works /\ graph[n] = Recorded(n)
  /\ static \in [Counts -> [in : Arrays, out : Arrays]]
Forwards ==
  /\ asked \in Seq(Lists) /\ answer \in Seq([state : States, rows : Arrays])
  /\ Len(answer) = Len(asked)
Tables == Buffers /\ Worked /\ Graphs /\ Forwards

\* An operation in the queue is about a forward of its count, and on its buffer.
OpOK(o) ==
  /\ o \in [do : Kinds, buf : Nat, count : Counts, fwd : 0 .. Len(asked)]
  /\ o.fwd # 0 => Len(asked[o.fwd]) = o.count
  /\ o.do \in {"fill", "take"} => o.fwd # 0
  /\ o.do \notin {"fill", "take"} => o.count \in DOMAIN works /\ o.buf = staging[Capacity(o.count)]

\* What may stand before what: only the copy of the ids may be left without the rest.
Linked(o, p) ==
  /\ p.do = "lookup" => o.do = "ids" /\ o.count = p.count /\ o.fwd = p.fwd
  /\ p.do = "rows" => o.do = "lookup" /\ o.count = p.count /\ o.fwd = p.fwd
  /\ p.do = "gather" => o.do = "rows" /\ o.count = p.count /\ o.fwd = p.fwd
  /\ p.do = "take" => o.do = "gather" /\ o.count = p.count /\ o.fwd = 0
  /\ p.do = "ids" /\ p.fwd = 0 => o.do = "fill" /\ o.count = p.count

\* The operations of a graph stand between the fill and the take of one forward: how
\* far ahead of the take an operation is that does not name its forward itself.
Gap(o) ==
  CASE o.do = "fill" -> 5
    [] o.do = "ids" /\ o.fwd = 0 -> 4
    [] o.do = "lookup" /\ o.fwd = 0 -> 3
    [] o.do = "rows" /\ o.fwd = 0 -> 2
    [] o.do = "gather" /\ o.fwd = 0 -> 1
    [] OTHER -> 0
TakeAt(q, i, d) ==
  i + d \in 1 .. Len(q) /\ q[i + d].do = "take" /\ q[i + d].count = q[i].count
Enclosed(q, i) ==
  Gap(q[i]) # 0 =>
    TakeAt(q, i, Gap(q[i])) /\ (q[i].do = "fill" => q[i + Gap(q[i])].fwd = q[i].fwd)
Chained ==
  /\ queue \in Seq(Operations)
  /\ \A i \in 1 .. Len(queue) : OpOK(queue[i]) /\ Enclosed(queue, i)
  /\ \A i \in 1 .. Len(queue) - 1 : Linked(queue[i], queue[i + 1])

\* The forward the operation at the head works for.
Served == IF queue[1].fwd # 0 THEN queue[1].fwd ELSE queue[1 + Gap(queue[1])].fwd

\* What the operation before it left for an operation o that works for x.
Ready(o, x) ==
  /\ o.do = "ids" /\ o.fwd = 0 => static[o.count].in = x
  /\ o.do = "lookup" => \A i \in 1 .. o.count : bufs[o.buf].ids[i] = x[i]
  /\ o.do = "rows" => \A i \in 1 .. o.count : bufs[o.buf].host[i] = Row(x[i])
  /\ o.do = "gather" => \A i \in 1 .. o.count : bufs[o.buf].dev[i] = Row(x[i])
  /\ o.do = "take" => static[o.count].out = Rows(x)
HeadReady == alive /\ queue # <<>> => Ready(queue[1], asked[Served])

PipelineInv == Tables /\ Chained /\ HeadReady /\ OutputsExact

(***************************************************************************)
(* The operators                                                           *)
(***************************************************************************)
\* 1 << (n - 1).bit_length() is at least n.
LEMMA CapacityFits ==
  ASSUME NEW n \in Counts
  PROVE  n \in Nat \ {0} /\ Capacity(n) \in Nat /\ n <= Capacity(n)
<1>1. n \in Nat \ {0}
  BY PipelineAssumption DEF Counts
<1>2. \E b \in 0 .. n - 1 : n - 1 < 2 ^ b /\ (b = 0 \/ 2 ^ (b - 1) <= n - 1)
  BY PowersAssumption
<1>3. BitLength(n - 1) \in 0 .. n - 1 /\ n - 1 < 2 ^ BitLength(n - 1)
  BY <1>2 DEF BitLength
<1>4. 2 ^ BitLength(n - 1) \in Nat
  BY <1>3, PowersAssumption
<1> QED BY <1>1, <1>3, <1>4 DEF Capacity

\* A kernel on the first n entries leaves the array's size and writes those.
LEMMA PrefixWrites ==
  ASSUME NEW c \in Nat, NEW n \in Nat, n <= c, NEW old \in [1 .. c -> Int], NEW new,
         \A i \in 1 .. n : i \in DOMAIN new /\ new[i] \in Int
  PROVE  /\ Prefix(old, new, n) \in [1 .. c -> Int]
         /\ \A i \in 1 .. n : Prefix(old, new, n)[i] = new[i]
BY DEF Prefix

LEMMA FilledIs ==
  ASSUME NEW n \in Nat, NEW v \in Int
  PROVE  Filled(n, v) \in [1 .. n -> Int]
BY DEF Filled

LEMMA ListIs ==
  ASSUME NEW x \in Lists
  PROVE  /\ Len(x) \in Nat /\ x \in [1 .. Len(x) -> Int] /\ DOMAIN x = 1 .. Len(x)
         /\ x # <<>> => Len(x) \in Counts
<1>1. x \in Seq(0 .. NumRows - 1) /\ NumRows \in Nat
  BY PipelineAssumption
<1>2. Len(x) \in Nat /\ x \in [1 .. Len(x) -> 0 .. NumRows - 1] /\ DOMAIN x = 1 .. Len(x)
  BY <1>1
<1>3. x # <<>> => Len(x) # 0
  BY <1>1
<1> QED BY <1>1, <1>2, <1>3 DEF Counts

LEMMA RowsAre ==
  ASSUME NEW x \in Lists
  PROVE  Rows(x) \in Arrays
BY ListIs, PipelineAssumption DEF Rows, Row, Arrays

(***************************************************************************)
(* The tables                                                              *)
(***************************************************************************)
\* What only grows when the host prepares a forward or a capture.
Grows ==
  /\ \A c \in DOMAIN staging :
       c \in DOMAIN staging' /\ staging'[c] = staging[c] /\ bufs'[staging[c]] = bufs[staging[c]]
  /\ DOMAIN works \subseteq DOMAIN works'
  /\ \A f \in 1 .. Len(asked) : f \in 1 .. Len(asked') /\ asked'[f] = asked[f]

LEMMA NewBufferIs ==
  ASSUME NEW c \in Nat
  PROVE  NewBuffer(c, FALSE) \in Buffer(c)
<1>1. Filled(c, Garbage) \in [1 .. c -> Int]
  BY FilledIs DEF Garbage
<1> QED BY <1>1 DEF NewBuffer, Buffer

LEMMA PrepareGrows ==
  ASSUME Tables, NEW n \in Counts, NEW capturing \in BOOLEAN, Prepare(n, capturing), UNCHANGED alive
  PROVE  /\ Buffers' /\ Worked' /\ n \in DOMAIN works' /\ Capacity(n) \in DOMAIN staging'
         /\ \A c \in DOMAIN staging :
              c \in DOMAIN staging' /\ staging'[c] = staging[c]
                /\ bufs'[staging[c]] = bufs[staging[c]]
         /\ DOMAIN works \subseteq DOMAIN works'
<1>1. Capacity(n) \in Nat
  BY CapacityFits
<1>2. /\ Buffers' /\ Capacity(n) \in DOMAIN staging'
      /\ \A c \in DOMAIN staging :
           c \in DOMAIN staging' /\ staging'[c] = staging[c] /\ bufs'[staging[c]] = bufs[staging[c]]
  <2>1. CASE Staged(n)
    BY <2>1 DEF Prepare, Staged, Tables, Buffers
  <2>2. CASE ~Staged(n)
    <3>1. capturing = FALSE
      BY <2>2 DEF Prepare, MayAllocate
    <3> DEFINE b == NewBuffer(Capacity(n), FALSE)
    <3>2. b \in Buffer(Capacity(n)) /\ b \in AnyBuffer
      BY <1>1, NewBufferIs DEF AnyBuffer
    <3>3. bufs \in Seq(AnyBuffer) /\ Len(bufs) \in Nat
      BY DEF Tables, Buffers
    <3>4. bufs' = Append(bufs, b)
      BY <2>2, <3>1 DEF Prepare
    <3> HIDE DEF b
    <3>5. /\ bufs' \in Seq(AnyBuffer) /\ Len(bufs') = Len(bufs) + 1 /\ bufs'[Len(bufs')] = b
          /\ \A k \in 1 .. Len(bufs) : bufs'[k] = bufs[k]
      BY <3>2, <3>3, <3>4
    <3>6. staging' = [c \in DOMAIN staging \cup {Capacity(n)} |->
                        IF c \in DOMAIN staging THEN staging[c] ELSE Len(bufs')]
      BY <2>2 DEF Prepare
    <3>7. /\ DOMAIN staging' = DOMAIN staging \cup {Capacity(n)}
          /\ \A c \in DOMAIN staging : staging'[c] = staging[c]
          /\ staging'[Capacity(n)] = Len(bufs')
      BY <2>2, <3>6 DEF Staged
    <3>8. \A c \in DOMAIN staging' :
            c \in Nat /\ staging'[c] \in 1 .. Len(bufs') /\ bufs'[staging'[c]] \in Buffer(c)
      <4>1. \A c \in DOMAIN staging :
              c \in Nat /\ staging[c] \in 1 .. Len(bufs) /\ bufs[staging[c]] \in Buffer(c)
        BY DEF Tables, Buffers
      <4> QED BY <1>1, <3>2, <3>3, <3>5, <3>7, <4>1
    <3> QED BY <3>3, <3>5, <3>7, <3>8 DEF Tables, Buffers
  <2> QED BY <2>1, <2>2
<1>3. works' = [k \in DOMAIN works \cup {n} |->
                  IF k \in DOMAIN works THEN works[k]
                  ELSE [buf |-> staging'[Capacity(n)], count |-> n]]
  BY DEF Prepare, WorkKey
<1>4. Worked'
  BY <1>2, <1>3 DEF Tables, Worked
<1> QED BY <1>2, <1>3, <1>4

\* One buffer written, with arrays of the same size.
LEMMA BufferWritten ==
  ASSUME Buffers, UNCHANGED <<alive, staging>>, NEW c \in DOMAIN staging, NEW r,
         \A d \in Nat : bufs[staging[c]] \in Buffer(d) => r \in Buffer(d),
         bufs' = [bufs EXCEPT ![staging[c]] = r]
  PROVE  Buffers' /\ bufs'[staging[c]] = r
<1>1. bufs \in Seq(AnyBuffer) /\ staging[c] \in 1 .. Len(bufs) /\ Len(bufs) \in Nat
      /\ bufs[staging[c]] \in Buffer(c) /\ c \in Nat
  BY DEF Buffers
<1>2. r \in AnyBuffer
  BY <1>1 DEF AnyBuffer
<1>3. /\ bufs' \in Seq(AnyBuffer) /\ Len(bufs') = Len(bufs)
      /\ \A k \in 1 .. Len(bufs) : bufs'[k] = IF k = staging[c] THEN r ELSE bufs[k]
  BY <1>1, <1>2, ExceptSeq
<1>4. \A d \in DOMAIN staging : bufs'[staging[d]] \in Buffer(d)
  BY <1>1, <1>3 DEF Buffers
<1> QED BY <1>1, <1>3, <1>4 DEF Buffers

\* A forward more.
LEMMA AskAppends ==
  ASSUME Forwards, OutputsExact, NEW x \in Lists, NEW state \in States, NEW rows \in Arrays,
         state = "done" => rows = Rows(x), Ask(x, state, rows)
  PROVE  /\ Forwards' /\ OutputsExact' /\ Len(asked') = Len(asked) + 1 /\ asked'[Len(asked')] = x
         /\ \A f \in 1 .. Len(asked) : f \in 1 .. Len(asked') /\ asked'[f] = asked[f]
<1> DEFINE r == [state |-> state, rows |-> rows]
<1>1. /\ asked' = Append(asked, x) /\ answer' = Append(answer, r)
      /\ r \in [state : States, rows : Arrays]
  BY DEF Ask
<1>2. r.state = state /\ r.rows = rows
  OBVIOUS
<1> HIDE DEF r
<1>3. asked \in Seq(Lists) /\ answer \in Seq([state : States, rows : Arrays])
      /\ Len(answer) = Len(asked) /\ Len(asked) \in Nat
  BY DEF Forwards
<1>4. /\ asked' \in Seq(Lists) /\ Len(asked') = Len(asked) + 1 /\ asked'[Len(asked')] = x
      /\ \A f \in 1 .. Len(asked) : asked'[f] = asked[f]
  BY <1>1, <1>3
<1>5. /\ answer' \in Seq([state : States, rows : Arrays]) /\ Len(answer') = Len(asked')
      /\ answer'[Len(asked')] = r /\ DOMAIN answer' = 1 .. Len(asked')
      /\ \A f \in 1 .. Len(asked) : answer'[f] = answer[f]
  BY <1>1, <1>3, <1>4
<1>6. OutputsExact'
  <2> SUFFICES ASSUME NEW f \in 1 .. Len(asked'), answer'[f].state = "done"
               PROVE  answer'[f].rows = Rows(asked'[f])
    BY <1>5 DEF OutputsExact
  <2>1. CASE f = Len(asked')
    BY <1>2, <1>4, <1>5, <2>1
  <2>2. CASE f # Len(asked')
    <3>1. f \in 1 .. Len(asked) /\ f \in DOMAIN answer
      BY <1>3, <1>4, <2>2
    <3> QED BY <1>4, <1>5, <3>1 DEF OutputsExact
  <2> QED BY <2>1, <2>2
<1> QED BY <1>3, <1>4, <1>5, <1>6 DEF Forwards

\* An answer.
LEMMA AnswerWritten ==
  ASSUME Forwards, OutputsExact, UNCHANGED asked, NEW f \in 1 .. Len(asked), NEW rows,
         rows = Rows(asked[f]), answer' = [answer EXCEPT ![f] = [state |-> "done", rows |-> rows]]
  PROVE  Forwards' /\ OutputsExact'
<1>1. rows \in Arrays
  BY RowsAre DEF Forwards
<1>2. [state |-> "done", rows |-> rows] \in [state : States, rows : Arrays]
  BY <1>1 DEF States
<1>3. answer \in Seq([state : States, rows : Arrays]) /\ Len(answer) = Len(asked)
  BY DEF Forwards
<1>4. /\ answer' \in Seq([state : States, rows : Arrays]) /\ Len(answer') = Len(answer)
      /\ \A g \in 1 .. Len(answer) :
           answer'[g] = IF g = f THEN [state |-> "done", rows |-> rows] ELSE answer[g]
  BY <1>2, <1>3, ExceptSeq
<1>5. Forwards'
  BY <1>4 DEF Forwards
<1>6. DOMAIN answer = 1 .. Len(asked) /\ DOMAIN answer' = 1 .. Len(asked)
  BY <1>3, <1>4
<1>7. OutputsExact'
  BY <1>3, <1>4, <1>6 DEF OutputsExact
<1> QED BY <1>5, <1>7

(***************************************************************************)
(* The queue                                                               *)
(***************************************************************************)
LEMMA OpKept ==
  ASSUME Tables, Grows, NEW o, OpOK(o)
  PROVE  OpOK(o)'
<1>1. o.fwd # 0 => o.fwd \in 1 .. Len(asked)
  BY DEF OpOK, Tables, Forwards
<1>2. o \in [do : Kinds, buf : Nat, count : Counts, fwd : 0 .. Len(asked')]
  <2>1. Len(asked) \in Nat /\ Len(asked) <= Len(asked')
    BY DEF Grows, Tables, Forwards
  <2> QED BY <2>1 DEF OpOK
<1>3. o.do \notin {"fill", "take"} => Capacity(o.count) \in DOMAIN staging
  BY DEF OpOK, Tables, Worked
<1> QED BY <1>1, <1>2, <1>3 DEF OpOK, Grows

LEMMA GapIs ==
  ASSUME NEW o
  PROVE  Gap(o) \in 0 .. 5 /\ (OpOK(o) /\ o.fwd = 0 => Gap(o) # 0)
<1>1. Gap(o) \in 0 .. 5
  BY DEF Gap
<1>2. OpOK(o) => o.do \in Kinds /\ (o.do = "take" => o.fwd # 0)
  BY DEF OpOK
<1> QED BY <1>1, <1>2 DEF Gap, Kinds

\* The forward the head works for exists and has the head's count.
LEMMA ServedIs ==
  ASSUME Tables, Chained, queue # <<>>
  PROVE  /\ OpOK(queue[1]) /\ Served \in 1 .. Len(asked) /\ asked[Served] \in Lists
         /\ Len(asked[Served]) = queue[1].count
<1>1. /\ queue \in Seq(Operations) /\ 1 \in 1 .. Len(queue) /\ Len(queue) \in Nat
      /\ asked \in Seq(Lists)
  BY DEF Chained, Tables, Forwards
<1>2. \A i \in 1 .. Len(queue) : OpOK(queue[i]) /\ Enclosed(queue, i)
  BY DEF Chained
<1>3. \A i \in 1 .. Len(queue) : queue[i].fwd # 0 =>
        queue[i].fwd \in 1 .. Len(asked) /\ Len(asked[queue[i].fwd]) = queue[i].count
  BY <1>1, <1>2 DEF OpOK
<1>4. \A i \in 1 .. Len(queue) : queue[i].do = "take" => queue[i].fwd # 0
  BY <1>2 DEF OpOK
<1>5. Served \in 1 .. Len(asked) /\ Len(asked[Served]) = queue[1].count
  <2>1. CASE queue[1].fwd # 0
    BY <1>1, <1>3, <2>1 DEF Served
  <2>2. CASE queue[1].fwd = 0
    <3>1. TakeAt(queue, 1, Gap(queue[1]))
      BY <1>1, <1>2, <2>2, GapIs DEF Enclosed
    <3> DEFINE k == 1 + Gap(queue[1])
    <3>2. k \in 1 .. Len(queue) /\ queue[k].fwd # 0 /\ queue[k].count = queue[1].count
      BY <1>4, <3>1 DEF TakeAt
    <3>3. Served = queue[k].fwd
      BY <2>2 DEF Served
    <3> QED BY <1>3, <3>2, <3>3
  <2> QED BY <2>1, <2>2
<1> QED BY <1>1, <1>2, <1>5

\* Taking the head off: what comes next continues it, and works for the same forward,
\* or starts something new.
Continues == queue'[1].do \in {"lookup", "rows", "gather", "take"}
               \/ (queue'[1].do = "ids" /\ queue'[1].fwd = 0)

LEMMA Popped ==
  ASSUME Tables, Chained, queue # <<>>, queue' = Tail(queue),
         UNCHANGED <<staging, works, asked>>
  PROVE  /\ Chained'
         /\ queue' # <<>> => OpOK(queue'[1])
         /\ queue' # <<>> => Linked(queue[1], queue'[1])
         /\ queue' # <<>> /\ Continues => Served' = Served
         /\ queue[1].do = "gather" /\ queue[1].fwd = 0 => queue' # <<>>
<1>1. /\ queue \in Seq(Operations) /\ Len(queue) \in Nat /\ Len(queue) > 0
      /\ \A i \in 1 .. Len(queue) : OpOK(queue[i]) /\ Enclosed(queue, i)
      /\ \A i \in 1 .. Len(queue) - 1 : Linked(queue[i], queue[i + 1])
  BY DEF Chained
<1>2. /\ queue' \in Seq(Operations) /\ Len(queue') = Len(queue) - 1
      /\ \A i \in 1 .. Len(queue') : queue'[i] = queue[i + 1]
  BY <1>1, HeadTailProperties
<1>3. \A o : OpOK(o) => OpOK(o)'
  BY DEF OpOK
<1>4. \A i \in 1 .. Len(queue') : Enclosed(queue', i)
  <2> SUFFICES ASSUME NEW i \in 1 .. Len(queue') PROVE Enclosed(queue', i)
    OBVIOUS
  <2>1. i + 1 \in 1 .. Len(queue) /\ queue'[i] = queue[i + 1] /\ Enclosed(queue, i + 1)
    BY <1>1, <1>2
  <2> DEFINE d == Gap(queue[i + 1])
  <2>2. d \in 0 .. 5
    BY GapIs
  <2> HIDE DEF d
  <2>3. d # 0 /\ TakeAt(queue, i + 1, d) => TakeAt(queue', i, d) /\ queue'[i + d] = queue[i + 1 + d]
    <3> SUFFICES ASSUME d # 0, TakeAt(queue, i + 1, d)
                 PROVE  TakeAt(queue', i, d) /\ queue'[i + d] = queue[i + 1 + d]
      OBVIOUS
    <3>1. i + 1 + d \in 1 .. Len(queue) /\ i + d \in 1 .. Len(queue') /\ i + d + 1 = i + 1 + d
      BY <1>1, <1>2, <2>2 DEF TakeAt
    <3> QED BY <1>2, <2>1, <3>1 DEF TakeAt
  <2> QED BY <2>1, <2>2, <2>3 DEF Enclosed, d
<1>5. \A i \in 1 .. Len(queue') - 1 : Linked(queue'[i], queue'[i + 1])
  <2> SUFFICES ASSUME NEW i \in 1 .. Len(queue') - 1 PROVE Linked(queue'[i], queue'[i + 1])
    OBVIOUS
  <2>1. i + 1 \in 1 .. Len(queue) - 1 /\ queue'[i] = queue[i + 1] /\ queue'[i + 1] = queue[i + 1 + 1]
    BY <1>1, <1>2
  <2> QED BY <1>1, <2>1
<1>6. \A i \in 1 .. Len(queue') : OpOK(queue'[i])
  BY <1>1, <1>2
<1>7. Chained'
  BY <1>2, <1>3, <1>4, <1>5, <1>6 DEF Chained, OpOK
<1>8. queue' # <<>> => queue'[1] = queue[2] /\ Linked(queue[1], queue[2]) /\ OpOK(queue'[1])
                         /\ Len(queue') > 0 /\ Len(queue) > 1
  BY <1>1, <1>2, <1>6
<1>9. queue' # <<>> /\ Continues => Served' = Served
  <2> SUFFICES ASSUME queue' # <<>>, Continues PROVE Served' = Served
    OBVIOUS
  <2> DEFINE o == queue[1]
             p == queue[2]
  <2>1. Linked(o, p) /\ queue'[1] = p /\ Enclosed(queue, 1) /\ Enclosed(queue, 2)
    BY <1>1, <1>8
  <2>2. OpOK(o) /\ OpOK(p)
    BY <1>1, <1>8
  <2>3. \A i \in 1 .. Len(queue') : queue'[i] = queue[i + 1]
    BY <1>2
  <2>4. CASE p.fwd # 0 /\ p.do # "take"
    BY <2>1, <2>4 DEF Linked, Served, Continues
  <2>5. CASE p.do = "take"
    <3>1. o.do = "gather" /\ o.fwd = 0 /\ p.fwd # 0 /\ Gap(o) = 1
      BY <2>1, <2>2, <2>5 DEF Linked, OpOK, Gap
    <3> QED BY <2>1, <3>1 DEF Served
  <2>6. CASE p.fwd = 0
    <3>1. Gap(p) \in 1 .. 4 /\ TakeAt(queue, 2, Gap(p)) /\ Gap(o) = 1 + Gap(p)
          /\ (o.fwd = 0 \/ o.do = "fill")
      <4>1. p.do \in {"lookup", "rows", "gather", "ids"}
        BY <2>1, <2>2, <2>6 DEF Continues, OpOK
      <4>2. Gap(p) \in 1 .. 4 /\ Gap(o) = 1 + Gap(p) /\ (o.fwd = 0 \/ o.do = "fill")
        BY <2>1, <2>6, <4>1 DEF Linked, Gap
      <4> QED BY <2>1, <4>2 DEF Enclosed
    <3>2. 1 + Gap(p) \in 1 .. Len(queue') /\ queue'[1 + Gap(p)] = queue[1 + Gap(o)]
      <4>1. 1 + Gap(p) \in 1 .. Len(queue') /\ (1 + Gap(p)) + 1 = 1 + Gap(o)
        BY <1>1, <1>2, <3>1 DEF TakeAt
      <4> QED BY <2>3, <4>1
    <3>3. Served' = queue[1 + Gap(o)].fwd
      BY <2>1, <2>6, <3>2 DEF Served
    <3>4. CASE o.do = "fill"
      <4>1. o.fwd # 0 /\ Gap(o) # 0
        BY <2>2, <3>4 DEF OpOK, Gap
      <4> QED BY <2>1, <3>3, <3>4, <4>1 DEF Served, Enclosed
    <3>5. CASE o.fwd = 0
      BY <3>3, <3>5 DEF Served
    <3> QED BY <3>1, <3>4, <3>5
  <2> QED BY <2>4, <2>5, <2>6
<1>10. queue[1].do = "gather" /\ queue[1].fwd = 0 => queue' # <<>>
  <2> SUFFICES ASSUME queue[1].do = "gather", queue[1].fwd = 0 PROVE queue' # <<>>
    OBVIOUS
  <2>1. Gap(queue[1]) = 1 /\ Enclosed(queue, 1)
    BY <1>1 DEF Gap
  <2>2. 1 + 1 \in 1 .. Len(queue)
    BY <2>1 DEF Enclosed, TakeAt
  <2>3. Len(queue') > 0
    BY <1>1, <1>2, <2>2
  <2> QED BY <2>3, SMTT(30)
<1> QED BY <1>7, <1>8, <1>9, <1>10

\* What the host appends is whole: it starts something new and ends what it starts.
Whole(s) ==
  /\ s \in Seq(Operations)
  /\ \A i \in 1 .. Len(s) : Enclosed(s, i)
  /\ \A i \in 1 .. Len(s) - 1 : Linked(s[i], s[i + 1])
  /\ s # <<>> => s[1].do = "fill" \/ (s[1].do = "ids" /\ s[1].fwd # 0)

LEMMA Appended ==
  ASSUME Tables, Chained, HeadReady, Grows, UNCHANGED <<alive, static>>, NEW s, Whole(s),
         \A i \in 1 .. Len(s) : OpOK(s[i])', queue' = queue \o s
  PROVE  Chained' /\ HeadReady'
<1>1. /\ queue \in Seq(Operations) /\ Len(queue) \in Nat
      /\ \A i \in 1 .. Len(queue) : OpOK(queue[i]) /\ Enclosed(queue, i)
      /\ \A i \in 1 .. Len(queue) - 1 : Linked(queue[i], queue[i + 1])
  BY DEF Chained
<1>2. s \in Seq(Operations) /\ Len(s) \in Nat
  BY DEF Whole
<1>3. /\ queue' \in Seq(Operations) /\ Len(queue') = Len(queue) + Len(s)
      /\ \A i \in 1 .. Len(queue) : queue'[i] = queue[i]
      /\ \A i \in 1 .. Len(s) : queue'[Len(queue) + i] = s[i]
      /\ \A i \in 1 .. Len(queue') :
           i \in 1 .. Len(queue) \/ \E j \in 1 .. Len(s) : i = Len(queue) + j
  <2>1. /\ queue' \in Seq(Operations) /\ Len(queue') = Len(queue) + Len(s)
        /\ \A i \in 1 .. Len(queue) + Len(s) :
             queue'[i] = IF i <= Len(queue) THEN queue[i] ELSE s[i - Len(queue)]
    BY <1>1, <1>2, ConcatProperties
  <2>2. \A i \in 1 .. Len(queue') : i \notin 1 .. Len(queue) =>
          i - Len(queue) \in 1 .. Len(s) /\ i = Len(queue) + (i - Len(queue))
    BY <1>1, <1>2, <2>1
  <2>3. \A i \in 1 .. Len(s) : Len(queue) + i \in 1 .. Len(queue) + Len(s)
          /\ ~(Len(queue) + i <= Len(queue)) /\ (Len(queue) + i) - Len(queue) = i
    BY <1>1, <1>2
  <2>4. \A i \in 1 .. Len(queue) : i \in 1 .. Len(queue) + Len(s) /\ i <= Len(queue)
    BY <1>1, <1>2
  <2> QED BY <2>1, <2>2, <2>3, <2>4
<1>4. \A i \in 1 .. Len(queue') : \A o : o = queue'[i] => OpOK(o)'
  <2> SUFFICES ASSUME NEW i \in 1 .. Len(queue'), NEW o, o = queue'[i] PROVE OpOK(o)'
    OBVIOUS
  <2>1. CASE i \in 1 .. Len(queue)
    <3>1. OpOK(o)
      BY <1>1, <1>3, <2>1
    <3> QED BY <3>1, OpKept
  <2>2. ASSUME NEW j \in 1 .. Len(s), i = Len(queue) + j PROVE OpOK(o)'
    BY <1>3, <2>2
  <2> QED BY <1>3, <2>1, <2>2
<1>5. \A i \in 1 .. Len(queue') : Enclosed(queue', i)
  <2> SUFFICES ASSUME NEW i \in 1 .. Len(queue') PROVE Enclosed(queue', i)
    OBVIOUS
  <2>1. CASE i \in 1 .. Len(queue)
    <3> DEFINE d == Gap(queue[i])
    <3>1. d \in 0 .. 5 /\ queue'[i] = queue[i] /\ Enclosed(queue, i)
      BY <1>1, <1>3, <2>1, GapIs
    <3> HIDE DEF d
    <3>2. TakeAt(queue, i, d) => TakeAt(queue', i, d) /\ queue'[i + d] = queue[i + d]
      BY <1>1, <1>2, <1>3, <2>1, <3>1 DEF TakeAt
    <3> QED BY <3>1, <3>2 DEF Enclosed, d
  <2>2. ASSUME NEW j \in 1 .. Len(s), i = Len(queue) + j PROVE Enclosed(queue', i)
    <3> DEFINE d == Gap(s[j])
    <3>1. d \in 0 .. 5 /\ queue'[i] = s[j] /\ Enclosed(s, j)
      BY <1>3, <2>2, GapIs DEF Whole
    <3> HIDE DEF d
    <3>2. TakeAt(s, j, d) => TakeAt(queue', i, d) /\ queue'[i + d] = s[j + d]
      <4> SUFFICES ASSUME TakeAt(s, j, d)
                   PROVE  TakeAt(queue', i, d) /\ queue'[i + d] = s[j + d]
        OBVIOUS
      <4>1. j + d \in 1 .. Len(s) /\ i + d = Len(queue) + (j + d)
        BY <1>1, <1>2, <2>2, <3>1 DEF TakeAt
      <4>2. i + d \in 1 .. Len(queue') /\ queue'[i + d] = s[j + d]
        BY <1>1, <1>2, <1>3, <4>1
      <4> QED BY <3>1, <4>1, <4>2 DEF TakeAt
    <3> QED BY <3>1, <3>2 DEF Enclosed, d
  <2> QED BY <1>3, <2>1, <2>2
<1>6. \A i \in 1 .. Len(queue') - 1 : Linked(queue'[i], queue'[i + 1])
  <2> SUFFICES ASSUME NEW i \in 1 .. Len(queue') - 1 PROVE Linked(queue'[i], queue'[i + 1])
    OBVIOUS
  <2>1. CASE i \in 1 .. Len(queue) - 1
    BY <1>1, <1>3, <2>1
  <2>2. CASE i = Len(queue)
    <3>1. queue'[i + 1] = s[1] /\ s # <<>>
      <4>1. Len(s) > 0 /\ i + 1 = Len(queue) + 1 /\ 1 \in 1 .. Len(s)
        BY <1>1, <1>2, <1>3, <2>2
      <4> QED BY <1>3, <4>1, SMTT(30)
    <3> QED BY <3>1 DEF Whole, Linked
  <2>3. CASE i > Len(queue)
    <3> DEFINE j == i - Len(queue)
    <3>1. j \in 1 .. Len(s) - 1 /\ i = Len(queue) + j /\ i + 1 = Len(queue) + (j + 1)
          /\ j \in 1 .. Len(s) /\ j + 1 \in 1 .. Len(s)
      BY <1>1, <1>2, <1>3, <2>3
    <3> HIDE DEF j
    <3>2. queue'[i] = s[j] /\ queue'[i + 1] = s[j + 1]
      BY <1>3, <3>1
    <3> QED BY <3>1, <3>2 DEF Whole
  <2>4. i \in 1 .. Len(queue) - 1 \/ i = Len(queue) \/ i > Len(queue)
    BY <1>1, <1>2, <1>3
  <2> QED BY <2>1, <2>2, <2>3, <2>4
<1>7. Chained'
  BY <1>3, <1>4, <1>5, <1>6, ZenonT(30) DEF Chained, OpOK
<1>8. HeadReady'
  <2> SUFFICES ASSUME alive, queue' # <<>>, NEW o, NEW x, o = queue'[1], x = asked'[Served']
               PROVE  Ready(o, x)'
    BY DEF HeadReady, Ready
  <2>1. CASE queue = <<>>
    <3>1. s # <<>> /\ o = s[1]
      <4>1. Len(queue) = 0 /\ Len(queue') > 0
        BY <1>3, <2>1
      <4> QED BY <1>2, <1>3, <4>1
    <3>2. o.do = "fill" \/ (o.do = "ids" /\ o.fwd # 0)
      BY <3>1 DEF Whole
    <3> QED BY <3>2 DEF Ready
  <2>2. CASE queue # <<>>
    <3>1. o = queue[1] /\ OpOK(queue[1]) /\ Enclosed(queue, 1) /\ 1 \in 1 .. Len(queue)
      BY <1>1, <1>3, <2>2
    <3>2. Served' = Served
      <4>1. CASE queue[1].fwd # 0
        BY <3>1, <4>1 DEF Served
      <4>2. CASE queue[1].fwd = 0
        <5>1. 1 + Gap(queue[1]) \in 1 .. Len(queue)
          BY <3>1, <4>2, GapIs DEF Enclosed, TakeAt
        <5>2. queue'[1 + Gap(queue[1])] = queue[1 + Gap(queue[1])]
          BY <1>3, <5>1
        <5> QED BY <3>1, <4>2, <5>2 DEF Served
      <4> QED BY <4>1, <4>2
    <3>3. Ready(o, x)
      BY <2>2, <3>1, <3>2, ServedIs DEF HeadReady, Grows
    <3>4. o.do \notin {"fill", "take"} => bufs'[o.buf] = bufs[o.buf]
      BY <3>1 DEF OpOK, Grows, Tables, Worked
    <3> QED BY <3>3, <3>4 DEF Ready
  <2> QED BY <2>1, <2>2
<1> QED BY <1>7, <1>8

(***************************************************************************)
(* The host                                                                *)
(***************************************************************************)
\* The operations of a forward, with the buffer of its count.
Plan(b, n, f) ==
  <<[do |-> "ids", buf |-> b, count |-> n, fwd |-> f],
    [do |-> "lookup", buf |-> b, count |-> n, fwd |-> f],
    [do |-> "rows", buf |-> b, count |-> n, fwd |-> f],
    [do |-> "gather", buf |-> b, count |-> n, fwd |-> f]>>

IsPlan(s, b, n, f) ==
  /\ s \in Seq(Operations) /\ Len(s) = 4
  /\ s[1].do = "ids" /\ s[2].do = "lookup" /\ s[3].do = "rows" /\ s[4].do = "gather"
  /\ \A i \in 1 .. 4 : s[i].buf = b /\ s[i].count = n /\ s[i].fwd = f

LEMMA PlanIs ==
  ASSUME NEW b \in Nat, NEW n \in Counts, NEW f \in Nat
  PROVE  IsPlan(Plan(b, n, f), b, n, f)
BY DEF IsPlan, Plan, Operations, Kinds

\* The operations of a forward are whole, and fit the tables they were made with.
LEMMA PlanWhole ==
  ASSUME NEW b \in Nat, NEW n \in Counts, NEW f \in Nat \ {0}
  PROVE  Whole(Plan(b, n, f))
<1> DEFINE s == Plan(b, n, f)
<1>0. IsPlan(s, b, n, f)
  BY PlanIs
<1> HIDE DEF s
<1>1. s \in Seq(Operations) /\ Len(s) = 4 /\ s[1].do = "ids" /\ s[2].do = "lookup"
      /\ s[3].do = "rows" /\ s[4].do = "gather"
      /\ \A i \in 1 .. 4 : s[i].count = n /\ s[i].fwd = f
  BY <1>0 DEF IsPlan
<1>2. \A i \in 1 .. Len(s) : Enclosed(s, i)
  <2>1. \A i \in 1 .. 4 : i = 1 \/ i = 2 \/ i = 3 \/ i = 4
    OBVIOUS
  <2>2. \A i \in 1 .. 4 : Gap(s[i]) = 0
    BY <1>1, <2>1 DEF Gap
  <2> QED BY <1>1, <2>2 DEF Enclosed
<1>3. \A i \in 1 .. Len(s) - 1 : Linked(s[i], s[i + 1])
  <2>1. \A i \in 1 .. Len(s) - 1 : i = 1 \/ i = 2 \/ i = 3
    BY <1>1
  <2> QED BY <1>1, <2>1 DEF Linked
<1> QED BY <1>1, <1>2, <1>3 DEF Whole, s

\* So are those of a graph between the fill of its input and the take of its output.
LEMMA ReplayWhole ==
  ASSUME NEW b \in Nat, NEW n \in Counts, NEW f \in Nat \ {0}, NEW s \in Seq(Operations), Len(s) = 6,
         s[1].do = "fill", s[1].count = n, s[1].fwd = f,
         s[6].do = "take", s[6].count = n, s[6].fwd = f,
         NEW p, IsPlan(p, b, n, 0), \A i \in 1 .. 4 : s[i + 1] = p[i]
  PROVE  Whole(s)
<1>1. /\ s[1].do = "fill" /\ s[2].do = "ids" /\ s[3].do = "lookup" /\ s[4].do = "rows"
      /\ s[5].do = "gather" /\ s[6].do = "take" /\ s[1].fwd = f /\ s[6].fwd = f
      /\ s[1].count = n /\ s[2].count = n /\ s[3].count = n /\ s[4].count = n
      /\ s[5].count = n /\ s[6].count = n
      /\ s[2].fwd = 0 /\ s[3].fwd = 0 /\ s[4].fwd = 0 /\ s[5].fwd = 0
  <2>1. s[2] = p[1] /\ s[3] = p[2] /\ s[4] = p[3] /\ s[5] = p[4]
    OBVIOUS
  <2> QED BY <2>1 DEF IsPlan
<1>2. \A i \in 1 .. 6 : i = 1 \/ i = 2 \/ i = 3 \/ i = 4 \/ i = 5 \/ i = 6
  OBVIOUS
<1>3. Gap(s[1]) = 5 /\ Gap(s[2]) = 4 /\ Gap(s[3]) = 3 /\ Gap(s[4]) = 2 /\ Gap(s[5]) = 1
      /\ Gap(s[6]) = 0
  BY <1>1 DEF Gap
<1>4. Enclosed(s, 1) /\ Enclosed(s, 2) /\ Enclosed(s, 3) /\ Enclosed(s, 4) /\ Enclosed(s, 5)
      /\ Enclosed(s, 6)
  BY <1>1, <1>3 DEF Enclosed, TakeAt
<1>5. Linked(s[1], s[2]) /\ Linked(s[2], s[3]) /\ Linked(s[3], s[4]) /\ Linked(s[4], s[5])
      /\ Linked(s[5], s[6])
  BY <1>1 DEF Linked
<1>6. \A i \in 1 .. Len(s) - 1 : Linked(s[i], s[i + 1])
  <2>1. \A i \in 1 .. Len(s) - 1 : i = 1 \/ i = 2 \/ i = 3 \/ i = 4 \/ i = 5
    OBVIOUS
  <2> QED BY <1>5, <2>1
<1>7. \A i \in 1 .. Len(s) : Enclosed(s, i)
  BY <1>2, <1>4
<1> QED BY <1>1, <1>6, <1>7 DEF Whole

LEMMA PlanFits ==
  ASSUME NEW n \in DOMAIN works', n \in Counts, NEW b \in Nat, b = staging'[Capacity(n)],
         NEW f \in 0 .. Len(asked'), f # 0 => Len(asked'[f]) = n, Len(asked') \in Nat
  PROVE  \A i \in 1 .. 4 : \A o : o = Plan(b, n, f)[i] => OpOK(o)'
<1> SUFFICES ASSUME NEW i \in 1 .. 4, NEW o, o = Plan(b, n, f)[i] PROVE OpOK(o)'
  OBVIOUS
<1>1. o.buf = b /\ o.count = n /\ o.fwd = f /\ o.do \in {"ids", "lookup", "rows", "gather"}
      /\ o \in Operations
  <2>1. f \in Nat /\ (i = 1 \/ i = 2 \/ i = 3 \/ i = 4)
    OBVIOUS
  <2> DEFINE p == Plan(b, n, f)
  <2>2. IsPlan(p, b, n, f) /\ o = p[i]
    BY <2>1, PlanIs
  <2> HIDE DEF p
  <2>3. p \in Seq(Operations) /\ i \in 1 .. Len(p)
    BY <2>2 DEF IsPlan
  <2>4. o \in Operations
    BY <2>2, <2>3, ElementOfSeq
  <2> QED BY <2>1, <2>2, <2>4 DEF IsPlan
<1>2. o \in [do : Kinds, buf : Nat, count : Counts, fwd : 0 .. Len(asked')]
  BY <1>1 DEF Operations
<1> QED BY <1>1, <1>2 DEF OpOK

LEMMA GraphsKept ==
  ASSUME Tables, Grows, UNCHANGED <<graph, static>>
  PROVE  Graphs'
<1>1. \A n \in DOMAIN works : staging'[Capacity(n)] = staging[Capacity(n)]
  BY DEF Tables, Worked, Grows
<1> QED BY <1>1 DEF Tables, Graphs, Recorded, OpOf, Grows

\* A step of the host: what it grew, and what it appended.
LEMMA HostStep ==
  ASSUME PipelineInv, Grows, UNCHANGED <<alive, graph, static>>, Buffers', Worked',
         Forwards', OutputsExact', NEW s, Whole(s), queue' = queue \o s,
         \A i \in 1 .. Len(s) : \A o : o = s[i] => OpOK(o)'
  PROVE  PipelineInv'
<1>1. Tables /\ Chained /\ HeadReady
  BY DEF PipelineInv
<1>2. Graphs'
  BY <1>1, GraphsKept
<1>3. Chained' /\ HeadReady'
  BY <1>1, Appended
<1> QED BY <1>2, <1>3 DEF PipelineInv, Tables

LEMMA NothingWhole == Whole(<<>>)
BY DEF Whole

LEMMA NothingKept ==
  ASSUME PipelineInv, NEW x \in Lists, ForwardNothing(x)
  PROVE  PipelineInv'
<1>1. Forwards /\ OutputsExact /\ queue \in Seq(Operations)
  BY DEF PipelineInv, Tables, Chained
<1>2. <<>> \in Arrays
  <2>1. <<>> \in [1 .. 0 -> Int]
    OBVIOUS
  <2> QED BY <2>1 DEF Arrays
<1>3. <<>> = Rows(x)
  BY DEF ForwardNothing, Rows
<1>4. /\ Forwards' /\ OutputsExact'
      /\ \A f \in 1 .. Len(asked) : f \in 1 .. Len(asked') /\ asked'[f] = asked[f]
  BY <1>1, <1>2, <1>3, AskAppends DEF ForwardNothing, States
<1>5. Grows /\ Buffers' /\ Worked'
  BY <1>4 DEF ForwardNothing, Grows, PipelineInv, Tables, Buffers, Worked
<1>6. queue' = queue \o <<>>
  BY <1>1, ConcatEmptySeq DEF ForwardNothing
<1>7. \A i \in 1 .. Len(<<>>) : \A o : o = <<>>[i] => OpOK(o)'
  OBVIOUS
<1> QED BY <1>4, <1>5, <1>6, <1>7, NothingWhole, HostStep DEF ForwardNothing

LEMMA ForwardKept ==
  ASSUME PipelineInv, NEW x \in Lists, Forward(x) \/ ForwardRaises(x)
  PROVE  PipelineInv'
<1> DEFINE n == Len(x)
<1>1. n \in Counts
  BY ListIs DEF Forward, ForwardRaises
<1>2. Tables /\ Chained /\ Forwards /\ OutputsExact
  BY DEF PipelineInv, Tables
<1>3. /\ Prepare(n, FALSE) /\ UNCHANGED <<alive, graph, static>>
      /\ \E st \in {"pending", "raised"} : Ask(x, st, <<>>)
  BY DEF Forward, ForwardRaises
<1>4. <<>> \in Arrays
  <2>1. <<>> \in [1 .. 0 -> Int]
    OBVIOUS
  <2> QED BY <2>1 DEF Arrays
<1>5. /\ Forwards' /\ OutputsExact' /\ Len(asked') = Len(asked) + 1 /\ asked'[Len(asked')] = x
      /\ \A f \in 1 .. Len(asked) : f \in 1 .. Len(asked') /\ asked'[f] = asked[f]
  BY <1>2, <1>3, <1>4, AskAppends DEF States
<1>6. /\ Buffers' /\ Worked' /\ n \in DOMAIN works' /\ Capacity(n) \in DOMAIN staging'
      /\ \A c \in DOMAIN staging :
           c \in DOMAIN staging' /\ staging'[c] = staging[c]
             /\ bufs'[staging[c]] = bufs[staging[c]]
      /\ DOMAIN works \subseteq DOMAIN works'
  BY <1>1, <1>2, <1>3, PrepareGrows
<1>7. Grows
  BY <1>5, <1>6 DEF Grows
<1> PICK f : f = Len(asked')
  OBVIOUS
<1> PICK b : b = staging'[Capacity(n)]
  OBVIOUS
<1>8. f \in Nat \ {0} /\ f \in 0 .. Len(asked') /\ Len(asked'[f]) = n /\ Len(asked') \in Nat
  BY <1>2, <1>5 DEF Forwards
<1>9. b \in Nat
  BY <1>6 DEF Buffers
<1> HIDE DEF n
<1>10. \A i \in 1 .. 4 : \A o : o = Plan(b, n, f)[i] => OpOK(o)'
  BY <1>1, <1>6, <1>8, <1>9, PlanFits
<1>11. Len(Plan(b, n, f)) = 4
  BY <1>1, <1>8, <1>9, PlanIs DEF IsPlan
<1>12. CASE Forward(x)
  <2>1. queue' = queue \o Plan(b, n, f)
    BY <1>12 DEF Forward, Enqueued, Op, Plan, n
  <2>2. Whole(Plan(b, n, f))
    BY <1>1, <1>8, <1>9, PlanWhole
  <2> QED BY <1>3, <1>5, <1>6, <1>7, <1>10, <1>11, <2>1, <2>2, HostStep
<1>13. CASE ForwardRaises(x)
  <2> DEFINE p == [do |-> "ids", buf |-> b, count |-> n, fwd |-> f]
  <2>1. p = Plan(b, n, f)[1] /\ p \in Operations
    BY <1>1, <1>8, <1>9 DEF Plan, Operations, Kinds
  <2>2. queue' = Append(queue, p)
    BY <1>13 DEF ForwardRaises, Op, n
  <2>3. queue' = queue \o <<p>>
    BY <1>2, <2>1, <2>2, AppendIsConcat DEF Chained
  <2>4. Whole(<<p>>)
    <3>1. <<p>> \in Seq(Operations) /\ Len(<<p>>) = 1 /\ <<p>>[1] = p
      BY <2>1
    <3>2. Gap(p) = 0
      BY <1>8 DEF Gap
    <3> QED BY <1>8, <3>1, <3>2 DEF Whole, Enclosed
  <2>5. \A i \in 1 .. Len(<<p>>) : \A o : o = <<p>>[i] => OpOK(o)'
    BY <1>10, <2>1
  <2> QED BY <1>3, <1>5, <1>6, <1>7, <2>3, <2>4, <2>5, HostStep
<1> QED BY <1>12, <1>13

LEMMA CaptureKept ==
  ASSUME PipelineInv, NEW n \in Counts, Capture(n) \/ CaptureRaises(n)
  PROVE  PipelineInv'
<1>1. /\ Tables /\ Chained /\ HeadReady /\ Forwards /\ Prepare(n, TRUE)
      /\ UNCHANGED <<alive, queue, static, asked, answer>>
  BY DEF PipelineInv, Tables, Capture, CaptureRaises
<1>2. /\ Buffers' /\ Worked' /\ n \in DOMAIN works' /\ Capacity(n) \in DOMAIN staging'
      /\ \A c \in DOMAIN staging :
           c \in DOMAIN staging' /\ staging'[c] = staging[c]
             /\ bufs'[staging[c]] = bufs[staging[c]]
      /\ DOMAIN works \subseteq DOMAIN works'
  BY <1>1, PrepareGrows
<1>3. Grows /\ Forwards' /\ OutputsExact'
  BY <1>1, <1>2 DEF Grows, Forwards, PipelineInv, OutputsExact
<1>4. Chained' /\ HeadReady'
  <2>1. queue' = queue \o <<>>
    BY <1>1, ConcatEmptySeq DEF Chained
  <2>2. \A i \in 1 .. Len(<<>>) : OpOK(<<>>[i])'
    OBVIOUS
  <2> QED BY <1>1, <1>3, <2>1, <2>2, NothingWhole, Appended
<1>5. Graphs'
  <2>1. \A m \in DOMAIN works : staging'[Capacity(m)] = staging[Capacity(m)]
    BY <1>1, <1>2 DEF Tables, Worked
  <2>2. CASE CaptureRaises(n)
    BY <1>1, <1>3, <2>2, GraphsKept DEF CaptureRaises
  <2>3. CASE Capture(n)
    <3>1. graph' = [graph EXCEPT ![n] = Enqueued(n, 0)]
      BY <2>3 DEF Capture
    <3>2. Enqueued(n, 0) = Recorded(n)'
      BY DEF Enqueued, Op, Recorded, OpOf
    <3>3. Enqueued(n, 0) \in Seq(Operations)
      <4> PICK b : b = staging'[Capacity(n)]
        OBVIOUS
      <4>1. b \in Nat /\ Enqueued(n, 0) = Plan(b, n, 0)
        BY <1>2 DEF Buffers, Enqueued, Op, Plan
      <4>2. IsPlan(Plan(b, n, 0), b, n, 0)
        BY <1>2, <4>1, PlanIs
      <4> QED BY <4>1, <4>2 DEF IsPlan
    <3>4. graph \in [Counts -> Seq(Operations)] /\ static' = static
      BY <1>1 DEF Tables, Graphs
    <3>5. \A m \in Counts : graph'[m] # <<>> =>
            m \in DOMAIN works' /\ graph'[m] = Recorded(m)'
      <4> SUFFICES ASSUME NEW m \in Counts, graph'[m] # <<>>
                   PROVE  m \in DOMAIN works' /\ graph'[m] = Recorded(m)'
        OBVIOUS
      <4>1. CASE m = n
        BY <1>2, <3>1, <3>2, <3>4, <4>1
      <4>2. CASE m # n
        <5>1. graph'[m] = graph[m] /\ m \in DOMAIN works /\ graph[m] = Recorded(m)
          BY <1>1, <3>1, <3>4, <4>2 DEF Tables, Graphs
        <5> QED BY <1>2, <2>1, <5>1 DEF Recorded, OpOf
      <4> QED BY <4>1, <4>2
    <3> QED BY <1>1, <3>1, <3>3, <3>4, <3>5 DEF Tables, Graphs
  <2> QED BY <2>2, <2>3
<1> QED BY <1>2, <1>3, <1>4, <1>5 DEF PipelineInv, Tables

LEMMA ReplayKept ==
  ASSUME PipelineInv, NEW x \in Lists, Replay(x)
  PROVE  PipelineInv'
<1> DEFINE n == Len(x)
<1>1. n \in Counts /\ graph[n] # <<>> /\ Ask(x, "pending", <<>>)
      /\ UNCHANGED <<alive, bufs, staging, works, graph, static>>
  BY DEF Replay
<1>2. Tables /\ Chained /\ Forwards /\ OutputsExact /\ queue \in Seq(Operations)
  BY DEF PipelineInv, Tables, Chained
<1>3. <<>> \in Arrays
  <2>1. <<>> \in [1 .. 0 -> Int]
    OBVIOUS
  <2> QED BY <2>1 DEF Arrays
<1>4. /\ Forwards' /\ OutputsExact' /\ Len(asked') = Len(asked) + 1 /\ asked'[Len(asked')] = x
      /\ \A f \in 1 .. Len(asked) : f \in 1 .. Len(asked') /\ asked'[f] = asked[f]
  BY <1>1, <1>2, <1>3, AskAppends DEF States
<1>5. Grows /\ Buffers' /\ Worked'
  BY <1>1, <1>2, <1>4 DEF Grows, Tables, Buffers, Worked
<1> PICK f : f = Len(asked')
  OBVIOUS
<1> PICK b : b = staging[Capacity(n)]
  OBVIOUS
<1>6. f \in Nat \ {0} /\ f \in 0 .. Len(asked') /\ Len(asked'[f]) = n /\ Len(asked') \in Nat
  BY <1>2, <1>4 DEF Forwards
<1>7. n \in DOMAIN works /\ b \in Nat /\ graph[n] = Plan(b, n, 0)
  BY <1>1, <1>2 DEF Tables, Graphs, Recorded, OpOf, Plan, Worked, Buffers
<1> DEFINE g == [do |-> "fill", buf |-> 0, count |-> n, fwd |-> f]
           t == [do |-> "take", buf |-> 0, count |-> n, fwd |-> f]
           s == <<g>> \o Plan(b, n, 0) \o <<t>>
<1>8. queue' = queue \o <<g>> \o graph[n] \o <<t>>
  <2>1. t = [g EXCEPT !.do = "take"]
    OBVIOUS
  <2> QED BY <2>1 DEF Replay
<1>9. g \in Operations /\ t \in Operations
  BY <1>1, <1>6 DEF Operations, Kinds
<1>10. g.do = "fill" /\ t.do = "take" /\ g.count = n /\ t.count = n /\ g.fwd = f /\ t.fwd = f
  OBVIOUS
<1> HIDE DEF n
<1>11. Plan(b, n, 0) \in Seq(Operations) /\ Len(Plan(b, n, 0)) = 4
  <2>1. IsPlan(Plan(b, n, 0), b, n, 0)
    BY <1>1, <1>7, PlanIs
  <2> QED BY <2>1 DEF IsPlan
<1>12. g = [do |-> "fill", buf |-> 0, count |-> n, fwd |-> f]
       /\ t = [do |-> "take", buf |-> 0, count |-> n, fwd |-> f]
  OBVIOUS
<1> HIDE DEF g, t
<1>13. <<g>> \in Seq(Operations) /\ <<t>> \in Seq(Operations) /\ Len(<<g>>) = 1 /\ Len(<<t>>) = 1
  BY <1>9
<1>14. <<g>> \o Plan(b, n, 0) \in Seq(Operations) /\ Len(<<g>> \o Plan(b, n, 0)) = 5
       /\ \A i \in 1 .. 5 : (<<g>> \o Plan(b, n, 0))[i] = IF i <= 1 THEN g ELSE Plan(b, n, 0)[i - 1]
  BY <1>11, <1>13, ConcatProperties, SMTT(30)
<1>15. s \in Seq(Operations) /\ Len(s) = 6
       /\ \A i \in 1 .. 6 : s[i] = IF i <= 5 THEN (<<g>> \o Plan(b, n, 0))[i] ELSE t
  BY <1>13, <1>14, ConcatProperties
<1>16. s[1] = g /\ s[6] = t /\ \A i \in 1 .. 4 : s[i + 1] = Plan(b, n, 0)[i]
  <2>1. s[1] = g /\ s[6] = t
    BY <1>14, <1>15
  <2>2. \A i \in 1 .. 4 : i + 1 \in 1 .. 6 /\ i + 1 \in 1 .. 5 /\ i + 1 <= 5 /\ ~(i + 1 <= 1)
          /\ (i + 1) - 1 = i
    OBVIOUS
  <2> QED BY <1>14, <1>15, <2>1, <2>2
<1>17. queue' = queue \o s
  <2>1. (queue \o <<g>>) \o Plan(b, n, 0) = queue \o (<<g>> \o Plan(b, n, 0))
    BY <1>2, <1>11, <1>13, ConcatAssociative
  <2>2. (queue \o (<<g>> \o Plan(b, n, 0))) \o <<t>> = queue \o s
    BY <1>2, <1>13, <1>14, ConcatAssociative, SMTT(30)
  <2> QED BY <1>7, <1>8, <2>1, <2>2
<1> HIDE DEF s
<1>18. Whole(s)
  <2> DEFINE p == Plan(b, n, 0)
  <2>1. IsPlan(p, b, n, 0) /\ \A i \in 1 .. 4 : s[i + 1] = p[i]
    BY <1>1, <1>7, <1>16, PlanIs
  <2> HIDE DEF p
  <2> QED BY <1>1, <1>6, <1>7, <1>10, <1>15, <1>16, <2>1, ReplayWhole
<1>19. \A i \in 1 .. Len(s) : \A o : o = s[i] => OpOK(o)'
  <2>1. \A i \in 1 .. 4 : \A o : o = Plan(b, n, 0)[i] => OpOK(o)'
    <3>1. n \in DOMAIN works' /\ b = staging'[Capacity(n)] /\ 0 \in 0 .. Len(asked')
      BY <1>1, <1>6, <1>7
    <3> QED BY <1>1, <1>6, <1>7, <3>1, PlanFits
  <2>2. \A o : o = g \/ o = t => OpOK(o)'
    <3>1. g \in [do : Kinds, buf : Nat, count : Counts, fwd : 0 .. Len(asked')]
          /\ t \in [do : Kinds, buf : Nat, count : Counts, fwd : 0 .. Len(asked')]
      BY <1>1, <1>6, <1>12 DEF Kinds
    <3> QED BY <1>6, <1>10, <3>1 DEF OpOK
  <2>3. \A i \in 1 .. 6 : s[i] = g \/ s[i] = t \/ \E j \in 1 .. 4 : s[i] = Plan(b, n, 0)[j]
    <3>1. \A i \in 1 .. 6 : i = 1 \/ i = 6 \/ (i - 1 \in 1 .. 4 /\ (i - 1) + 1 = i)
      OBVIOUS
    <3> QED BY <1>16, <3>1
  <2> QED BY <1>15, <2>1, <2>2, <2>3
<1> QED BY <1>1, <1>4, <1>5, <1>17, <1>18, <1>19, HostStep

(***************************************************************************)
(* The GPU and the callback                                                *)
(***************************************************************************)
\* The operation at the head: its buffer has its count's capacity, its Work is the
\* one of its count, and it works for a forward of that count.
Acts(o, x, n) ==
  /\ o = queue[1] /\ x = asked[Served] /\ n = o.count /\ OpOK(o)
  /\ x \in Lists /\ Len(x) = n /\ n \in Counts /\ Served \in 1 .. Len(asked)
  /\ Ready(o, x)
OnBuffer(o, n) ==
  /\ Capacity(n) \in DOMAIN staging /\ o.buf = staging[Capacity(n)] /\ Capacity(n) \in Nat
  /\ bufs[o.buf] \in Buffer(Capacity(n)) /\ n \in Nat /\ n <= Capacity(n)
  /\ works[WorkKey(n)] = [buf |-> o.buf, count |-> n]

LEMMA HeadActs ==
  ASSUME PipelineInv, NEW kind, Does(kind)
  PROVE  \E o, x, n : /\ Acts(o, x, n) /\ o.do = kind
                      /\ (kind \notin {"fill", "take"} => OnBuffer(o, n))
<1>1. Tables /\ Chained /\ HeadReady /\ queue # <<>> /\ alive /\ queue \in Seq(Operations)
  BY DEF PipelineInv, Does, Chained
<1> DEFINE o == queue[1]
           x == asked[Served]
           n == o.count
<1>2. o.do = kind
  BY <1>1 DEF Does, Next1
<1>3. Acts(o, x, n)
  BY <1>1, ServedIs DEF Acts, HeadReady, OpOK
<1>4. kind \notin {"fill", "take"} => OnBuffer(o, n)
  <2> SUFFICES ASSUME kind \notin {"fill", "take"} PROVE OnBuffer(o, n)
    OBVIOUS
  <2>1. n \in Counts /\ n \in DOMAIN works /\ o.buf = staging[Capacity(n)]
    BY <1>2, <1>3 DEF Acts, OpOK
  <2>2. Capacity(n) \in DOMAIN staging /\ works[n] = [buf |-> staging[Capacity(n)], count |-> n]
    BY <1>1, <2>1 DEF Tables, Worked
  <2>3. bufs[o.buf] \in Buffer(Capacity(n))
    BY <1>1, <2>1, <2>2 DEF Tables, Buffers
  <2> QED BY <2>1, <2>2, <2>3, CapacityFits DEF OnBuffer, WorkKey
<1> QED BY <1>2, <1>3, <1>4

LEMMA HeadIs ==
  ASSUME PipelineInv, NEW kind, Does(kind)
  PROVE  Next1 = queue[1]
BY DEF PipelineInv, Chained, Does, Next1

\* The arrays of the buffer the operation at the head works on.
LEMMA OnBufferIs ==
  ASSUME NEW o, NEW n, OnBuffer(o, n)
  PROVE  \E c \in Nat :
           /\ c = Capacity(n) /\ c \in DOMAIN staging /\ o.buf = staging[c] /\ n \in Nat /\ n <= c
           /\ bufs[o.buf] \in Buffer(c) /\ bufs[o.buf].ids \in [1 .. c -> Int]
           /\ bufs[o.buf].host \in [1 .. c -> Int] /\ bufs[o.buf].dev \in [1 .. c -> Int]
           /\ bufs[o.buf].arange /\ \A i \in 1 .. n : i \in 1 .. c
<1>1. \A c \in Nat : bufs[o.buf] \in Buffer(c) =>
        /\ bufs[o.buf].ids \in [1 .. c -> Int] /\ bufs[o.buf].host \in [1 .. c -> Int]
        /\ bufs[o.buf].dev \in [1 .. c -> Int] /\ bufs[o.buf].arange = TRUE
  BY DEF Buffer
<1>2. Capacity(n) \in Nat /\ n \in Nat /\ n <= Capacity(n)
  BY DEF OnBuffer
<1>3. \A i \in 1 .. n : i \in 1 .. Capacity(n)
  BY <1>2
<1> QED BY <1>1, <1>2, <1>3 DEF OnBuffer

\* An array of the same size in the place of one of a buffer's.
Written(r, b, a) ==
  \/ r = [b EXCEPT !.ids = a]
  \/ r = [b EXCEPT !.host = a]
  \/ r = [b EXCEPT !.dev = a]

LEMMA ArrayWritten ==
  ASSUME Buffers, UNCHANGED <<alive, staging>>, NEW c \in DOMAIN staging, NEW a, NEW r,
         a \in [1 .. c -> Int], Written(r, bufs[staging[c]], a),
         bufs' = [bufs EXCEPT ![staging[c]] = r]
  PROVE  Buffers' /\ bufs'[staging[c]] = r
<1> PICK b : b = bufs[staging[c]]
  OBVIOUS
<1>1. c \in Nat /\ b \in Buffer(c) /\ Written(r, b, a)
  BY DEF Buffers
<1>2. ASSUME NEW d \in Nat, b \in Buffer(d) PROVE r \in Buffer(d)
  <2>1. DOMAIN b.ids = 1 .. c /\ DOMAIN b.ids = 1 .. d
    BY <1>1, <1>2 DEF Buffer
  <2>2. a \in [1 .. d -> Int]
    BY <2>1
  <2> QED BY <1>1, <1>2, <2>2 DEF Written, Buffer
<1> QED BY <1>2, BufferWritten

\* A step of the GPU keeps the invariant if what comes next finds what it needs.
LEMMA DeviceStep ==
  ASSUME PipelineInv, NEW kind, Does(kind), UNCHANGED <<staging, works, graph, asked>>,
         Buffers', Forwards', OutputsExact', static' \in [Counts -> [in : Arrays, out : Arrays]],
         NEW o, NEW x, NEW n, Acts(o, x, n),
         alive' => \A p : Linked(o, p) /\ p.count \in Counts /\ (p.do \notin {"fill", "take"} =>
                               p.buf = staging[Capacity(p.count)]) => Ready(p, x)'
  PROVE  PipelineInv'
<1>1. Tables /\ Chained /\ HeadReady /\ queue # <<>> /\ queue' = Tail(queue)
  BY DEF PipelineInv, Does
<1>2. /\ Chained'
      /\ queue' # <<>> => OpOK(queue'[1])
      /\ queue' # <<>> => Linked(queue[1], queue'[1])
      /\ queue' # <<>> /\ Continues => Served' = Served
  BY <1>1, Popped
<1>3. Tables'
  BY <1>1 DEF Tables, Worked, Graphs, Recorded, OpOf
<1>4. HeadReady'
  <2> SUFFICES ASSUME alive', queue' # <<>>, NEW p, NEW y, p = queue'[1], y = asked'[Served']
               PROVE  Ready(p, y)'
    BY DEF HeadReady, Ready
  <2>1. OpOK(p) /\ Linked(o, p)
    BY <1>2 DEF Acts
  <2>2. CASE Continues
    <3>1. y = x
      BY <1>2, <2>2 DEF Acts
    <3>2. p.count \in Counts /\ (p.do \notin {"fill", "take"} => p.buf = staging[Capacity(p.count)])
      BY <2>1 DEF OpOK
    <3> QED BY <2>1, <3>1, <3>2
  <2>3. CASE ~Continues
    BY <2>3 DEF Continues, Ready
  <2> QED BY <2>2, <2>3
<1> QED BY <1>2, <1>3, <1>4 DEF PipelineInv

LEMMA CopyIdsKept ==
  ASSUME PipelineInv, CopyIds
  PROVE  PipelineInv'
<1>1. /\ Does("ids") /\ UNCHANGED <<alive, staging, works, graph, static, asked, answer>>
      /\ bufs' = [bufs EXCEPT ![queue[1].buf].ids =
                    Prefix(bufs[queue[1].buf].ids, Input, queue[1].count)]
  BY HeadIs DEF CopyIds
<1> PICK o, x, n : Acts(o, x, n) /\ o.do = "ids" /\ OnBuffer(o, n)
  BY <1>1, HeadActs
<1>2. Input = x
  BY <1>1, HeadIs DEF Acts, Ready, Input, Served
<1> PICK c \in Nat :
      /\ c \in DOMAIN staging /\ o.buf = staging[c] /\ n \in Nat /\ n <= c
      /\ bufs[o.buf] \in Buffer(c) /\ bufs[o.buf].ids \in [1 .. c -> Int]
  BY OnBufferIs
<1> DEFINE a == Prefix(bufs[o.buf].ids, x, n)
<1>3. a \in [1 .. c -> Int] /\ \A i \in 1 .. n : a[i] = x[i]
  <2> DEFINE old == bufs[o.buf].ids
  <2>0. old \in [1 .. c -> Int]
    OBVIOUS
  <2>1. x \in [1 .. n -> Int]
    <3>1. x \in Seq(0 .. NumRows - 1) /\ Len(x) = n /\ NumRows \in Nat
      BY PipelineAssumption DEF Acts
    <3> QED BY <3>1
  <2>2. \A i \in 1 .. n : i \in DOMAIN x /\ x[i] \in Int
    BY <2>1
  <2> HIDE DEF old
  <2>3. c \in Nat /\ n \in Nat /\ n <= c
    OBVIOUS
  <2>4. Prefix(old, x, n) \in [1 .. c -> Int] /\ \A i \in 1 .. n : Prefix(old, x, n)[i] = x[i]
    BY <2>0, <2>2, <2>3 DEF Prefix
  <2> USE DEF old
  <2> QED BY <2>4
<1>4. bufs' = [bufs EXCEPT ![o.buf] = [bufs[o.buf] EXCEPT !.ids = a]]
  BY <1>1, <1>2 DEF Acts
<1> HIDE DEF a
<1> PICK b : b = bufs[staging[c]]
  OBVIOUS
<1> PICK r : r = [b EXCEPT !.ids = a]
  OBVIOUS
<1>5. bufs' = [bufs EXCEPT ![staging[c]] = r] /\ Written(r, b, a)
  BY <1>4 DEF Written
<1>6. Buffers /\ UNCHANGED <<alive, staging>> /\ b \in Buffer(c)
  BY <1>1 DEF PipelineInv, Tables
<1>7. Buffers' /\ bufs'[o.buf] = r
  BY <1>3, <1>5, <1>6, ArrayWritten
<1>8. r.ids = a
  BY <1>6 DEF Buffer
<1>9. Forwards' /\ OutputsExact' /\ static' \in [Counts -> [in : Arrays, out : Arrays]]
  BY <1>1 DEF PipelineInv, Tables, Forwards, Graphs, OutputsExact
<1>10. ASSUME NEW p, Linked(o, p), p.do \notin {"fill", "take"} => p.buf = staging[Capacity(p.count)]
      PROVE  Ready(p, x)'
  <2>1. p.do \notin {"rows", "gather", "take"} /\ ~(p.do = "ids" /\ p.fwd = 0)
    BY <1>10 DEF Linked
  <2>2. p.do = "lookup" => p.count = n /\ p.buf = o.buf
    BY <1>10 DEF Linked, Acts, OnBuffer
  <2>3. ASSUME p.do = "lookup" PROVE \A i \in 1 .. p.count : bufs'[p.buf].ids[i] = x[i]
    <3>1. p.count = n /\ p.buf = o.buf
      BY <2>2, <2>3
    <3>2. bufs'[p.buf].ids = a
      BY <1>7, <1>8, <3>1
    <3>3. \A i \in 1 .. n : a[i] = x[i]
      BY <1>3
    <3> QED BY <3>1, <3>2, <3>3
  <2> QED BY <2>1, <2>3 DEF Ready
<1> QED BY <1>1, <1>7, <1>9, <1>10, DeviceStep

LEMMA LookupKept ==
  ASSUME PipelineInv, Lookup \/ LookupAborts
  PROVE  PipelineInv'
<1>1. /\ Does("lookup") /\ UNCHANGED <<staging, works, graph, static, asked, answer>>
  BY DEF Lookup, LookupAborts
<1> PICK o, x, n : Acts(o, x, n) /\ o.do = "lookup" /\ OnBuffer(o, n)
  BY <1>1, HeadActs
<1>2. Forwards' /\ OutputsExact' /\ static' \in [Counts -> [in : Arrays, out : Arrays]]
  BY <1>1 DEF PipelineInv, Tables, Forwards, Graphs, OutputsExact
<1> PICK c \in Nat :
      /\ c \in DOMAIN staging /\ o.buf = staging[c] /\ n \in Nat /\ n <= c
      /\ bufs[o.buf] \in Buffer(c) /\ bufs[o.buf].ids \in [1 .. c -> Int]
      /\ bufs[o.buf].host \in [1 .. c -> Int] /\ \A i \in 1 .. n : i \in 1 .. c
  BY OnBufferIs
<1>3. CASE alive' = FALSE /\ UNCHANGED bufs
  <2>1. Buffers'
    BY <1>1, <1>3 DEF PipelineInv, Tables, Buffers
  <2> QED BY <1>1, <1>2, <1>3, <2>1, DeviceStep
<1>4. CASE UNCHANGED alive /\ bufs' = [bufs EXCEPT ![o.buf].host =
                                        Prefix(bufs[o.buf].host, Rows(bufs[o.buf].ids), n)]
  <2> DEFINE ids == bufs[o.buf].ids
  <2>2. \A i \in 1 .. n : i \in DOMAIN Rows(ids) /\ Rows(ids)[i] \in Int /\ Rows(ids)[i] = Row(x[i])
    <3>1. \A i \in 1 .. n : i \in 1 .. c /\ ids[i] = x[i]
      BY DEF Acts, Ready
    <3>2. \A i \in 1 .. c : Row(ids[i]) \in Int
      BY SMTT(30) DEF Row
    <3>3. \A i \in 1 .. c : i \in DOMAIN Rows(ids) /\ Rows(ids)[i] = Row(ids[i])
      BY DEF Rows
    <3> QED BY <3>1, <3>2, <3>3
  <2> DEFINE a == Prefix(bufs[o.buf].host, Rows(ids), n)
  <2>3. a \in [1 .. c -> Int] /\ \A i \in 1 .. n : a[i] = Row(x[i])
    <3> PICK host, rows : host = bufs[o.buf].host /\ rows = Rows(ids)
      OBVIOUS
    <3>1. a = Prefix(host, rows, n) /\ host \in [1 .. c -> Int] /\ n \in Nat /\ n <= c
      OBVIOUS
    <3>2. \A i \in 1 .. n : i \in DOMAIN rows /\ rows[i] \in Int /\ rows[i] = Row(x[i])
      BY <2>2
    <3> HIDE DEF a, ids
    <3>3. a \in [1 .. c -> Int] /\ \A i \in 1 .. n : a[i] = rows[i]
      BY <3>1, <3>2, SMTT(30) DEF Prefix
    <3> QED BY <3>2, <3>3
  <2>4. bufs' = [bufs EXCEPT ![o.buf] = [bufs[o.buf] EXCEPT !.host = a]]
    BY <1>4
  <2> HIDE DEF a
  <2> PICK b : b = bufs[staging[c]]
    OBVIOUS
  <2> PICK r : r = [b EXCEPT !.host = a]
    OBVIOUS
  <2>5. bufs' = [bufs EXCEPT ![staging[c]] = r] /\ Written(r, b, a)
    BY <2>4 DEF Written
  <2>6. Buffers /\ UNCHANGED <<alive, staging>> /\ b \in Buffer(c)
    BY <1>1, <1>4 DEF PipelineInv, Tables
  <2>7. Buffers' /\ bufs'[o.buf] = r
    BY <2>3, <2>5, <2>6, ArrayWritten
  <2>8. r.host = a
    BY <2>6 DEF Buffer
  <2>9. ASSUME NEW p, Linked(o, p), p.do \notin {"fill", "take"} => p.buf = staging[Capacity(p.count)]
        PROVE  Ready(p, x)'
    <3>1. p.do \notin {"lookup", "gather", "take"} /\ ~(p.do = "ids" /\ p.fwd = 0)
      BY <2>9 DEF Linked
    <3>2. p.do = "rows" => p.count = n /\ p.buf = o.buf
      BY <2>9 DEF Linked, Acts, OnBuffer
    <3>3. ASSUME p.do = "rows" PROVE \A i \in 1 .. p.count : bufs'[p.buf].host[i] = Row(x[i])
      BY <2>3, <2>7, <2>8, <3>2, <3>3, ZenonT(30)
    <3> QED BY <3>1, <3>3 DEF Ready
  <2> QED BY <1>1, <1>2, <2>7, <2>9, DeviceStep
<1>5. CASE Lookup
  <2> DEFINE work == works[WorkKey(queue[1].count)]
             good == \A i \in 1 .. work.count : bufs[work.buf].ids[i] \in 0 .. NumRows - 1
  <2>1. work = [buf |-> o.buf, count |-> n]
    BY DEF Acts, OnBuffer
  <2>2. IF good
          THEN /\ bufs' = [bufs EXCEPT ![work.buf].host =
                             Prefix(bufs[work.buf].host, Rows(bufs[work.buf].ids), work.count)]
               /\ UNCHANGED alive
          ELSE alive' = FALSE /\ UNCHANGED bufs
    BY <1>1, <1>5, HeadIs DEF Lookup
  <2>3. work.buf = o.buf /\ work.count = n
    BY <2>1
  <2> HIDE DEF work, good
  <2>4. \/ alive' = FALSE /\ UNCHANGED bufs
        \/ UNCHANGED alive /\ bufs' = [bufs EXCEPT ![o.buf].host =
                                         Prefix(bufs[o.buf].host, Rows(bufs[o.buf].ids), n)]
    BY <2>2, <2>3
  <2> QED BY <1>3, <1>4, <2>4
<1>6. CASE LookupAborts
  BY <1>3, <1>6 DEF LookupAborts
<1> QED BY <1>5, <1>6

LEMMA CopyRowsKept ==
  ASSUME PipelineInv, CopyRows
  PROVE  PipelineInv'
<1>1. /\ Does("rows") /\ UNCHANGED <<alive, staging, works, graph, static, asked, answer>>
      /\ bufs' = [bufs EXCEPT ![queue[1].buf].dev =
                    Prefix(bufs[queue[1].buf].dev, bufs[queue[1].buf].host, queue[1].count)]
  BY HeadIs DEF CopyRows
<1> PICK o, x, n : Acts(o, x, n) /\ o.do = "rows" /\ OnBuffer(o, n)
  BY <1>1, HeadActs
<1> DEFINE a == Prefix(bufs[o.buf].dev, bufs[o.buf].host, n)
<1> PICK c \in Nat :
      /\ c \in DOMAIN staging /\ o.buf = staging[c] /\ n \in Nat /\ n <= c
      /\ bufs[o.buf] \in Buffer(c) /\ bufs[o.buf].dev \in [1 .. c -> Int]
      /\ bufs[o.buf].host \in [1 .. c -> Int] /\ \A i \in 1 .. n : i \in 1 .. c
  BY OnBufferIs
<1>3. a \in [1 .. c -> Int] /\ \A i \in 1 .. n : a[i] = Row(x[i])
  <2> DEFINE host == bufs[o.buf].host
             dev == bufs[o.buf].dev
  <2>1. \A i \in 1 .. n : host[i] = Row(x[i])
    BY DEF Acts, Ready
  <2>2. \A i \in 1 .. n : i \in DOMAIN host /\ host[i] \in Int
    OBVIOUS
  <2>3. a = Prefix(dev, host, n) /\ dev \in [1 .. c -> Int] /\ n \in Nat /\ n <= c
    OBVIOUS
  <2> HIDE DEF a, host, dev
  <2>4. a \in [1 .. c -> Int] /\ \A i \in 1 .. n : a[i] = host[i]
    BY <2>2, <2>3 DEF Prefix
  <2> QED BY <2>1, <2>4
<1>4. bufs' = [bufs EXCEPT ![o.buf] = [bufs[o.buf] EXCEPT !.dev = a]]
  BY <1>1 DEF Acts
<1> HIDE DEF a
<1> PICK b : b = bufs[staging[c]]
  OBVIOUS
<1> PICK r : r = [b EXCEPT !.dev = a]
  OBVIOUS
<1>5. bufs' = [bufs EXCEPT ![staging[c]] = r] /\ Written(r, b, a)
  BY <1>4 DEF Written
<1>6. Buffers /\ UNCHANGED <<alive, staging>> /\ b \in Buffer(c)
  BY <1>1 DEF PipelineInv, Tables
<1>7. Buffers' /\ bufs'[o.buf] = r
  BY <1>3, <1>5, <1>6, ArrayWritten
<1>8. r.dev = a
  BY <1>6 DEF Buffer
<1>9. Forwards' /\ OutputsExact' /\ static' \in [Counts -> [in : Arrays, out : Arrays]]
  BY <1>1 DEF PipelineInv, Tables, Forwards, Graphs, OutputsExact
<1>10. ASSUME NEW p, Linked(o, p), p.do \notin {"fill", "take"} => p.buf = staging[Capacity(p.count)]
      PROVE  Ready(p, x)'
  <2>1. p.do \notin {"lookup", "rows", "take"} /\ ~(p.do = "ids" /\ p.fwd = 0)
    BY <1>10 DEF Linked
  <2>2. p.do = "gather" => p.count = n /\ p.buf = o.buf
    BY <1>10 DEF Linked, Acts, OnBuffer
  <2>3. ASSUME p.do = "gather" PROVE \A i \in 1 .. p.count : bufs'[p.buf].dev[i] = Row(x[i])
    BY <1>3, <1>7, <1>8, <2>2, <2>3, ZenonT(30)
  <2> QED BY <2>1, <2>3 DEF Ready
<1> QED BY <1>1, <1>7, <1>9, <1>10, DeviceStep

\* What the gather writes are the rows of the forward it works for.
LEMMA GatherWrites ==
  ASSUME NEW x \in Lists, NEW n, Len(x) = n, NEW dev, NEW c \in Nat, dev \in [1 .. c -> Int],
         n <= c, \A i \in 1 .. n : dev[i] = Row(x[i])
  PROVE  Prefix(Filled(n, Garbage), dev, n) = Rows(x)
<1>1. DOMAIN x = 1 .. n /\ n \in Nat
  BY ListIs
<1>2. Prefix(Filled(n, Garbage), dev, n) = [i \in 1 .. n |-> dev[i]]
  BY <1>1 DEF Prefix, Filled
<1>3. [i \in 1 .. n |-> dev[i]] = [i \in 1 .. n |-> Row(x[i])]
  OBVIOUS
<1> QED BY <1>1, <1>2, <1>3 DEF Rows

LEMMA GatherKept ==
  ASSUME PipelineInv, Gather
  PROVE  PipelineInv'
<1>1. Does("gather") /\ UNCHANGED <<alive, bufs, staging, works, graph, asked>>
  BY DEF Gather
<1> PICK o, x, n : Acts(o, x, n) /\ o.do = "gather" /\ OnBuffer(o, n)
  BY <1>1, HeadActs
<1>2. Prefix(Filled(n, Garbage), bufs[o.buf].dev, n) = Rows(x)
  <2> PICK c \in Nat : n <= c /\ bufs[o.buf].dev \in [1 .. c -> Int]
    BY OnBufferIs
  <2>1. \A i \in 1 .. n : bufs[o.buf].dev[i] = Row(x[i])
    BY DEF Acts, Ready
  <2>2. x \in Lists /\ Len(x) = n
    BY DEF Acts
  <2> QED BY <2>1, <2>2, GatherWrites
<1>3. /\ o.fwd = 0 => static' = [static EXCEPT ![n].out = Rows(x)] /\ UNCHANGED answer
      /\ o.fwd # 0 =>
           /\ answer' = [answer EXCEPT ![o.fwd] = [state |-> "done", rows |-> Rows(x)]]
           /\ UNCHANGED static
  <2>1. bufs[o.buf].arange
    BY OnBufferIs
  <2>2. Next1 = o /\ o.count = n
    BY <1>1, HeadIs DEF Acts
  <2> QED BY <1>2, <2>1, <2>2 DEF Gather, Answered
<1>4. Buffers' /\ Forwards /\ OutputsExact /\ static \in [Counts -> [in : Arrays, out : Arrays]]
  BY <1>1 DEF PipelineInv, Tables, Buffers, Graphs
<1>5. Rows(x) \in Arrays /\ n \in Counts
  BY RowsAre DEF Acts
<1>6. CASE o.fwd = 0
  <2>1. Forwards' /\ OutputsExact'
    BY <1>1, <1>3, <1>4, <1>6 DEF Forwards, OutputsExact
  <2>2. static' \in [Counts -> [in : Arrays, out : Arrays]] /\ static'[n].out = Rows(x)
    BY <1>3, <1>4, <1>5, <1>6
  <2>3. ASSUME NEW p, Linked(o, p) PROVE Ready(p, x)'
    <3>1. p.do \notin {"lookup", "rows", "gather"} /\ ~(p.do = "ids" /\ p.fwd = 0)
      BY <2>3 DEF Linked
    <3>2. p.do = "take" => p.count = n
      BY <2>3 DEF Linked, Acts
    <3> QED BY <2>2, <3>1, <3>2 DEF Ready
  <2> QED BY <1>1, <1>4, <2>1, <2>2, <2>3, DeviceStep
<1>7. CASE o.fwd # 0
  <2>1. o.fwd \in 1 .. Len(asked) /\ x = asked[o.fwd]
    BY <1>7 DEF Acts, Served
  <2>2. Forwards' /\ OutputsExact'
    BY <1>1, <1>3, <1>4, <1>7, <2>1, AnswerWritten
  <2>3. static' \in [Counts -> [in : Arrays, out : Arrays]]
    BY <1>3, <1>4, <1>7
  <2>4. ASSUME NEW p, Linked(o, p) PROVE Ready(p, x)'
    <3>1. p.do \notin {"lookup", "rows", "gather", "take"} /\ ~(p.do = "ids" /\ p.fwd = 0)
      BY <1>7, <2>4 DEF Linked
    <3> QED BY <3>1 DEF Ready
  <2> QED BY <1>1, <1>4, <2>2, <2>3, <2>4, DeviceStep
<1> QED BY <1>6, <1>7

LEMMA FillKept ==
  ASSUME PipelineInv, FillInput
  PROVE  PipelineInv'
<1>1. /\ Does("fill") /\ UNCHANGED <<alive, bufs, staging, works, graph, asked, answer>>
      /\ static' = [static EXCEPT ![queue[1].count].in = asked[queue[1].fwd]]
  BY HeadIs DEF FillInput
<1> PICK o, x, n : Acts(o, x, n) /\ o.do = "fill"
  BY <1>1, HeadActs
<1>2. static' = [static EXCEPT ![n].in = x] /\ n \in Counts /\ x \in Lists
  BY <1>1 DEF Acts, OpOK, Served
<1>3. Buffers' /\ Forwards' /\ OutputsExact' /\ static \in [Counts -> [in : Arrays, out : Arrays]]
  BY <1>1 DEF PipelineInv, Tables, Buffers, Graphs, Forwards, OutputsExact
<1>4. x \in Arrays
  BY <1>2, ListIs DEF Arrays
<1>5. static' \in [Counts -> [in : Arrays, out : Arrays]] /\ static'[n].in = x
  BY <1>2, <1>3, <1>4
<1>6. ASSUME NEW p, Linked(o, p) PROVE Ready(p, x)'
  <2>1. p.do \notin {"lookup", "rows", "gather", "take"}
    BY <1>6 DEF Linked
  <2>2. p.do = "ids" /\ p.fwd = 0 => p.count = n
    BY <1>6 DEF Linked, Acts
  <2> QED BY <1>5, <2>1, <2>2 DEF Ready
<1> QED BY <1>1, <1>3, <1>5, <1>6, DeviceStep

LEMMA TakeKept ==
  ASSUME PipelineInv, TakeOutput
  PROVE  PipelineInv'
<1>1. /\ Does("take") /\ UNCHANGED <<alive, bufs, staging, works, graph, static, asked>>
      /\ answer' = [answer EXCEPT ![queue[1].fwd] =
                      [state |-> "done", rows |-> static[queue[1].count].out]]
  BY HeadIs DEF TakeOutput, Answered
<1> PICK o, x, n : Acts(o, x, n) /\ o.do = "take"
  BY <1>1, HeadActs
<1>2. static[n].out = Rows(x) /\ o.fwd \in 1 .. Len(asked) /\ x = asked[o.fwd]
  BY DEF Acts, Ready, OpOK, Served
<1>3. answer' = [answer EXCEPT ![o.fwd] = [state |-> "done", rows |-> Rows(x)]]
  BY <1>1, <1>2 DEF Acts
<1>4. Buffers' /\ Forwards /\ OutputsExact /\ static' \in [Counts -> [in : Arrays, out : Arrays]]
  BY <1>1 DEF PipelineInv, Tables, Buffers, Graphs
<1>5. Forwards' /\ OutputsExact'
  BY <1>1, <1>2, <1>3, <1>4, AnswerWritten
<1>6. ASSUME NEW p, Linked(o, p) PROVE Ready(p, x)'
  <2>1. p.do \notin {"lookup", "rows", "gather", "take"} /\ ~(p.do = "ids" /\ p.fwd = 0)
    BY <1>6 DEF Linked
  <2> QED BY <2>1 DEF Ready
<1> QED BY <1>1, <1>4, <1>5, <1>6, DeviceStep

(***************************************************************************)
(* The theorems                                                            *)
(***************************************************************************)
LEMMA PipelineInit == Init => PipelineInv
<1> SUFFICES ASSUME Init PROVE PipelineInv
  OBVIOUS
<1>1. Buffers /\ Worked
  BY DEF Init, Buffers, Worked
<1>2. Graphs
  <2>1. static \in [Counts -> [in : Arrays, out : Arrays]]
    <3>1. \A n \in Counts : Filled(n, 0) \in Arrays /\ Filled(n, Garbage) \in Arrays
      <4> TAKE n \in Counts
      <4>1. n \in Nat /\ Garbage \in Int
        BY CapacityFits DEF Garbage
      <4>2. Filled(n, 0) \in [1 .. n -> Int] /\ Filled(n, Garbage) \in [1 .. n -> Int]
        BY <4>1, FilledIs
      <4> QED BY <4>1, <4>2 DEF Arrays
    <3> QED BY <3>1 DEF Init
  <2> QED BY <2>1 DEF Init, Graphs
<1>3. Forwards /\ OutputsExact
  BY DEF Init, Forwards, OutputsExact
<1>4. Chained /\ HeadReady
  BY DEF Init, Chained, HeadReady
<1> QED BY <1>1, <1>2, <1>3, <1>4 DEF PipelineInv, Tables

LEMMA PipelineNext == PipelineInv /\ [Next]_vars => PipelineInv'
<1> SUFFICES ASSUME PipelineInv, [Next]_vars PROVE PipelineInv'
  OBVIOUS
<1>1. CASE UNCHANGED vars
  <2>1. Tables'
    BY <1>1 DEF vars, PipelineInv, Tables, Buffers, Worked, Graphs, Forwards, Recorded, OpOf
  <2>2. Chained' /\ HeadReady' /\ OutputsExact'
    BY <1>1 DEF vars, PipelineInv, Chained, HeadReady, OutputsExact, OpOK, Ready, Served
  <2> QED BY <2>1, <2>2 DEF PipelineInv
<1> QED
  BY <1>1, NothingKept, ForwardKept, ReplayKept, CaptureKept, CopyIdsKept, LookupKept,
     CopyRowsKept, GatherKept, FillKept, TakeKept DEF Next

LEMMA PipelineHolds == Spec => []PipelineInv
BY PipelineInit, PipelineNext, PTL DEF Spec

\* An operation in the queue or in a graph is about a count, on its count's buffer.
LEMMA PlannedFits ==
  ASSUME PipelineInv, NEW o \in Planned
  PROVE  /\ o.count \in Counts /\ o.fwd \in 0 .. Len(asked)
         /\ o.do \notin {"fill", "take"} =>
              /\ Len(bufs[o.buf].ids) = Capacity(o.count)
              /\ works[WorkKey(o.count)] = [buf |-> o.buf, count |-> o.count]
<1>1. Tables /\ Chained /\ Len(asked) \in Nat
  BY DEF PipelineInv, Tables, Forwards
<1>2. /\ o.count \in Counts /\ o.fwd \in 0 .. Len(asked)
      /\ o.do \notin {"fill", "take"} => o.count \in DOMAIN works /\ o.buf = staging[Capacity(o.count)]
  <2>1. CASE o \in Ops(queue)
    <3>1. PICK i \in DOMAIN queue : o = queue[i]
      BY <2>1 DEF Ops
    <3>2. i \in 1 .. Len(queue)
      BY <1>1, <3>1 DEF Chained
    <3> QED BY <1>1, <3>1, <3>2 DEF Chained, OpOK
  <2>2. ASSUME NEW n \in Counts, o \in Ops(graph[n])
        PROVE  o.count = n /\ o.fwd = 0 /\ n \in DOMAIN works /\ o.buf = staging[Capacity(n)]
    <3>1. PICK i \in DOMAIN graph[n] : o = graph[n][i]
      BY <2>2 DEF Ops
    <3>2. graph[n] # <<>>
      BY <3>1
    <3>3. n \in DOMAIN works /\ graph[n] = Recorded(n)
      BY <1>1, <3>2 DEF Tables, Graphs
    <3>4. i = 1 \/ i = 2 \/ i = 3 \/ i = 4
      BY <3>1, <3>3 DEF Recorded
    <3> QED BY <3>1, <3>3, <3>4 DEF Recorded, OpOf
  <2> QED BY <1>1, <2>1, <2>2 DEF Planned
<1>3. o.do \notin {"fill", "take"} =>
        /\ Capacity(o.count) \in DOMAIN staging /\ Capacity(o.count) \in Nat
        /\ bufs[o.buf] \in Buffer(Capacity(o.count))
        /\ works[o.count] = [buf |-> o.buf, count |-> o.count]
  BY <1>1, <1>2, CapacityFits DEF Tables, Worked, Buffers
<1>4. ASSUME NEW c \in Nat, NEW a \in [1 .. c -> Int]
      PROVE  Len(a) = c
  BY <1>4
<1>5. o.do \notin {"fill", "take"} => Len(bufs[o.buf].ids) = Capacity(o.count)
  <2>1. \A c \in Nat : bufs[o.buf] \in Buffer(c) => bufs[o.buf].ids \in [1 .. c -> Int]
    BY DEF Buffer
  <2> QED BY <1>3, <1>4, <2>1
<1> QED BY <1>2, <1>3, <1>5 DEF WorkKey

\* Every capacity's buffer has that capacity and every Work is the one of its count,
\* for any sizes and order of the batches (engram_backend.py:101-116).
THEOREM TypeCorrect == Spec => []TypeOK
<1>1. PipelineInv => TypeOK
  <2> SUFFICES ASSUME PipelineInv PROVE TypeOK
    OBVIOUS
  <2>1. alive \in BOOLEAN /\ Len(asked) = Len(answer)
    BY DEF PipelineInv, Tables, Buffers, Forwards
  <2>2. \A f \in DOMAIN answer : answer[f].state \in {"pending", "done", "raised"}
    <3>1. answer \in Seq([state : States, rows : Arrays])
      BY DEF PipelineInv, Tables, Forwards
    <3> TAKE f \in DOMAIN answer
    <3>2. answer[f] \in [state : States, rows : Arrays]
      <4> PICK S : S = [state : States, rows : Arrays]
        OBVIOUS
      <4>1. answer \in Seq(S) /\ f \in 1 .. Len(answer)
        BY <3>1
      <4> QED BY <4>1, ElementOfSeq
    <3> QED BY <3>2 DEF States
  <2>3. \A c \in DOMAIN staging : DOMAIN bufs[staging[c]].ids = 1 .. c
    BY DEF PipelineInv, Tables, Buffers, Buffer
  <2>4. \A n \in DOMAIN works : works[n] = [buf |-> staging[Capacity(n)], count |-> n]
    BY DEF PipelineInv, Tables, Worked
  <2> QED BY <2>1, <2>2, <2>3, <2>4, PlannedFits DEF TypeOK
<1> QED BY <1>1, PipelineHolds, PTL

\* Every forward gets exactly the rows of its own ids, for any mixture of eager
\* forwards, failed launches, captures and replays over the shared buffers
\* (engram_backend.py:101-126).
THEOREM OutputsAreExact == Spec => []OutputsExact
<1>1. PipelineInv => OutputsExact
  BY DEF PipelineInv
<1> QED BY <1>1, PipelineHolds, PTL

\* No copy and no lookup, enqueued or captured, runs over its buffers
\* (engram_backend.py:101, 115-125).
THEOREM BuffersSuffice == Spec => []NoOverrun
<1>1. PipelineInv => NoOverrun
  <2> SUFFICES ASSUME PipelineInv, NEW o \in Planned, o.do \notin {"fill", "take"}
               PROVE  /\ o.count <= Len(bufs[o.buf].ids)
                      /\ works[WorkKey(o.count)].count
                           <= Len(bufs[works[WorkKey(o.count)].buf].ids)
    BY DEF NoOverrun
  <2>1. /\ Len(bufs[o.buf].ids) = Capacity(o.count) /\ o.count \in Counts
        /\ works[WorkKey(o.count)] = [buf |-> o.buf, count |-> o.count]
    BY PlannedFits
  <2> QED BY <2>1, CapacityFits
<1> QED BY <1>1, PipelineHolds, PTL
===============================================================================
