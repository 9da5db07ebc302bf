---------------------------- MODULE PageSplitProofs ----------------------------
(***************************************************************************)
(* Proofs about PageSplit for any layers, pools, page sizes, indices and   *)
(* graphs: the kernels of a call stay inside its buffers, a captured graph *)
(* keeps its buffers, and attention reads its layer's pool.                *)
(***************************************************************************)
EXTENDS PageSplit, TLAPS

(***************************************************************************)
(* Where a token is                                                        *)
(***************************************************************************)
\* A page of d * r tokens falls into r pages of d; pages and sub-pages are numbered
\* without gaps and without clashes.
LEMMA SubPageIndex ==
  ASSUME NEW r \in Nat \ {0}, NEW n \in Nat, NEW p \in 0 .. n - 1, NEW j \in 0 .. r - 1
  PROVE  p * r + j \in 0 .. n * r - 1
<1>1. p * r + r <= n * r
  <2>1. (p + 1) * r <= n * r
    OBVIOUS
  <2>2. (p + 1) * r = p * r + r
    OBVIOUS
  <2>3. QED
    BY <2>1, <2>2
<1>2. p * r \in Nat /\ n * r \in Nat
  OBVIOUS
<1>3. QED
  BY <1>1, <1>2

LEMMA SubPageUnique ==
  ASSUME NEW r \in Nat \ {0}, NEW p \in Nat, NEW q \in Nat, NEW j \in 0 .. r - 1,
         NEW k \in 0 .. r - 1, p * r + j = q * r + k
  PROVE  p = q /\ j = k
<1>1. ~(p < q)
  <2>1. p < q => (p + 1) * r <= q * r
    OBVIOUS
  <2>2. (p + 1) * r = p * r + r
    OBVIOUS
  <2>3. QED
    BY <2>1, <2>2
<1>2. ~(q < p)
  <2>1. q < p => (q + 1) * r <= p * r
    OBVIOUS
  <2>2. (q + 1) * r = q * r + r
    OBVIOUS
  <2>3. QED
    BY <2>1, <2>2
<1>3. QED
  BY <1>1, <1>2

LEMMA DivMod ==
  ASSUME NEW n \in Nat, NEW d \in Nat \ {0}
  PROVE  n \div d \in Nat /\ n % d \in 0 .. d - 1 /\ n = (n \div d) * d + (n % d)
OBVIOUS

LEMMA DivModUnique ==
  ASSUME NEW d \in Nat \ {0}, NEW q \in Nat, NEW r \in 0 .. d - 1
  PROVE  (q * d + r) \div d = q /\ (q * d + r) % d = r
OBVIOUS

\* The token at t is in page t \div (d * r), sub-page (t % (d * r)) \div d of it.
LEMMA TokenIndex ==
  ASSUME NEW t \in Nat, NEW d \in Nat \ {0}, NEW r \in Nat \ {0}
  PROVE  LET p == t \div (d * r)  j == (t % (d * r)) \div d  k == t % d
         IN /\ p \in Nat /\ j \in 0 .. r - 1 /\ k \in 0 .. d - 1
            /\ t \div d = p * r + j
            /\ t % (d * r) = j * d + k
<1> DEFINE m == d * r
           p == t \div m
           u == t % m
           j == u \div d
           k == u % d
<1>1. m \in Nat \ {0}
  OBVIOUS
<1> HIDE DEF m
<1>2. p \in Nat /\ u \in 0 .. m - 1 /\ t = p * m + u
  BY <1>1, DivMod
<1> HIDE DEF p, u
<1>3. u \in Nat
  BY <1>1, <1>2
<1>4. j \in Nat /\ k \in 0 .. d - 1 /\ u = j * d + k
  BY <1>3, DivMod
<1> HIDE DEF j, k
<1>5. j < r
  <2>1. j >= r => j * d >= r * d
    BY <1>4
  <2>2. m = r * d
    BY DEF m
  <2>3. QED
    BY <1>2, <1>4, <2>1, <2>2
<1>6. t = (p * r + j) * d + k
  <2>1. p * m = (p * r) * d
    BY <1>2 DEF m
  <2>2. p * r \in Nat
    BY <1>2
  <2>3. (p * r + j) * d = (p * r) * d + j * d
    BY <1>4, <2>2
  <2>4. QED
    BY <1>2, <1>4, <2>1, <2>2, <2>3
<1>7. p * r + j \in Nat
  BY <1>2, <1>4
<1>8. t \div d = p * r + j /\ t % d = k
  BY <1>4, <1>6, <1>7, DivModUnique
<1>9. QED
  BY <1>2, <1>4, <1>5, <1>8 DEF m, p, u, j

\* The mark kernel has a program for every index.
LEMMA BlockOf ==
  ASSUME NEW n \in Nat, NEW i \in 1 .. n, NEW b \in Nat \ {0}
  PROVE  (i - 1) \div b \in 0 .. ((n + b - 1) \div b) - 1
<1> DEFINE a == i - 1
           c == n + b - 1
<1>1. a \in Nat /\ c \in Nat /\ c >= a + b
  OBVIOUS
<1> HIDE DEF a, c
<1> DEFINE q == a \div b
           k == c \div b
<1>2. q \in Nat /\ a % b \in 0 .. b - 1 /\ a = q * b + (a % b)
  BY <1>1, DivMod
<1>3. k \in Nat /\ c % b \in 0 .. b - 1 /\ c = k * b + (c % b)
  BY <1>1, DivMod
<1> HIDE DEF q, k
<1>4. (q + 1) * b = q * b + b /\ (k + 1) * b = k * b + b
  BY <1>2, <1>3
<1>5. (k + 1) * b > (q + 1) * b
  BY <1>1, <1>2, <1>3, <1>4
<1>6. k + 1 > q + 1
  BY <1>2, <1>3, <1>5
<1>7. QED
  BY <1>2, <1>3, <1>6 DEF q, k, a, c

\* A token of the pool is in one of its pages.
LEMMA PageOf ==
  ASSUME NEW n \in Nat, NEW d \in Nat \ {0}, NEW t \in 0 .. n * d - 1
  PROVE  t \div d \in 0 .. n - 1
<1> DEFINE q == t \div d
           r == t % d
<1>1. n * d \in Nat /\ t \in Nat
  OBVIOUS
<1>2. q \in Nat /\ r \in 0 .. d - 1 /\ t = q * d + r
  BY <1>1, DivMod
<1> HIDE DEF q, r
<1>3. q * d < n * d
  BY <1>1, <1>2
<1>4. q < n
  BY <1>2, <1>3
<1>5. QED
  BY <1>2, <1>4 DEF q

(***************************************************************************)
(* Buffers that only grow                                                  *)
(***************************************************************************)
Cells == [layer : Layers \cup {"none"}, source : Sources \cup {"none"}, page : Int,
          lane : Int, write : Int]
Rows == [0 .. Lanes - 1 -> Cells]
Bufs == UNION {[0 .. n - 1 -> Rows] : n \in Nat}
Masks == UNION {[0 .. n - 1 -> {0, 1}] : n \in Nat}

\* Buffers, masks and pools have their shapes.
Stores ==
  /\ mem \in [Sources -> Seq(Bufs)] /\ masks \in [Sources -> Seq(Masks)]
  /\ DOMAIN ver = Layers
  /\ \A l \in Layers : DOMAIN ver[l] = Sources
  /\ \A l \in Layers, s \in Sources :
       DOMAIN ver[l][s] = 0 .. Pages[l][s] - 1
         /\ \A p \in 0 .. Pages[l][s] - 1 : ver[l][s][p] \in Int

\* What a layer has once been called with is held; a graph has what is kept.
Kept ==
  /\ called \subseteq Layers /\ graph \in [Layers -> [buf : Nat, mask : Nat, count : Nat]]
  /\ \A l \in called : /\ Holds(mem["primary"], DstPages(l, "primary"))
                       /\ Holds(masks["primary"], Pages[l]["primary"])
  /\ \A l \in Layers : graph[l] # NoGraph =>
       /\ called = Layers /\ graph[l].count > 0
       /\ graph[l].buf = Len(mem["primary"]) /\ graph[l].mask = Len(masks["primary"])

LEMMA Sizes ==
  ASSUME NEW l \in Layers, NEW s \in Sources
  PROVE  /\ Pages[l][s] \in Nat \ {0} /\ SrcPbs[l][s] \in Nat \ {0} /\ DstPbs \in Nat \ {0}
         /\ Ratio(l, s) \in Nat \ {0} /\ SrcPbs[l][s] = DstPbs * Ratio(l, s)
         /\ DstPages(l, s) = Pages[l][s] * Ratio(l, s) /\ DstPages(l, s) \in Nat \ {0}
<1>1. /\ Pages[l][s] \in Nat \ {0} /\ SrcPbs[l][s] \in Nat /\ DstPbs \in Nat \ {0}
      /\ SrcPbs[l][s] > DstPbs /\ SrcPbs[l][s] % DstPbs = 0
  BY SplitAssumption
<1>2. ASSUME NEW a \in Nat, NEW d \in Nat \ {0}, a > d, a % d = 0
      PROVE  a \div d \in Nat \ {0} /\ a = d * (a \div d)
  <2>1. a \div d \in Nat /\ a = (a \div d) * d + (a % d)
    BY DivMod
  <2>2. QED
    BY <1>2, <2>1
<1>3. Ratio(l, s) \in Nat \ {0} /\ SrcPbs[l][s] = DstPbs * Ratio(l, s)
  BY <1>1, <1>2 DEF Ratio
<1>4. \A a, b \in Nat \ {0} : a * b \in Nat \ {0}
  OBVIOUS
<1>5. QED
  BY <1>1, <1>3, <1>4 DEF DstPages

\* A list that is extended when its last element is too short only ever holds more.
LEMMA Grows ==
  ASSUME NEW S, \A f \in S : \E m \in Nat : DOMAIN f = 0 .. m - 1,
         NEW q \in Seq(S), NEW n \in Nat, NEW f \in S, DOMAIN f = 0 .. n - 1, ~Holds(q, n)
  PROVE  /\ Append(q, f) \in Seq(S) /\ Holds(Append(q, f), n)
         /\ \A m \in Nat : Holds(q, m) => Holds(Append(q, f), m)
<1>1. /\ Append(q, f) \in Seq(S) /\ Len(Append(q, f)) = Len(q) + 1 /\ Append(q, f) # <<>>
      /\ Append(q, f)[Len(q) + 1] = f
  <2>1. Append(q, f) \in Seq(S)
    OBVIOUS
  <2>2. Len(Append(q, f)) = Len(q) + 1 /\ Len(q) \in Nat
    OBVIOUS
  <2>3. Append(q, f)[Len(q) + 1] = f
    OBVIOUS
  <2>4. QED
    BY <2>1, <2>2, <2>3
<1>2. Holds(Append(q, f), n)
  BY <1>1 DEF Holds
<1>3. ASSUME NEW m \in Nat, Holds(q, m)
      PROVE  Holds(Append(q, f), m)
  <2>1. q[Len(q)] \in S /\ 0 .. m - 1 \subseteq DOMAIN q[Len(q)]
    BY <1>3 DEF Holds
  <2>2. PICK k \in Nat : DOMAIN q[Len(q)] = 0 .. k - 1
    BY <2>1
  <2>3. k < n
    BY <1>3, <2>2 DEF Holds
  <2>4. m <= k
    <3>1. m > 0 => m - 1 \in 0 .. m - 1
      OBVIOUS
    <3>2. QED
      BY <2>1, <2>2, <3>1
  <2>5. QED
    BY <1>1, <2>3, <2>4 DEF Holds
<1>4. QED
  BY <1>1, <1>2, <1>3

LEMMA MaxOne ==
  ASSUME NEW n \in Int
  PROVE  Max({n}) = n
BY DEF Max

LEMMA FreshType ==
  ASSUME NEW n \in Nat
  PROVE  Fresh(n) \in Bufs /\ DOMAIN Fresh(n) = 0 .. n - 1
<1>1. Garbage \in Cells
  BY DEF Garbage, Cells
<1>2. Fresh(n) \in [0 .. n - 1 -> Rows]
  BY <1>1 DEF Fresh, Rows
<1>3. QED
  BY <1>2 DEF Bufs

\* With a tag of its own, a source grows its buffer for itself only.
LEMMA CallBuffers ==
  ASSUME Stores, NEW l \in Layers, NEW x \in Lists[l], Call(l, x), NEW t \in Sources
  PROVE  /\ mem'[t] \in Seq(Bufs) /\ masks'[t] \in Seq(Masks)
         /\ \A m \in Nat : Holds(mem[t], m) => Holds(mem'[t], m)
         /\ \A m \in Nat : Holds(masks[t], m) => Holds(masks'[t], m)
         /\ t \in DOMAIN x => Holds(mem'[t], DstPages(l, t))
         /\ t \in DOMAIN x /\ x[t] # <<>> => Holds(masks'[t], Pages[l][t])
         /\ Holds(mem[t], DstPages(l, t)) => mem'[t] = mem[t]
         /\ Holds(masks[t], Pages[l][t]) => masks'[t] = masks[t]
<1> DEFINE n == DstPages(l, t)
           k == Pages[l][t]
           zeros == [p \in 0 .. k - 1 |-> 0]
<1>1. n \in Nat /\ k \in Nat
  BY Sizes
<1>2. t \in DOMAIN x => Tagged(x, t) = {t}
  BY DEF Tagged, Tag
<1>3. t \notin DOMAIN x => Tagged(x, t) = {}
  BY DEF Tagged, Tag
<1>4. mem'[t] = IF t \notin DOMAIN x \/ Holds(mem[t], n) THEN mem[t]
                  ELSE Append(mem[t], Fresh(n))
  <2>1. mem'[t] = IF \A s \in Tagged(x, t) : Holds(mem[t], DstPages(l, s)) THEN mem[t]
                    ELSE Append(mem[t], Fresh(Max({DstPages(l, s) : s \in Tagged(x, t)})))
    BY DEF Call
  <2>2. t \in DOMAIN x => {DstPages(l, s) : s \in Tagged(x, t)} = {n}
    BY <1>2
  <2>3. QED
    BY <1>1, <1>2, <1>3, <2>1, <2>2, MaxOne
<1>5. masks'[t] = IF t \notin DOMAIN x \/ x[t] = <<>> \/ Holds(masks[t], k) THEN masks[t]
                    ELSE Append(masks[t], zeros)
  <2>1. masks'[t] =
          IF \A s \in Tagged(x, t) : x[s] = <<>> \/ Holds(masks[t], Pages[l][s]) THEN masks[t]
            ELSE Append(masks[t], [p \in 0 .. Max({Pages[l][s] : s \in Tagged(x, t)}) - 1 |-> 0])
    BY DEF Call
  <2>2. t \in DOMAIN x => Max({Pages[l][s] : s \in Tagged(x, t)}) = k
    <3>1. t \in DOMAIN x => {Pages[l][s] : s \in Tagged(x, t)} = {k}
      BY <1>2
    <3>2. Max({k}) = k
      BY <1>1, MaxOne
    <3>3. QED
      BY <3>1, <3>2, Zenon
  <2>3. CASE t \in DOMAIN x
    <3>1. (\A s \in Tagged(x, t) : x[s] = <<>> \/ Holds(masks[t], Pages[l][s]))
            <=> (x[t] = <<>> \/ Holds(masks[t], k))
      BY <1>2, <2>3
    <3>2. QED
      BY <2>1, <2>2, <2>3, <3>1
  <2>4. CASE t \notin DOMAIN x
    BY <1>3, <2>1, <2>4
  <2>5. QED
    BY <2>3, <2>4
<1>6. mem[t] \in Seq(Bufs) /\ masks[t] \in Seq(Masks)
  BY DEF Stores
<1>7. Fresh(n) \in Bufs /\ DOMAIN Fresh(n) = 0 .. n - 1
  BY <1>1, FreshType
<1>8. zeros \in Masks /\ DOMAIN zeros = 0 .. k - 1
  BY <1>1 DEF Masks
<1>9. /\ \A f \in Bufs : \E m \in Nat : DOMAIN f = 0 .. m - 1
      /\ \A f \in Masks : \E m \in Nat : DOMAIN f = 0 .. m - 1
  BY DEF Bufs, Masks
<1> HIDE DEF n, k, zeros
<1>10. /\ mem'[t] \in Seq(Bufs) /\ \A m \in Nat : Holds(mem[t], m) => Holds(mem'[t], m)
       /\ t \in DOMAIN x => Holds(mem'[t], n)
  <2>1. CASE t \notin DOMAIN x \/ Holds(mem[t], n)
    BY <1>4, <1>6, <2>1
  <2>2. CASE t \in DOMAIN x /\ ~Holds(mem[t], n)
    <3>1. mem'[t] = Append(mem[t], Fresh(n))
      BY <1>4, <2>2
    <3> DEFINE q == mem[t]
               f == Fresh(n)
    <3>2. q \in Seq(Bufs) /\ f \in Bufs /\ DOMAIN f = 0 .. n - 1 /\ ~Holds(q, n)
      BY <1>6, <1>7, <2>2
    <3> HIDE DEF q, f
    <3>3. /\ Append(q, f) \in Seq(Bufs) /\ Holds(Append(q, f), n)
          /\ \A m \in Nat : Holds(q, m) => Holds(Append(q, f), m)
      BY <1>1, <1>9, <3>2, Grows
    <3>4. QED
      BY <3>1, <3>3 DEF q, f
  <2>3. QED
    BY <2>1, <2>2
<1>11. /\ masks'[t] \in Seq(Masks) /\ \A m \in Nat : Holds(masks[t], m) => Holds(masks'[t], m)
       /\ t \in DOMAIN x /\ x[t] # <<>> => Holds(masks'[t], k)
  <2>1. CASE t \notin DOMAIN x \/ x[t] = <<>> \/ Holds(masks[t], k)
    BY <1>5, <1>6, <2>1
  <2>2. CASE t \in DOMAIN x /\ x[t] # <<>> /\ ~Holds(masks[t], k)
    <3>1. masks'[t] = Append(masks[t], zeros)
      BY <1>5, <2>2
    <3> DEFINE q == masks[t]
    <3>2. q \in Seq(Masks) /\ zeros \in Masks /\ DOMAIN zeros = 0 .. k - 1 /\ ~Holds(q, k)
      BY <1>6, <1>8, <2>2
    <3> HIDE DEF q
    <3>3. /\ Append(q, zeros) \in Seq(Masks) /\ Holds(Append(q, zeros), k)
          /\ \A m \in Nat : Holds(q, m) => Holds(Append(q, zeros), m)
      BY <1>1, <1>9, <3>2, Grows
    <3>4. QED
      BY <3>1, <3>3 DEF q
  <2>3. QED
    BY <2>1, <2>2
<1>12. QED
  BY <1>4, <1>5, <1>10, <1>11 DEF n, k

(***************************************************************************)
(* The inductive invariant                                                 *)
(***************************************************************************)
\* The call under way has indices of its layer, and buffers and masks that are there
\* and long enough.
CallFits ==
  /\ cur.layer \in Layers /\ src \in Sources
  /\ pc \in {"idle", "zero", "mark", "split", "attend"}
  /\ cur.lists \in Lists[cur.layer] \cup {<<>>} /\ calls \in 0 .. MaxCalls
  /\ pc # "idle" =>
       /\ cur.lists \in Lists[cur.layer] /\ src \in DOMAIN cur.lists
       /\ \A s \in DOMAIN cur.lists :
            /\ cur.bufs[s] \in 1 .. Len(mem[s])
            /\ 0 .. DstPages(cur.layer, s) - 1 \subseteq DOMAIN mem[s][cur.bufs[s]]
            /\ cur.lists[s] # <<>> =>
                 /\ cur.masks[s] \in 1 .. Len(masks[s])
                 /\ 0 .. Pages[cur.layer][s] - 1 \subseteq DOMAIN masks[s][cur.masks[s]]

\* Sub-page j of page p of source s is where attention looks for it.
Copied(s, p, j) ==
  LET row == mem[s][cur.bufs[s]][p * Ratio(cur.layer, s) + j]
      l == cur.layer
  IN /\ \A o \in 0 .. DstPbs * Stride - 1 : row[o] = Lane(l, s, p, j * DstPbs * Stride + o)
     /\ \A o \in 0 .. DstPbs * ScaleStride - 1 :
          row[DstPbs * Stride + o]
            = Lane(l, s, p, SrcPbs[l][s] * Stride + j * DstPbs * ScaleStride + o)

Wanted(s) ==
  {cur.lists[s][i] \div SrcPbs[cur.layer][s] :
     i \in {j \in DOMAIN cur.lists[s] : cur.lists[s][j] >= 0}}
Ready(s) ==
  \A q \in Programs(cur.layer, s) :
    cur.lists[s] = <<>> \/ q[1] \in Wanted(s) => Copied(s, q[1], q[2])

Mask == masks[src][cur.masks[src]]

\* What the programs of a kernel that have run have done, and what the kernels
\* before it have.
Phase ==
  /\ pc \in {"zero", "mark"} => List # <<>>
  /\ pc = "mark" =>
       /\ todo \subseteq 0 .. Blocks(Len(List)) - 1
       /\ \A b \in (0 .. Blocks(Len(List)) - 1) \ todo : \A p \in MarkedBy(b) : Mask[p] = 1
  /\ pc = "split" =>
       /\ todo \subseteq Programs(cur.layer, src)
       /\ List # <<>> => \A p \in Wanted(src) : Mask[p] = 1
       /\ \A q \in Programs(cur.layer, src) \ todo :
            List = <<>> \/ Mask[q[1]] # 0 => Copied(src, q[1], q[2])
  /\ pc # "idle" /\ src = "extra" => Ready("primary")
  /\ pc = "attend" => Ready(src) /\ (src = "primary" => "extra" \notin DOMAIN cur.lists)

IInv == Stores /\ Kept /\ CallFits /\ Phase

LEMMA ListFacts ==
  ASSUME NEW l \in Layers, NEW x \in Lists[l]
  PROVE  /\ DOMAIN x \in {{"primary"}, Sources} /\ DOMAIN x \subseteq Sources
         /\ "primary" \in DOMAIN x
         /\ \A s \in DOMAIN x : x[s] \in Seq(-1 .. (Pages[l][s] * SrcPbs[l][s]) - 1)
BY SplitAssumption DEF Sources

LEMMA InitIInv == Init => IInv
<1> SUFFICES ASSUME Init
             PROVE  IInv
  OBVIOUS
<1>1. Stores
  BY SplitAssumption DEF Init, Stores, Sources
<1>2. Kept
  BY DEF Init, Kept, NoGraph
<1>3. CallFits
  BY SplitAssumption DEF Init, CallFits, Sources
<1>4. Phase
  BY DEF Init, Phase
<1>5. QED
  BY <1>1, <1>2, <1>3, <1>4 DEF IInv

LEMMA StartPhase ==
  ASSUME NEW l \in Layers, NEW x \in Lists[l], NEW bufs, NEW ms, Start(l, x, bufs, ms)
  PROVE  /\ Phase' /\ cur' = [layer |-> l, lists |-> x, bufs |-> bufs, masks |-> ms]
         /\ src' = "primary" /\ pc' \in {"zero", "split"} /\ pc = "idle"
         /\ calls < MaxCalls /\ calls' = calls + 1
<1>1. /\ cur' = [layer |-> l, lists |-> x, bufs |-> bufs, masks |-> ms] /\ src' = "primary"
      /\ pc = "idle" /\ calls < MaxCalls /\ calls' = calls + 1
      /\ IF x["primary"] = <<>> THEN pc' = "split" /\ todo' = Programs(l, "primary")
           ELSE pc' = "zero"
  BY DEF Start, Source, Kernel
<1>2. Phase'
  BY <1>1 DEF Phase, List, Programs, Ratio
<1>3. QED
  BY <1>1, <1>2

\* A buffer that is the one kept and holds enough fits a call.
LEMMA Newest ==
  ASSUME NEW S, NEW q \in Seq(S), NEW n \in Nat, Holds(q, n)
  PROVE  Len(q) \in 1 .. Len(q) /\ 0 .. n - 1 \subseteq DOMAIN q[Len(q)]
BY DEF Holds

LEMMA CallStep ==
  ASSUME IInv, NEW l \in Layers, NEW x \in Lists[l], Call(l, x)
  PROVE  IInv'
<1> DEFINE bufs == [s \in DOMAIN x |-> Len(mem'[Tag(s)])]
           ms == [s \in DOMAIN x |-> Len(masks'[Tag(s)])]
<1>1. /\ Start(l, x, bufs, ms)
      /\ called' = IF x["primary"] = <<>> THEN called ELSE called \cup {l}
      /\ UNCHANGED <<ver, graph>>
      /\ mem' = [t \in Sources |-> mem'[t]] /\ masks' = [t \in Sources |-> masks'[t]]
  BY DEF Call
<1>2. \A t \in Sources :
        /\ mem'[t] \in Seq(Bufs) /\ masks'[t] \in Seq(Masks)
        /\ \A m \in Nat : Holds(mem[t], m) => Holds(mem'[t], m)
        /\ \A m \in Nat : Holds(masks[t], m) => Holds(masks'[t], m)
        /\ t \in DOMAIN x => Holds(mem'[t], DstPages(l, t))
        /\ t \in DOMAIN x /\ x[t] # <<>> => Holds(masks'[t], Pages[l][t])
        /\ Holds(mem[t], DstPages(l, t)) => mem'[t] = mem[t]
        /\ Holds(masks[t], Pages[l][t]) => masks'[t] = masks[t]
  BY CallBuffers DEF IInv
<1>3. /\ Phase' /\ src' = "primary" /\ pc' \in {"zero", "split"}
      /\ cur' = [layer |-> l, lists |-> x, bufs |-> bufs, masks |-> ms]
      /\ calls < MaxCalls /\ calls' = calls + 1
  <2> HIDE DEF bufs, ms
  <2>1. QED
    BY <1>1, StartPhase
<1>4. Stores'
  <2>1. mem' \in [Sources -> Seq(Bufs)] /\ masks' \in [Sources -> Seq(Masks)]
    BY <1>1, <1>2
  <2>2. QED
    BY <1>1, <2>1 DEF IInv, Stores, Bufs, Masks, Rows, Cells
<1>5. CallFits'
  <2>1. ASSUME NEW s \in DOMAIN x
        PROVE  /\ Len(mem'[s]) \in 1 .. Len(mem'[s])
               /\ 0 .. DstPages(l, s) - 1 \subseteq DOMAIN mem'[s][Len(mem'[s])]
               /\ x[s] # <<>> =>
                    /\ Len(masks'[s]) \in 1 .. Len(masks'[s])
                    /\ 0 .. Pages[l][s] - 1 \subseteq DOMAIN masks'[s][Len(masks'[s])]
    <3>1. s \in Sources
      BY <2>1, ListFacts
    <3>2. DstPages(l, s) \in Nat /\ Pages[l][s] \in Nat
      BY <3>1, Sizes
    <3>3. QED
      BY <1>2, <3>1, <3>2, Newest
  <2>2. /\ cur'.layer = l /\ cur'.lists = x
        /\ \A s \in DOMAIN x : cur'.bufs[s] = Len(mem'[s]) /\ cur'.masks[s] = Len(masks'[s])
    BY <1>3 DEF Tag
  <2>3. \A s \in Sources : DstPages(l, s)' = DstPages(l, s)
    BY DEF DstPages, Ratio
  <2>4. "primary" \in DOMAIN x
    BY ListFacts
  <2>5. calls' \in 0 .. MaxCalls
    BY <1>3, SplitAssumption DEF IInv, CallFits
  <2>6. QED
    BY <1>3, <2>1, <2>2, <2>4, <2>5 DEF CallFits, Sources, DstPages, Ratio
<1>6. Kept'
  <2>1. called' \subseteq Layers /\ graph' \in [Layers -> [buf : Nat, mask : Nat, count : Nat]]
    BY <1>1 DEF IInv, Kept
  <2>2. \A k \in called' : /\ Holds(mem'["primary"], DstPages(k, "primary"))
                           /\ Holds(masks'["primary"], Pages[k]["primary"])
    <3>1. "primary" \in Sources /\ "primary" \in DOMAIN x
      BY ListFacts DEF Sources
    <3>2. \A k \in Layers : DstPages(k, "primary") \in Nat /\ Pages[k]["primary"] \in Nat
      BY <3>1, Sizes
    <3>3. ASSUME NEW k \in called
          PROVE  /\ Holds(mem'["primary"], DstPages(k, "primary"))
                 /\ Holds(masks'["primary"], Pages[k]["primary"])
      BY <1>2, <3>1, <3>2 DEF IInv, Kept
    <3>4. x["primary"] # <<>> => /\ Holds(mem'["primary"], DstPages(l, "primary"))
                                 /\ Holds(masks'["primary"], Pages[l]["primary"])
      BY <1>2, <3>1
    <3>5. QED
      BY <1>1, <3>3, <3>4
  <2>3. ASSUME NEW k \in Layers, graph[k] # NoGraph
        PROVE  /\ called' = Layers /\ graph[k].count > 0
               /\ graph[k].buf = Len(mem'["primary"]) /\ graph[k].mask = Len(masks'["primary"])
    <3>1. /\ called = Layers /\ graph[k].count > 0
          /\ graph[k].buf = Len(mem["primary"]) /\ graph[k].mask = Len(masks["primary"])
      BY <2>3 DEF IInv, Kept
    <3>2. mem'["primary"] = mem["primary"] /\ masks'["primary"] = masks["primary"]
      BY <1>2, <3>1 DEF IInv, Kept, Sources
    <3>3. QED
      BY <1>1, <3>1, <3>2
  <2>4. QED
    BY <1>1, <2>1, <2>2, <2>3 DEF Kept, Holds, DstPages, Ratio, NoGraph
<1>7. QED
  BY <1>3, <1>4, <1>5, <1>6 DEF IInv

LEMMA ReplayStep ==
  ASSUME IInv, NEW l \in Layers, NEW x \in Lists[l], Replay(l, x)
  PROVE  IInv'
<1> DEFINE bufs == [s \in DOMAIN x |-> graph[l].buf]
           ms == [s \in DOMAIN x |-> graph[l].mask]
<1>1. /\ Start(l, x, bufs, ms) /\ graph[l] # NoGraph /\ DOMAIN x = {"primary"}
      /\ Len(x["primary"]) = graph[l].count /\ UNCHANGED <<ver, mem, masks, called, graph>>
  BY DEF Replay
<1>2. /\ Phase' /\ src' = "primary" /\ pc' \in {"zero", "split"}
      /\ cur' = [layer |-> l, lists |-> x, bufs |-> bufs, masks |-> ms]
      /\ calls < MaxCalls /\ calls' = calls + 1
  <2> HIDE DEF bufs, ms
  <2>1. QED
    BY <1>1, StartPhase
<1>3. Stores' /\ Kept'
  BY <1>1 DEF IInv, Stores, Kept, Holds, DstPages, Ratio, NoGraph, Bufs, Masks, Rows, Cells
<1>4. /\ mem["primary"] \in Seq(Bufs) /\ masks["primary"] \in Seq(Masks)
      /\ DstPages(l, "primary") \in Nat /\ Pages[l]["primary"] \in Nat
  BY Sizes DEF IInv, Stores, Sources
<1>5. /\ graph[l].buf = Len(mem["primary"]) /\ Holds(mem["primary"], DstPages(l, "primary"))
      /\ graph[l].mask = Len(masks["primary"]) /\ Holds(masks["primary"], Pages[l]["primary"])
  BY <1>1 DEF IInv, Kept
<1>6. /\ graph[l].buf \in 1 .. Len(mem["primary"])
      /\ 0 .. DstPages(l, "primary") - 1 \subseteq DOMAIN mem["primary"][graph[l].buf]
      /\ graph[l].mask \in 1 .. Len(masks["primary"])
      /\ 0 .. Pages[l]["primary"] - 1 \subseteq DOMAIN masks["primary"][graph[l].mask]
  BY <1>4, <1>5, Newest
<1>7. calls' \in 0 .. MaxCalls
  BY <1>2, SplitAssumption DEF IInv, CallFits
<1>8. CallFits'
  BY <1>1, <1>2, <1>6, <1>7 DEF CallFits, Sources, DstPages, Ratio
<1>9. QED
  BY <1>2, <1>3, <1>8 DEF IInv

LEMMA CaptureStep ==
  ASSUME IInv, NEW n \in Nat, Capture(n)
  PROVE  IInv'
<1>1. /\ pc = "idle" /\ called = Layers /\ n > 0
      /\ graph' = [l \in Layers |-> [buf |-> Len(mem["primary"]), mask |-> Len(masks["primary"]),
                                     count |-> n]]
      /\ UNCHANGED <<ver, mem, masks, called, pc, cur, src, todo, calls>>
  BY DEF Capture
<1>2. Len(mem["primary"]) \in Nat /\ Len(masks["primary"]) \in Nat
  BY DEF IInv, Stores, Sources
<1>3. Kept'
  BY <1>1, <1>2 DEF IInv, Kept, Holds, DstPages, Ratio
<1>4. Stores' /\ CallFits' /\ Phase'
  BY <1>1 DEF IInv, Stores, CallFits, Phase, Bufs, Masks, Rows, Cells
<1>5. QED
  BY <1>3, <1>4 DEF IInv

LEMMA WritePoolStep ==
  ASSUME IInv, NEW l \in Layers, NEW s \in Sources, NEW p \in 0 .. Pages[l][s] - 1,
         WritePool(l, s, p)
  PROVE  IInv'
<1>1. /\ pc = "idle" /\ ver' = [ver EXCEPT ![l][s][p] = @ + 1]
      /\ UNCHANGED <<mem, masks, called, graph, pc, cur, src, todo, calls>>
  BY DEF WritePool
<1>2. Stores'
  <2>1. ver' = [ver EXCEPT ![l] = [ver[l] EXCEPT ![s] = [ver[l][s] EXCEPT ![p] = ver[l][s][p] + 1]]]
    BY <1>1
  <2>2. DOMAIN ver' = Layers /\ \A k \in Layers : DOMAIN ver'[k] = Sources
    BY <2>1 DEF IInv, Stores
  <2>3. \A k \in Layers, t \in Sources :
          ver'[k][t] = IF k = l /\ t = s THEN [ver[l][s] EXCEPT ![p] = ver[l][s][p] + 1]
                         ELSE ver[k][t]
    BY <2>1 DEF IInv, Stores
  <2>4. DOMAIN ver[l][s] = 0 .. Pages[l][s] - 1 /\ \A q \in DOMAIN ver[l][s] : ver[l][s][q] \in Int
    BY DEF IInv, Stores
  <2>5. \A k \in Layers, t \in Sources :
          DOMAIN ver'[k][t] = 0 .. Pages[k][t] - 1
            /\ \A q \in 0 .. Pages[k][t] - 1 : ver'[k][t][q] \in Int
    <3>1. DOMAIN [ver[l][s] EXCEPT ![p] = ver[l][s][p] + 1] = 0 .. Pages[l][s] - 1
      BY <2>4
    <3>2. \A q \in 0 .. Pages[l][s] - 1 : [ver[l][s] EXCEPT ![p] = ver[l][s][p] + 1][q] \in Int
      BY <2>4
    <3> DEFINE f == [ver[l][s] EXCEPT ![p] = ver[l][s][p] + 1]
    <3>3. ASSUME NEW k \in Layers, NEW t \in Sources
          PROVE  DOMAIN ver'[k][t] = 0 .. Pages[k][t] - 1
                   /\ \A q \in 0 .. Pages[k][t] - 1 : ver'[k][t][q] \in Int
      <4> HIDE DEF f
      <4>1. CASE k = l /\ t = s
        <5>1. ver'[k][t] = f
          BY <2>3, <4>1 DEF f
        <5>2. QED
          BY <3>1, <3>2, <4>1, <5>1 DEF f
      <4>2. CASE ~(k = l /\ t = s)
        <5>1. ver'[k][t] = ver[k][t]
          BY <2>3, <4>2
        <5>2. QED
          BY <5>1 DEF IInv, Stores
      <4>3. QED
        BY <4>1, <4>2
    <3>4. QED
      BY <3>3
  <2>6. QED
    BY <1>1, <2>2, <2>5 DEF IInv, Stores, Bufs, Masks, Rows, Cells
<1>3. Kept' /\ CallFits' /\ Phase'
  BY <1>1 DEF IInv, Kept, CallFits, Phase, Holds, DstPages, Ratio, NoGraph
<1>4. QED
  BY <1>2, <1>3 DEF IInv

(***************************************************************************)
(* The kernels                                                             *)
(***************************************************************************)
\* A kernel changes what buffers and masks hold, not how many or how long they are.
SameShape(q, r) == Len(r) = Len(q) /\ \A g \in 1 .. Len(q) : DOMAIN r[g] = DOMAIN q[g]

LEMMA Update ==
  ASSUME NEW S, NEW q \in Seq(S), NEW g \in 1 .. Len(q), NEW e \in S, DOMAIN e = DOMAIN q[g]
  PROVE  [q EXCEPT ![g] = e] \in Seq(S) /\ SameShape(q, [q EXCEPT ![g] = e])
BY DEF SameShape

LEMMA Frame ==
  ASSUME IInv, mem' \in [Sources -> Seq(Bufs)], masks' \in [Sources -> Seq(Masks)],
         \A t \in Sources : SameShape(mem[t], mem'[t]) /\ SameShape(masks[t], masks'[t]),
         UNCHANGED <<ver, called, graph, cur, src, calls>>, pc # "idle",
         pc' \in {"mark", "split"}
  PROVE  Stores' /\ Kept' /\ CallFits'
<1>1. Stores'
  BY DEF IInv, Stores, Bufs, Masks, Rows, Cells
<1>2. \A t \in Sources, n \in Nat : /\ Holds(mem[t], n) => Holds(mem'[t], n)
                                    /\ Holds(masks[t], n) => Holds(masks'[t], n)
  <2>1. ASSUME NEW S, NEW q \in Seq(S), NEW r \in Seq(S), SameShape(q, r), NEW n \in Nat,
               Holds(q, n)
        PROVE  Holds(r, n)
    <3>1. Len(q) \in 1 .. Len(q) /\ Len(r) = Len(q)
      BY <2>1 DEF Holds, SameShape
    <3>2. DOMAIN r[Len(r)] = DOMAIN q[Len(q)] /\ r # <<>>
      BY <2>1, <3>1 DEF SameShape
    <3>3. QED
      BY <2>1, <3>2 DEF Holds
  <2>2. \A t \in Sources : /\ mem[t] \in Seq(Bufs) /\ mem'[t] \in Seq(Bufs)
                           /\ masks[t] \in Seq(Masks) /\ masks'[t] \in Seq(Masks)
    BY DEF IInv, Stores
  <2>3. QED
    BY <2>1, <2>2
<1>3. Kept'
  <2>1. ASSUME NEW l \in called
        PROVE  /\ Holds(mem'["primary"], DstPages(l, "primary"))
               /\ Holds(masks'["primary"], Pages[l]["primary"])
    <3>1. /\ "primary" \in Sources /\ DstPages(l, "primary") \in Nat
          /\ Pages[l]["primary"] \in Nat
      BY Sizes DEF IInv, Kept, Sources
    <3>2. QED
      BY <1>2, <3>1 DEF IInv, Kept
  <2>2. Len(mem'["primary"]) = Len(mem["primary"]) /\ Len(masks'["primary"]) = Len(masks["primary"])
    BY DEF SameShape, Sources
  <2>3. QED
    BY <2>1, <2>2 DEF IInv, Kept, Holds, DstPages, Ratio, NoGraph
<1>4. CallFits'
  <2>1. DOMAIN cur.lists \subseteq Sources
    BY ListFacts DEF IInv, CallFits
  <2>2. ASSUME NEW s \in DOMAIN cur.lists
        PROVE  /\ cur.bufs[s] \in 1 .. Len(mem'[s])
               /\ 0 .. DstPages(cur.layer, s) - 1 \subseteq DOMAIN mem'[s][cur.bufs[s]]
               /\ cur.lists[s] # <<>> =>
                    /\ cur.masks[s] \in 1 .. Len(masks'[s])
                    /\ 0 .. Pages[cur.layer][s] - 1 \subseteq DOMAIN masks'[s][cur.masks[s]]
    BY <2>1 DEF IInv, CallFits, SameShape
  <2>3. QED
    BY <2>2 DEF IInv, CallFits, DstPages, Ratio
<1>5. QED
  BY <1>1, <1>3, <1>4

LEMMA WantedRange ==
  ASSUME IInv, pc # "idle"
  PROVE  /\ Wanted(src) \subseteq 0 .. Pages[cur.layer][src] - 1
         /\ \A b : MarkedBy(b) \subseteq 0 .. Pages[cur.layer][src] - 1
<1> DEFINE n == Pages[cur.layer][src]
           d == SrcPbs[cur.layer][src]
<1>1. cur.layer \in Layers /\ src \in Sources /\ List \in Seq(-1 .. (n * d) - 1)
  BY ListFacts DEF IInv, CallFits, List
<1>2. n \in Nat /\ d \in Nat \ {0}
  BY <1>1, Sizes
<1> HIDE DEF n, d
<1>3. ASSUME NEW i \in DOMAIN List, List[i] >= 0
      PROVE  List[i] \div d \in 0 .. n - 1
  <2>1. List[i] \in 0 .. (n * d) - 1
    BY <1>1, <1>2, <1>3
  <2>2. QED
    BY <1>2, <2>1, PageOf
<1>4. QED
  BY <1>3 DEF Wanted, MarkedBy, List, SrcPage, n, d

LEMMA MaskWrite ==
  ASSUME IInv, pc # "idle", List # <<>>, NEW e \in Masks, DOMAIN e = DOMAIN Mask,
         masks' = [masks EXCEPT ![src][cur.masks[src]] = e], UNCHANGED mem
  PROVE  /\ masks' \in [Sources -> Seq(Masks)] /\ mem' \in [Sources -> Seq(Bufs)]
         /\ \A t \in Sources : SameShape(mem[t], mem'[t]) /\ SameShape(masks[t], masks'[t])
         /\ masks'[src][cur.masks[src]] = e
<1>1. src \in Sources /\ masks[src] \in Seq(Masks) /\ cur.masks[src] \in 1 .. Len(masks[src])
  BY DEF IInv, Stores, CallFits, List
<1> DEFINE q == masks[src]
           r == [q EXCEPT ![cur.masks[src]] = e]
<1>2. r \in Seq(Masks) /\ SameShape(q, r)
  BY <1>1, Update DEF Mask
<1>3. masks' = [masks EXCEPT ![src] = r] /\ r[cur.masks[src]] = e
  BY <1>1
<1> HIDE DEF r
<1>4. masks' \in [Sources -> Seq(Masks)] /\ masks'[src] = r
  BY <1>1, <1>2, <1>3 DEF IInv, Stores
<1>5. \A t \in Sources : t # src => masks'[t] = masks[t]
  BY <1>3 DEF IInv, Stores
<1>6. \A t \in Sources : SameShape(masks[t], masks'[t]) /\ SameShape(mem[t], mem'[t])
  BY <1>2, <1>4, <1>5 DEF SameShape
<1>7. QED
  BY <1>3, <1>4, <1>6 DEF IInv, Stores

LEMMA MaskType ==
  ASSUME IInv, pc # "idle", List # <<>>
  PROVE  /\ 0 .. Pages[cur.layer][src] - 1 \subseteq DOMAIN Mask
         /\ \E n \in Nat : DOMAIN Mask = 0 .. n - 1
         /\ \A p \in DOMAIN Mask : Mask[p] \in {0, 1}
<1>1. /\ masks[src] \in Seq(Masks) /\ cur.masks[src] \in 1 .. Len(masks[src])
      /\ 0 .. Pages[cur.layer][src] - 1 \subseteq DOMAIN Mask
  BY DEF IInv, Stores, CallFits, List, Mask
<1>2. Mask \in Masks
  BY <1>1 DEF Mask
<1>3. QED
  BY <1>1, <1>2 DEF Masks

\* What has been copied stays while its buffer does.
LEMMA CopiedFrame ==
  ASSUME UNCHANGED <<ver, cur>>, NEW s, mem'[s] = mem[s], NEW p, NEW j
  PROVE  Copied(s, p, j)' <=> Copied(s, p, j)
BY DEF Copied, Lane, Ratio

LEMMA ReadyFrame ==
  ASSUME UNCHANGED <<ver, cur>>, NEW s, mem'[s] = mem[s], Ready(s)
  PROVE  Ready(s)'
<1>1. Wanted(s)' = Wanted(s)
  BY DEF Wanted
<1>2. Programs(cur.layer, s)' = Programs(cur.layer, s)
  BY DEF Programs, Ratio
<1>3. ASSUME NEW q \in Programs(cur.layer, s), cur.lists[s] = <<>> \/ q[1] \in Wanted(s)
      PROVE  Copied(s, q[1], q[2])'
  BY <1>3, CopiedFrame DEF Ready
<1>4. QED
  BY <1>1, <1>2, <1>3 DEF Ready

LEMMA ZeroStep ==
  ASSUME IInv, Zero
  PROVE  IInv'
<1> DEFINE e == [p \in DOMAIN Mask |-> IF p < Pages[cur.layer][src] THEN 0 ELSE Mask[p]]
<1>1. /\ pc = "zero" /\ masks' = [masks EXCEPT ![src][cur.masks[src]] = e]
      /\ pc' = "mark" /\ todo' = 0 .. Blocks(Len(List)) - 1
      /\ UNCHANGED <<ver, mem, called, graph, cur, src, calls>>
  BY DEF Zero, Tag, Kernel, Mask
<1>2. List # <<>>
  BY <1>1 DEF IInv, Phase
<1>3. e \in Masks /\ DOMAIN e = DOMAIN Mask
  BY <1>1, <1>2, MaskType DEF Masks
<1> HIDE DEF e
<1>4. Stores' /\ Kept' /\ CallFits'
  BY <1>1, <1>2, <1>3, MaskWrite, Frame
<1>5. Phase'
  <2>1. src = "extra" => Ready("primary")'
    BY <1>1, ReadyFrame DEF IInv, Phase
  <2>2. QED
    BY <1>1, <1>2, <2>1 DEF Phase, List
<1>6. QED
  BY <1>4, <1>5 DEF IInv

LEMMA MarkStep ==
  ASSUME IInv, NEW b \in todo, Mark(b)
  PROVE  IInv'
<1> DEFINE e == [p \in DOMAIN Mask |-> IF p \in MarkedBy(b) THEN 1 ELSE Mask[p]]
<1>1. /\ pc = "mark" /\ masks' = [masks EXCEPT ![src][cur.masks[src]] = e]
      /\ todo' = todo \ {b}
      /\ UNCHANGED <<ver, mem, called, graph, pc, cur, src, calls>>
  BY DEF Mark, Tag, Mask
<1>2. List # <<>>
  BY <1>1 DEF IInv, Phase
<1>3. e \in Masks /\ DOMAIN e = DOMAIN Mask
  BY <1>1, <1>2, MaskType DEF Masks
<1>4. \A p \in DOMAIN Mask : /\ p \in MarkedBy(b) => e[p] = 1
                             /\ Mask[p] = 1 => e[p] = 1
  OBVIOUS
<1> HIDE DEF e
<1>5. Stores' /\ Kept' /\ CallFits' /\ masks'[src][cur.masks[src]] = e
  BY <1>1, <1>2, <1>3, MaskWrite, Frame
<1>6. ASSUME NEW k \in (0 .. Blocks(Len(List)) - 1) \ todo', NEW p \in MarkedBy(k)
      PROVE  e[p] = 1
  <2>1. p \in DOMAIN Mask
    BY <1>1, <1>2, WantedRange, MaskType
  <2>2. CASE k = b
    BY <1>4, <2>1, <2>2
  <2>3. CASE k # b
    BY <1>1, <1>4, <2>1, <2>3 DEF IInv, Phase
  <2>4. QED
    BY <2>2, <2>3
<1>7. Phase'
  <2>1. List' = List /\ Mask' = e /\ \A k : MarkedBy(k)' = MarkedBy(k)
    BY <1>1, <1>5 DEF List, Mask, MarkedBy, SrcPage
  <2>2. src = "extra" => Ready("primary")'
    BY <1>1, ReadyFrame DEF IInv, Phase
  <2>3. todo' \subseteq 0 .. Blocks(Len(List)) - 1
    BY <1>1 DEF IInv, Phase
  <2>4. QED
    BY <1>1, <1>2, <1>6, <2>1, <2>2, <2>3 DEF Phase
<1>8. QED
  BY <1>5, <1>7 DEF IInv

\* Data and scales of a page's tokens fit into its lanes.
LEMMA RoundUp ==
  ASSUME NEW n \in Nat, NEW d \in Nat \ {0}
  PROVE  ((n + d - 1) \div d) * d >= n
<1> DEFINE c == n + d - 1
<1>1. c \in Nat
  OBVIOUS
<1> HIDE DEF c
<1>2. c = (c \div d) * d + (c % d) /\ c % d \in 0 .. d - 1
  BY <1>1, DivMod
<1>3. (c \div d) * d >= c - (d - 1)
  BY <1>1, <1>2
<1>4. QED
  BY <1>3 DEF c

LEMMA LanesFit ==
  /\ Lanes \in Nat /\ DstPbs * Stride \in Nat /\ DstPbs * ScaleStride \in Nat
  /\ DstPbs * Stride + DstPbs * ScaleStride <= Lanes
<1>1. DstPbs \in Nat \ {0} /\ Stride \in Nat \ {0} /\ ScaleStride \in Nat \ {0}
  BY SplitAssumption
<1> DEFINE n == DstPbs * (Stride + ScaleStride)
<1>2. n \in Nat /\ n = DstPbs * Stride + DstPbs * ScaleStride
  BY <1>1
<1>3. DstPbs * Stride \in Nat /\ DstPbs * ScaleStride \in Nat
  BY <1>1
<1>4. Lanes = ((n + Stride - 1) \div Stride) * Stride
  BY DEF Lanes
<1> HIDE DEF n
<1>5. Lanes >= n
  BY <1>1, <1>2, <1>4, RoundUp
<1>6. Lanes \in Nat
  <2>1. n + Stride - 1 \in Nat
    BY <1>1, <1>2
  <2>2. (n + Stride - 1) \div Stride \in Nat
    BY <1>1, <2>1, DivMod
  <2>3. QED
    BY <1>1, <1>4, <2>2
<1>7. QED
  BY <1>2, <1>3, <1>5, <1>6

LEMMA SubPageType ==
  ASSUME IInv, pc = "split", NEW p \in 0 .. Pages[cur.layer][src] - 1, NEW j \in Nat,
         NEW old \in Rows
  PROVE  SubPage(p, j, old) \in Rows
<1>1. cur.layer \in Layers /\ src \in Sources /\ p \in Int
  BY Sizes DEF IInv, CallFits
<1>2. ASSUME NEW x \in Int
      PROVE  Lane(cur.layer, src, p, x) \in Cells
  BY <1>1 DEF IInv, Stores, Lane, Cells
<1>3. \A a, b, c \in Nat : a * b \in Nat /\ a * b * c \in Nat
  OBVIOUS
<1>4. /\ DstPbs \in Nat /\ Stride \in Nat /\ ScaleStride \in Nat
      /\ SrcPbs[cur.layer][src] \in Nat
  BY <1>1, Sizes, SplitAssumption
<1>5. /\ j * DstPbs * Stride \in Nat /\ j * DstPbs * ScaleStride \in Nat
      /\ SrcScaleOff \in Nat /\ DstScaleOff \in Nat
  BY <1>3, <1>4 DEF SrcScaleOff, SrcPage, DstScaleOff
<1>6. ASSUME NEW o \in 0 .. Lanes - 1
      PROVE  /\ Lane(cur.layer, src, p, j * DstPbs * Stride + o) \in Cells
             /\ Lane(cur.layer, src, p, SrcScaleOff + j * DstPbs * ScaleStride + o - DstScaleOff)
                  \in Cells
             /\ old[o] \in Cells
  <2>1. o \in Int
    BY LanesFit
  <2>2. /\ j * DstPbs * Stride + o \in Int
        /\ SrcScaleOff + j * DstPbs * ScaleStride + o - DstScaleOff \in Int
    BY <1>5, <2>1
  <2>3. QED
    BY <1>2, <2>2 DEF Rows
<1>7. QED
  BY <1>6 DEF SubPage, Rows

\* What the copy of a sub-page leaves in the row it writes.
LEMMA SubPageHolds ==
  ASSUME NEW p, NEW j \in Nat, NEW old, SrcPage \in Nat
  PROVE  LET row == SubPage(p, j, old)
         IN /\ \A o \in 0 .. DstPbs * Stride - 1 :
                 row[o] = Lane(cur.layer, src, p, j * DstPbs * Stride + o)
            /\ \A o \in 0 .. DstPbs * ScaleStride - 1 :
                 row[DstPbs * Stride + o]
                   = Lane(cur.layer, src, p,
                          SrcPage * Stride + j * DstPbs * ScaleStride + o)
<1> DEFINE a == DstPbs * Stride
           c == DstPbs * ScaleStride
           e == SrcScaleOff + j * DstPbs * ScaleStride
           row == SubPage(p, j, old)
<1>1. a \in Nat /\ c \in Nat /\ a + c <= Lanes /\ Lanes \in Nat
  BY LanesFit
<1>2. row = [o \in 0 .. Lanes - 1 |->
               IF o < a THEN Lane(cur.layer, src, p, j * DstPbs * Stride + o)
               ELSE IF o < a + c THEN Lane(cur.layer, src, p, e + o - a) ELSE old[o]]
  BY DEF SubPage, DstScaleOff
<1>3. e \in Int
  <2>1. \A x, y, z \in Nat : x * y * z \in Int /\ x * y \in Int
    OBVIOUS
  <2>2. Stride \in Nat /\ DstPbs \in Nat /\ ScaleStride \in Nat
    BY SplitAssumption
  <2>3. SrcScaleOff \in Int /\ j * DstPbs * ScaleStride \in Int
    BY <2>1, <2>2 DEF SrcScaleOff
  <2>4. QED
    BY <2>3
<1> HIDE DEF a, c, e, row
<1>4. \A o \in 0 .. a - 1 : row[o] = Lane(cur.layer, src, p, j * DstPbs * Stride + o)
  BY <1>1, <1>2
<1>5. ASSUME NEW o \in 0 .. c - 1
      PROVE  row[a + o] = Lane(cur.layer, src, p, e + o)
  <2>1. row[a + o] = Lane(cur.layer, src, p, e + (a + o) - a)
    BY <1>1, <1>2
  <2>2. e + (a + o) - a = e + o
    BY <1>1, <1>3
  <2>3. QED
    BY <2>1, <2>2
<1>6. QED
  BY <1>4, <1>5 DEF a, c, e, row, SrcScaleOff

LEMMA SplitStep ==
  ASSUME IInv, NEW q \in todo, Split(q[1], q[2])
  PROVE  IInv'
<1> DEFINE p == q[1]
           j == q[2]
           n == Pages[cur.layer][src]
           r == Ratio(cur.layer, src)
           g == cur.bufs[src]
           buf == mem[src][g]
           row == SubPage(p, j, buf[p * r + j])
           skip == List # <<>> /\ Mask[p] = 0
<1>1. /\ pc = "split" /\ pc' = "split" /\ todo' = todo \ {q}
      /\ UNCHANGED <<ver, masks, called, graph, pc, cur, src, calls>>
      /\ mem' = IF skip THEN mem ELSE [mem EXCEPT ![src][g][p * r + j] = row]
      /\ q \in Programs(cur.layer, src)
  <2>1. pc = "split" /\ q \in Programs(cur.layer, src)
    BY DEF Split, IInv, Phase
  <2>2. q = <<p, j>>
    BY <2>1 DEF Programs
  <2>3. QED
    BY <2>1, <2>2 DEF Split, Tag, Mask
<1>2. /\ cur.layer \in Layers /\ src \in Sources /\ src \in DOMAIN cur.lists
      /\ mem[src] \in Seq(Bufs) /\ g \in 1 .. Len(mem[src])
      /\ 0 .. DstPages(cur.layer, src) - 1 \subseteq DOMAIN buf
  BY <1>1 DEF IInv, CallFits, Stores
<1>3. n \in Nat \ {0} /\ r \in Nat \ {0} /\ DstPages(cur.layer, src) = n * r
  BY <1>2, Sizes
<1>4. p \in 0 .. n - 1 /\ j \in 0 .. r - 1 /\ q = <<p, j>>
  BY <1>1 DEF Programs
<1> HIDE DEF n, r, p, j
<1>5. p * r + j \in 0 .. n * r - 1
  BY <1>3, <1>4, SubPageIndex
<1>6. buf \in Bufs /\ p * r + j \in DOMAIN buf
  BY <1>2, <1>3, <1>5
<1>7. buf[p * r + j] \in Rows
  BY <1>6 DEF Bufs
<1>8. row \in Rows
  <2>1. j \in Nat /\ p \in 0 .. Pages[cur.layer][src] - 1
    BY <1>3, <1>4 DEF n
  <2>2. QED
    BY <1>1, <1>7, <2>1, SubPageType
<1> DEFINE new == [buf EXCEPT ![p * r + j] = row]
<1>9. new \in Bufs /\ DOMAIN new = DOMAIN buf
  <2> HIDE DEF row
  <2>1. PICK k \in Nat : buf \in [0 .. k - 1 -> Rows]
    BY <1>6 DEF Bufs
  <2>2. new \in [0 .. k - 1 -> Rows]
    BY <1>6, <1>8, <2>1
  <2>3. QED
    BY <2>1, <2>2 DEF Bufs
<1> DEFINE seq == [mem[src] EXCEPT ![g] = new]
<1>10. /\ seq \in Seq(Bufs) /\ SameShape(mem[src], seq) /\ seq[g] = new
       /\ new[p * r + j] = row
       /\ \A d \in DOMAIN buf : d # p * r + j => new[d] = buf[d]
  <2>1. new[p * r + j] = row /\ \A d \in DOMAIN buf : d # p * r + j => new[d] = buf[d]
    BY <1>6 DEF Bufs
  <2> HIDE DEF new
  <2>2. seq \in Seq(Bufs) /\ SameShape(mem[src], seq) /\ seq[g] = new
    BY <1>2, <1>9, Update
  <2>3. QED
    BY <2>1, <2>2
<1>11. ~skip => mem' = [mem EXCEPT ![src] = seq]
  BY <1>1
<1> HIDE DEF row, new, seq, buf
<1>12. /\ mem' \in [Sources -> Seq(Bufs)] /\ \A t \in Sources : SameShape(mem[t], mem'[t])
       /\ \A t \in Sources : t # src => mem'[t] = mem[t]
       /\ ~skip => mem'[src] = seq
       /\ skip => mem'[src] = mem[src]
  BY <1>1, <1>2, <1>10, <1>11 DEF IInv, Stores, SameShape
<1>13. Stores' /\ Kept' /\ CallFits'
  <2>1. masks' \in [Sources -> Seq(Masks)] /\ \A t \in Sources : SameShape(masks[t], masks'[t])
    BY <1>1 DEF IInv, Stores, SameShape
  <2>2. QED
    BY <1>1, <1>12, <2>1, Frame
<1>14. ASSUME ~skip
       PROVE  Copied(src, p, j)'
  <2>1. mem'[src][g][p * r + j] = SubPage(p, j, buf[p * r + j])
    BY <1>10, <1>12, <1>14 DEF row
  <2>2. j \in Nat /\ SrcPage \in Nat
    BY <1>2, <1>3, <1>4, Sizes DEF SrcPage
  <2>3. /\ \A o \in 0 .. DstPbs * Stride - 1 :
             mem'[src][g][p * r + j][o] = Lane(cur.layer, src, p, j * DstPbs * Stride + o)
        /\ \A o \in 0 .. DstPbs * ScaleStride - 1 :
             mem'[src][g][p * r + j][DstPbs * Stride + o]
               = Lane(cur.layer, src, p, SrcPage * Stride + j * DstPbs * ScaleStride + o)
    <3> DEFINE old == buf[p * r + j]
               copied == mem'[src][g][p * r + j]
    <3>1. copied = SubPage(p, j, old)
      BY <2>1
    <3> HIDE DEF old, copied
    <3>2. /\ \A o \in 0 .. DstPbs * Stride - 1 :
               SubPage(p, j, old)[o] = Lane(cur.layer, src, p, j * DstPbs * Stride + o)
          /\ \A o \in 0 .. DstPbs * ScaleStride - 1 :
               SubPage(p, j, old)[DstPbs * Stride + o]
                 = Lane(cur.layer, src, p, SrcPage * Stride + j * DstPbs * ScaleStride + o)
      BY <2>2, SubPageHolds, Zenon
    <3>3. QED
      BY <3>1, <3>2 DEF copied
  <2>4. QED
    BY <1>1, <2>3 DEF Copied, Lane, SrcPage, Ratio, r
<1>15. ASSUME NEW k \in Programs(cur.layer, src), k # q, Copied(src, k[1], k[2])
       PROVE  Copied(src, k[1], k[2])'
  <2>1. CASE skip
    BY <1>1, <1>12, <1>15, <2>1, CopiedFrame
  <2>2. CASE ~skip
    <3>1. k[1] \in 0 .. n - 1 /\ k[2] \in 0 .. r - 1 /\ k = <<k[1], k[2]>>
      BY DEF Programs, n, r
    <3>2. k[1] * r + k[2] \in 0 .. n * r - 1
      BY <1>3, <3>1, SubPageIndex
    <3>3. k[1] * r + k[2] \in DOMAIN buf
      BY <1>2, <1>3, <3>2 DEF buf
    <3>4. k[1] * r + k[2] # p * r + j
      <4>1. k[1] \in Nat /\ p \in Nat
        BY <1>3, <1>4, <3>1
      <4>2. k[1] # p \/ k[2] # j
        BY <1>4, <1>15, <3>1
      <4>3. QED
        BY <1>3, <1>4, <3>1, <4>1, <4>2, SubPageUnique
    <3>5. mem'[src][g][k[1] * r + k[2]] = mem[src][g][k[1] * r + k[2]]
      BY <1>10, <1>12, <2>2, <3>3, <3>4 DEF buf
    <3>6. QED
      BY <1>1, <1>15, <3>5 DEF Copied, Lane, Ratio, r
  <2>3. QED
    BY <2>1, <2>2
<1>16. Phase'
  <2>1. List' = List /\ Mask' = Mask /\ Programs(cur.layer, src)' = Programs(cur.layer, src)
    BY <1>1 DEF List, Mask, Programs, Ratio
  <2>2. Wanted(src)' = Wanted(src)
    BY <1>1 DEF Wanted
  <2>3. src = "extra" => Ready("primary")'
    BY <1>1, <1>12, ReadyFrame DEF IInv, Phase, Sources
  <2>4. todo' \subseteq Programs(cur.layer, src)
        /\ (List # <<>> => \A i \in Wanted(src) : Mask[i] = 1)
    BY <1>1 DEF IInv, Phase
  <2>5. ASSUME NEW k \in Programs(cur.layer, src) \ todo', List = <<>> \/ Mask[k[1]] # 0
        PROVE  Copied(src, k[1], k[2])'
    <3>1. CASE k = q
      BY <1>14, <2>5, <3>1 DEF p, j
    <3>2. CASE k # q
      <4>1. k \notin todo
        BY <1>1, <2>5, <3>2
      <4>2. Copied(src, k[1], k[2])
        BY <1>1, <2>5, <4>1 DEF IInv, Phase
      <4>3. QED
        BY <1>15, <2>5, <3>2, <4>2
    <3>3. QED
      BY <3>1, <3>2
  <2>6. \A k \in Programs(cur.layer, src) \ todo' :
          List = <<>> \/ Mask[k[1]] # 0 => Copied(src, k[1], k[2])'
    BY <2>5
  <2>7. QED
    BY <1>1, <2>1, <2>2, <2>3, <2>4, <2>6 DEF Phase
<1>17. QED
  BY <1>13, <1>16 DEF IInv

\* When all programs of the mark kernel have run, the pages that are wanted are marked.
LEMMA AllMarked ==
  ASSUME IInv, pc = "mark", todo = {}
  PROVE  \A p \in Wanted(src) : Mask[p] = 1
<1>1. List \in Seq(-1 .. (Pages[cur.layer][src] * SrcPbs[cur.layer][src]) - 1)
  BY ListFacts DEF IInv, CallFits, List
<1>2. ASSUME NEW i \in DOMAIN List, List[i] >= 0
      PROVE  Mask[List[i] \div SrcPage] = 1
  <2>1. Len(List) \in Nat /\ i \in 1 .. Len(List) /\ MarkBlock \in Nat \ {0}
    BY <1>1, SplitAssumption, SMTT(30)
  <2>2. (i - 1) \div MarkBlock \in 0 .. Blocks(Len(List)) - 1
    BY <2>1, BlockOf DEF Blocks
  <2>3. List[i] \div SrcPage \in MarkedBy((i - 1) \div MarkBlock)
    BY <1>2 DEF MarkedBy
  <2>4. QED
    BY <2>2, <2>3 DEF IInv, Phase
<1>3. QED
  BY <1>2 DEF Wanted, List, SrcPage

\* When all programs of the copy have run, the source is ready.
LEMMA AllCopied ==
  ASSUME IInv, pc = "split", todo = {}
  PROVE  Ready(src)
<1> SUFFICES ASSUME NEW q \in Programs(cur.layer, src), List = <<>> \/ q[1] \in Wanted(src)
             PROVE  Copied(src, q[1], q[2])
  BY DEF Ready, List
<1>1. List = <<>> \/ Mask[q[1]] # 0
  BY DEF IInv, Phase
<1>2. QED
  BY <1>1 DEF IInv, Phase

LEMMA NextKernelStep ==
  ASSUME IInv, NextKernel
  PROVE  IInv'
<1>1. todo = {} /\ UNCHANGED <<ver, mem, masks, called, graph, cur, calls>>
  BY DEF NextKernel
<1>2. Stores' /\ Kept'
  BY <1>1 DEF IInv, Stores, Kept, Holds, DstPages, Ratio, NoGraph, Bufs, Masks, Rows, Cells
<1>3. ASSUME pc # "idle", src' \in DOMAIN cur.lists, src' \in Sources,
             pc' \in {"idle", "zero", "mark", "split", "attend"}
      PROVE  CallFits'
  BY <1>1, <1>3 DEF IInv, CallFits, DstPages, Ratio
<1>4. src \in Sources /\ (pc # "idle" => src \in DOMAIN cur.lists) /\ "extra" \in Sources
  BY DEF IInv, CallFits, Sources
<1>5. \A s \in Sources : Ready(s) => Ready(s)'
  BY <1>1, ReadyFrame
<1>6. CASE pc = "mark" /\ pc' = "split" /\ todo' = Programs(cur.layer, src) /\ UNCHANGED src
  <2>1. Phase'
    <3>1. /\ List' = List /\ Mask' = Mask /\ Wanted(src)' = Wanted(src)
          /\ Programs(cur.layer, src)' = Programs(cur.layer, src)
      BY <1>1, <1>6 DEF List, Mask, Wanted, Programs, Ratio
    <3>2. src = "extra" => Ready("primary")'
      BY <1>5, <1>6 DEF IInv, Phase, Sources
    <3>3. QED
      BY <1>1, <1>6, <3>1, <3>2, AllMarked DEF Phase
  <2>2. QED
    BY <1>2, <1>3, <1>4, <1>6, <2>1 DEF IInv
<1>7. CASE /\ pc = "split" /\ src = "primary" /\ "extra" \in DOMAIN cur.lists
           /\ Source(cur.layer, cur.lists, "extra")
  <2>1. /\ src' = "extra"
        /\ IF cur.lists["extra"] = <<>> THEN pc' = "split" /\ todo' = Programs(cur.layer, "extra")
             ELSE pc' = "zero"
    BY <1>7 DEF Source, Kernel
  <2>2. Phase'
    <3>1. List' = cur.lists["extra"]
      BY <1>1, <2>1 DEF List
    <3>2. Programs(cur.layer, src)' = Programs(cur.layer, "extra")
      BY <1>1, <2>1 DEF Programs, Ratio
    <3>3. Ready("primary")'
      BY <1>1, <1>5, <1>7, AllCopied DEF Sources
    <3>4. QED
      BY <2>1, <3>1, <3>2, <3>3 DEF Phase
  <2>3. QED
    BY <1>2, <1>3, <1>4, <1>7, <2>1, <2>2 DEF IInv
<1>8. CASE /\ pc = "split" /\ (src = "extra" \/ "extra" \notin DOMAIN cur.lists)
           /\ pc' = "attend" /\ UNCHANGED src
  <2>1. Phase'
    <3>1. Ready(src)'
      BY <1>1, <1>4, <1>5, <1>8, AllCopied
    <3>2. src = "extra" => Ready("primary")'
      BY <1>5, <1>8 DEF IInv, Phase, Sources
    <3>3. QED
      BY <1>1, <1>8, <3>1, <3>2 DEF Phase
  <2>2. QED
    BY <1>2, <1>3, <1>4, <1>8, <2>1 DEF IInv
<1>9. CASE pc = "attend" /\ pc' = "idle" /\ UNCHANGED src
  <2>1. Phase'
    BY <1>9 DEF Phase
  <2>2. QED
    BY <1>2, <1>3, <1>4, <1>9, <2>1 DEF IInv
<1>10. QED
  BY <1>6, <1>7, <1>8, <1>9 DEF NextKernel, Kernel

LEMMA NextIInv == IInv /\ [Next]_vars => IInv'
<1> SUFFICES ASSUME IInv, [Next]_vars
             PROVE  IInv'
  OBVIOUS
<1>1. ASSUME NEW l \in Layers, NEW x \in Lists[l], Call(l, x) \/ Replay(l, x)
      PROVE  IInv'
  BY <1>1, CallStep, ReplayStep
<1>2. ASSUME NEW l \in Layers, NEW s \in Sources, NEW p \in 0 .. Pages[l][s] - 1,
             WritePool(l, s, p)
      PROVE  IInv'
  BY <1>2, WritePoolStep
<1>3. ASSUME NEW l \in Layers, NEW x \in Lists[l], Capture(Len(x["primary"]))
      PROVE  IInv'
  <2>1. Len(x["primary"]) \in Nat
    BY ListFacts
  <2>2. QED
    BY <1>3, <2>1, CaptureStep
<1>4. CASE Zero
  BY <1>4, ZeroStep
<1>5. CASE NextKernel
  BY <1>5, NextKernelStep
<1>6. ASSUME NEW b \in todo, Mark(b)
      PROVE  IInv'
  BY <1>6, MarkStep
<1>7. ASSUME NEW q \in todo, Split(q[1], q[2])
      PROVE  IInv'
  BY <1>7, SplitStep
<1>8. CASE UNCHANGED vars
  <2>1. UNCHANGED <<ver, mem, masks, called, graph, pc, cur, src, todo, calls>>
    BY <1>8 DEF vars
  <2>2. Stores' /\ Kept' /\ CallFits'
    BY <2>1 DEF IInv, Stores, Kept, CallFits, Holds, DstPages, Ratio, NoGraph, Bufs, Masks, Rows,
       Cells
  <2>3. \A s : Ready(s) => Ready(s)'
    BY <2>1, ReadyFrame
  <2>4. Phase'
    <3>1. /\ List' = List /\ Mask' = Mask /\ Wanted(src)' = Wanted(src)
          /\ Programs(cur.layer, src)' = Programs(cur.layer, src)
          /\ \A k : MarkedBy(k)' = MarkedBy(k)
      BY <2>1 DEF List, Mask, Wanted, Programs, Ratio, MarkedBy, SrcPage
    <3>2. \A p, j : Copied(src, p, j) => Copied(src, p, j)'
      BY <2>1, CopiedFrame
    <3>3. QED
      BY <2>1, <2>3, <3>1, <3>2 DEF IInv, Phase
  <2>5. QED
    BY <2>2, <2>4 DEF IInv
<1>9. QED
  BY <1>1, <1>2, <1>3, <1>4, <1>5, <1>6, <1>7, <1>8 DEF Next

LEMMA Invariance == Spec => []IInv
BY InitIInv, NextIInv, PTL DEF Spec

(***************************************************************************)
(* What the invariant says                                                 *)
(***************************************************************************)
\* The kernels of every call and replay stay inside the buffers and masks it was
\* given, for any layers, pools and indices and however the buffers have grown since
\* the capture (flash_mla_sm120.py:505-546).
THEOREM CallsFit == Spec => []TypeOK
<1>1. IInv => TypeOK
  BY DEF IInv, Kept, CallFits, TypeOK, Tag
<1>2. QED
  BY <1>1, Invariance, PTL

\* No call replaces a buffer or mask that a captured graph writes to
\* (flash_mla_sm120.py:505-522, 537-546).
THEOREM GraphsKeepBuffers == Spec => []GraphBuffersKept
<1>1. IInv => GraphBuffersKept
  BY DEF IInv, Kept, GraphBuffersKept
<1>2. QED
  BY <1>1, Invariance, PTL

\* When attention runs, its sources have been copied.
LEMMA SourcesReady ==
  ASSUME IInv, pc = "attend", NEW s \in DOMAIN cur.lists
  PROVE  Ready(s) /\ s \in Sources /\ cur.layer \in Layers /\ cur.lists \in Lists[cur.layer]
<1>1. /\ cur.layer \in Layers /\ cur.lists \in Lists[cur.layer] /\ src \in Sources
      /\ src \in DOMAIN cur.lists
  BY DEF IInv, CallFits
<1>2. s \in Sources
  BY <1>1, ListFacts
<1>3. s = src \/ (src = "extra" /\ s = "primary")
  BY <1>1, <1>2 DEF IInv, Phase, Sources
<1>4. QED
  BY <1>1, <1>2, <1>3 DEF IInv, Phase

\* Lane x of the k-th of d tokens, in lanes of width w, with the sums as the kernels
\* and the reference write them.
LEMMA LaneIndex ==
  ASSUME NEW d \in Nat \ {0}, NEW w \in Nat \ {0}, NEW j \in Nat, NEW k \in 0 .. d - 1,
         NEW x \in 0 .. w - 1
  PROVE  /\ k * w + x \in 0 .. d * w - 1 /\ k * w + x \in Int
         /\ j * d * w + (k * w + x) = (j * d + k) * w + x
         /\ j * d * w \in Int /\ (j * d + k) * w \in Int /\ k * w \in Int
<1>1. k * w + x \in 0 .. d * w - 1
  BY SubPageIndex
<1>2. k \in Nat /\ x \in Int /\ j * d \in Nat
  OBVIOUS
<1>3. (j * d + k) * w = (j * d) * w + k * w
  BY <1>2
<1>4. k * w \in Int /\ (j * d) * w \in Int /\ (j * d + k) * w \in Int
  BY <1>2
<1>5. QED
  BY <1>1, <1>2, <1>3, <1>4

\* Every token attention refers to has, at its unchanged index, the data and scales of
\* its own layer's pool at that moment: for any layers, pools, page sizes, indices,
\* one or two sources, orders of the programs of a kernel and replays
\* (flash_mla_sm120.py:67-114, 250-257, 488-494).
THEOREM AttentionIsExact == Spec => []AttentionReadsPool
<1>1. ASSUME IInv, pc = "attend", NEW s \in DOMAIN cur.lists, NEW t \in Referenced(s)
      PROVE  /\ \A x \in 0 .. Stride - 1 : ReadsData(s, t, x) = PoolData(cur.layer, s, t, x)
             /\ \A y \in 0 .. ScaleStride - 1 :
                  ReadsScale(s, t, y) = PoolScale(cur.layer, s, t, y)
  <2> DEFINE l == cur.layer
             n == Pages[l][s]
             m == SrcPbs[l][s]
             r == Ratio(l, s)
             p == t \div m
             u == t % m
             j == u \div DstPbs
             k == t % DstPbs
             row == Buffer(s)[t \div DstPbs]
  <2>1. Ready(s) /\ s \in Sources /\ l \in Layers /\ cur.lists \in Lists[l]
    BY <1>1, SourcesReady
  <2>2. /\ n \in Nat \ {0} /\ m \in Nat \ {0} /\ r \in Nat \ {0} /\ m = DstPbs * r
        /\ DstPbs \in Nat \ {0} /\ Stride \in Nat \ {0} /\ ScaleStride \in Nat \ {0}
    BY <2>1, Sizes, SplitAssumption
  <2>3. t \in 0 .. n * m - 1 /\ (cur.lists[s] = <<>> \/ p \in Wanted(s))
    <3>1. cur.lists[s] \in Seq(-1 .. (n * m) - 1)
      BY <2>1, ListFacts
    <3>2. n * m \in Nat
      BY <2>2
    <3>3. CASE cur.lists[s] = <<>>
      BY <1>1, <3>3 DEF Referenced
    <3>4. CASE cur.lists[s] # <<>>
      <4>1. PICK i \in DOMAIN cur.lists[s] : t = cur.lists[s][i] /\ t # -1
        BY <1>1, <3>4 DEF Referenced
      <4>2. t \in 0 .. n * m - 1
        BY <3>1, <3>2, <4>1
      <4>3. cur.lists[s][i] >= 0
        BY <3>2, <4>1, <4>2
      <4>4. QED
        BY <4>1, <4>2, <4>3 DEF Wanted
    <3>5. QED
      BY <3>3, <3>4
  <2>4. t \in Nat
    <3>1. n * m \in Nat
      BY <2>2
    <3>2. QED
      BY <2>3, <3>1
  <2>5. p \in 0 .. n - 1
    BY <2>2, <2>3, PageOf
  <2>6. /\ j \in 0 .. r - 1 /\ k \in 0 .. DstPbs - 1 /\ t \div DstPbs = p * r + j
        /\ u = j * DstPbs + k
    <3> DEFINE v == t % (DstPbs * r)
    <3>1. /\ v \div DstPbs \in 0 .. r - 1 /\ k \in 0 .. DstPbs - 1
          /\ t \div DstPbs = (t \div (DstPbs * r)) * r + (v \div DstPbs)
          /\ v = (v \div DstPbs) * DstPbs + k
      <4> HIDE DEF r
      <4>1. QED
        BY <2>2, <2>4, TokenIndex
    <3>2. DstPbs * r = m
      BY <2>2
    <3>3. QED
      BY <3>1, <3>2
  <2>7. Copied(s, p, j)
    <3>1. <<p, j>> \in Programs(l, s)
      BY <2>5, <2>6 DEF Programs
    <3>2. QED
      BY <2>1, <2>3, <3>1 DEF Ready
  <2>8. row = mem[s][cur.bufs[s]][p * r + j]
    BY <2>6 DEF Buffer, Tag
  <2> HIDE DEF n, m, p, u, j, k, row
  <2>9. /\ \A o \in 0 .. DstPbs * Stride - 1 : row[o] = Lane(l, s, p, j * DstPbs * Stride + o)
        /\ \A o \in 0 .. DstPbs * ScaleStride - 1 :
             row[DstPbs * Stride + o] = Lane(l, s, p, m * Stride + j * DstPbs * ScaleStride + o)
    BY <2>7, <2>8 DEF Copied, m
  <2>10. j \in Nat
    BY <2>2, <2>6
  <2>11. ASSUME NEW x \in 0 .. Stride - 1
         PROVE  ReadsData(s, t, x) = PoolData(l, s, t, x)
    <3>1. /\ k * Stride + x \in 0 .. DstPbs * Stride - 1
          /\ j * DstPbs * Stride + (k * Stride + x) = (j * DstPbs + k) * Stride + x
      BY <2>2, <2>6, <2>10, LaneIndex
    <3>2. row[k * Stride + x] = Lane(l, s, p, u * Stride + x)
      BY <2>6, <2>9, <3>1
    <3>3. QED
      BY <3>2 DEF ReadsData, PoolData, row, k, p, u, m
  <2>12. ASSUME NEW y \in 0 .. ScaleStride - 1
         PROVE  ReadsScale(s, t, y) = PoolScale(l, s, t, y)
    <3>1. /\ k * ScaleStride + y \in 0 .. DstPbs * ScaleStride - 1
          /\ j * DstPbs * ScaleStride + (k * ScaleStride + y)
               = (j * DstPbs + k) * ScaleStride + y
          /\ k * ScaleStride \in Int /\ j * DstPbs * ScaleStride \in Int
          /\ (j * DstPbs + k) * ScaleStride \in Int
      BY <2>2, <2>6, <2>10, LaneIndex
    <3>2. DstPbs * Stride \in Int /\ m * Stride \in Int /\ y \in Int
      BY <2>2
    <3>3. DstPbs * Stride + k * ScaleStride + y = DstPbs * Stride + (k * ScaleStride + y)
      BY <3>1, <3>2
    <3>4. m * Stride + j * DstPbs * ScaleStride + (k * ScaleStride + y)
            = m * Stride + u * ScaleStride + y
      BY <2>6, <3>1, <3>2
    <3>5. row[DstPbs * Stride + k * ScaleStride + y]
            = Lane(l, s, p, m * Stride + u * ScaleStride + y)
      BY <2>9, <3>1, <3>3, <3>4
    <3>6. QED
      BY <3>5 DEF ReadsScale, PoolScale, row, k, p, u, m
  <2>13. QED
    BY <2>11, <2>12
<1>2. IInv => AttentionReadsPool
  BY <1>1 DEF AttentionReadsPool
<1>3. QED
  BY <1>2, Invariance, PTL
=============================================================================
