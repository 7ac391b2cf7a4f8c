------------------------------ MODULE ChainProofs ------------------------------
(* Proofs about Chain for any number of threads and blocks. *)
EXTENDS Chain, SequenceTheorems, TLAPS

-----------------------------------------------------------------------------
(* The inductive invariant.  The blocks of a round are numbered in the      *)
(* order in which the lead consumed them; a thread has consumed took[k] of  *)
(* them and given Gave(k) on, so the numbers of the blocks in a queue are    *)
(* those between what its reader took and its writer gave.                  *)

Gave(k) == took[k] - IF Holding(k) THEN 1 ELSE 0

\* The number of blocks that came round.
Back == IF complete THEN Gave(links) ELSE 0

\* The block in whose place the lead sends the poison.
Ended == pc[1] \in {"pass", "done"}
IsLast(n) == Ended /\ n = took[1]

\* What the block number n looks like after the lead.
MemoryOf(n) == IF IsLast(n) THEN Null ELSE lent[n]

Owner ==
  /\ main # "aborted"
  /\ complete => links >= 2
  /\ ~complete => links < MaxThreads
  /\ main # "idle" => complete /\ Running
  /\ main = "draining" => \A k \in 1..links : pc[k] = "done"
  /\ main # "draining" => drained = 0
  /\ ~Running => ~complete /\ queue[0] = <<>>

\* Where a thread is and what it has consumed.
Places ==
  \A k \in Threads :
    /\ k > links <=> pc[k] = "none"
    /\ pc[k] \in {"none", "init"} => took[k] = 0
    /\ pc[k] \notin {"none", "init"} => took[k] >= 1
    /\ pc[k] \in {"pass", "done"} => IsLast(took[k])
    /\ pc[k] \in {"work", "put", "take"} => ~IsLast(took[k])

\* No thread is ahead of an earlier one, and the lead is at most BlockCount
\* blocks ahead of the last one.
Order ==
  /\ \A j, k \in 1..links : j < k => Gave(j) >= took[k]
  /\ Running => took[1] + drained <= BlockCount + Back

\* The length of the queues.
Lengths ==
  /\ Running => Len(queue[0]) = BlockCount + Back - took[1] - drained
  /\ \A k \in 1..(MaxThreads - 1) :
       Len(queue[k]) = IF complete /\ k = links THEN 0 ELSE Gave(k) - took[k + 1]

\* What the queues and the threads have.
Contents ==
  /\ \A k \in 1..(MaxThreads - 1) : \A n \in 1..Len(queue[k]) :
       queue[k][n].mem = MemoryOf(took[k + 1] + n)
  /\ \A n \in 1..Len(queue[0]) :
       /\ took[1] + drained + n <= BlockCount => queue[0][n].mem = took[1] + drained + n
       /\ \A r \in 1..Back :
            took[1] + drained + n = BlockCount + r => queue[0][n].mem = MemoryOf(r)
  /\ \A k \in 1..links : Holding(k) => cur[k].mem = MemoryOf(took[k])

\* The memory comes round in the same order: within BlockCount blocks it is
\* always another one.
Rotation ==
  /\ Len(lent) = took[1]
  /\ \A n \in 1..took[1] : lent[n] = IF n <= BlockCount THEN n ELSE lent[n - BlockCount]
  /\ \A a, b \in 1..took[1] : a < b /\ b < a + BlockCount => lent[a] # lent[b]

\* The number of blocks the lead has filled.
Filled == took[1] - IF pc[1] \in {"work", "pass", "done"} THEN 1 ELSE 0

\* What the lead filled and may still be seen is in the memory.
Data == \A n \in 1..Filled : n > took[1] - BlockCount => content[lent[n]] = n

IInv ==
  /\ TypeOK
  /\ Owner
  /\ Places
  /\ Order
  /\ Lengths
  /\ Contents
  /\ Rotation
  /\ Data

-----------------------------------------------------------------------------
(* Arithmetic of the invariant. *)

LEMMA Numbers ==
  ASSUME TypeOK
  PROVE  /\ BlockCount \in Nat \ {0} /\ MaxThreads \in Nat /\ MaxThreads >= 2
         /\ links \in Nat /\ links <= MaxThreads /\ drained \in Nat
         /\ \A k \in 1..links : k \in Threads
         /\ \A k \in Threads : took[k] \in Nat /\ Gave(k) \in Int /\ Gave(k) <= took[k]
                                /\ took[k] <= Gave(k) + 1
                                /\ (Holding(k) => Gave(k) = took[k] - 1)
                                /\ (~Holding(k) => Gave(k) = took[k])
         /\ \A i \in 0..MaxThreads : queue[i] \in Seq(Block) /\ Len(queue[i]) \in Nat
BY ChainAssumption, LenProperties DEF TypeOK, Threads, Gave

\* The lead is the first, what came round is behind everybody, and the two are
\* at most BlockCount blocks apart.
LEMMA Between ==
  ASSUME IInv, Running
  PROVE  /\ Back \in Nat /\ took[1] \in Nat
         /\ took[1] + drained <= BlockCount + Back
         /\ \A k \in 1..links : took[k] <= took[1] /\ Back <= Gave(k) /\ Gave(k) \in Nat
         /\ \A k \in 2..links : took[k] <= Gave(1) /\ Back <= took[k]
<1>1. TypeOK /\ Owner /\ Places /\ Order /\ links >= 1 /\ 1 \in Threads
  BY Numbers DEF IInv, Running, Threads
<1>2. ASSUME NEW k \in 1..links PROVE Gave(k) \in Nat
  <2>1. k \in Threads /\ took[k] \in Nat
    BY <1>1, Numbers
  <2>2. Holding(k) => took[k] >= 1
    BY <1>1, <2>1 DEF Places, Holding
  <2> QED
    BY <2>1, <2>2 DEF Gave
<1>3. Back \in Nat /\ (complete => links \in 2..links /\ Back = Gave(links))
       /\ (~complete => Back = 0)
  BY <1>1, <1>2, Numbers DEF Back, Owner
<1>4. \A k \in 2..links : took[k] <= Gave(1) /\ k \in 1..links /\ k \in Threads
  BY <1>1, Numbers DEF Order
<1>5. \A k \in 1..links : took[k] <= took[1]
  BY <1>1, <1>4, Numbers
<1>6. \A k \in 1..links : Back <= Gave(k)
  <2>1. CASE ~complete
    BY <1>2, <1>3, <2>1
  <2>2. CASE complete
    <3>1. ASSUME NEW k \in 1..links, k # links PROVE Gave(links) <= Gave(k)
      <4>1. Gave(k) >= took[links] /\ links \in Threads
        BY <1>1, <1>3, <2>2, <3>1, Numbers, SMTT(30) DEF Order
      <4> QED
        <5>1. Gave(links) <= took[links] /\ Gave(links) \in Nat /\ took[links] \in Nat
          BY <1>1, <1>2, <4>1, Numbers
        <5> QED
          BY <1>2, <4>1, <5>1
    <3> QED
      BY <1>2, <1>3, <2>2, <3>1
  <2> QED
    BY <2>1, <2>2
<1> QED
  BY <1>1, <1>2, <1>3, <1>4, <1>5, <1>6, Numbers, SMTT(30) DEF Order

LEMMA FilledNumber ==
  ASSUME IInv
  PROVE  /\ Filled \in Nat /\ Filled <= took[1] /\ took[1] <= Filled + 1
         /\ \A k \in 2..links : Gave(1) >= took[k] /\ ~IsLast(took[k]) => took[k] <= Filled
<1>1. TypeOK /\ Places /\ 1 \in Threads /\ took[1] \in Nat
  BY ChainAssumption, Numbers DEF IInv, Threads
<1>2. pc[1] \in {"none", "init", "work", "put", "take", "pass", "done"}
  BY <1>1 DEF TypeOK
<1>3. Filled \in Nat /\ Filled <= took[1] /\ took[1] <= Filled + 1
  BY <1>1, <1>2 DEF Places, Filled
<1>4. ASSUME NEW k \in 2..links, Gave(1) >= took[k], ~IsLast(took[k])
      PROVE  took[k] <= Filled
  <2>1. took[k] \in Nat
    BY <1>1, <1>4, Numbers DEF Threads
  <2> QED
    BY <1>1, <1>2, <1>4, <2>1 DEF Filled, Gave, Holding, IsLast, Ended
<1> QED
  BY <1>3, <1>4

\* The numbers of what is in the queues.
LEMMA Queued ==
  ASSUME IInv, Running
  PROVE  /\ \A i \in 1..(MaxThreads - 1) : \A n \in 1..Len(queue[i]) :
              took[i + 1] + n \in 1..took[1] /\ took[i + 1] + n <= Gave(i)
         /\ \A n \in 1..Len(queue[0]) :
              \/ took[1] + drained + n <= BlockCount
              \/ \E r \in 1..Back : took[1] + drained + n = BlockCount + r
<1>1. TypeOK /\ Places /\ Lengths /\ Running
  BY DEF IInv
<1>2. ASSUME NEW i \in 1..(MaxThreads - 1), NEW n \in 1..Len(queue[i])
      PROVE  took[i + 1] + n \in 1..took[1] /\ took[i + 1] + n <= Gave(i)
  <2>1. /\ i \in Threads /\ i + 1 \in Threads /\ i \in 0..MaxThreads
        /\ took[i] \in Nat /\ took[i + 1] \in Nat /\ took[1] \in Nat /\ Gave(i) <= took[i]
        /\ Gave(i) \in Int /\ Len(queue[i]) \in Nat /\ n \in Nat /\ n >= 1
    <3>1. i \in Threads /\ i + 1 \in Threads /\ i \in 0..MaxThreads /\ 1 \in Threads
      BY ChainAssumption DEF Threads
    <3>2. Len(queue[i]) \in Nat
      BY <1>1, <3>1, Numbers
    <3>3. n \in Nat /\ n >= 1
      BY <3>2
    <3> QED
      BY <1>1, <3>1, <3>2, <3>3, Numbers
  <2>2. Len(queue[i]) = Gave(i) - took[i + 1]
    BY <1>1, <2>1 DEF Lengths
  <2>3. i \in 1..links
    <3>1. CASE i > links
      BY <1>1, <2>1, <2>2, <3>1 DEF Places
    <3> QED
      BY <1>1, <2>1, <3>1, Numbers
  <2> QED
    BY <2>1, <2>2, <2>3, Between, SMTT(30)
<1>3. ASSUME NEW n \in 1..Len(queue[0])
      PROVE  \/ took[1] + drained + n <= BlockCount
             \/ \E r \in 1..Back : took[1] + drained + n = BlockCount + r
  <2>1. Len(queue[0]) = BlockCount + Back - took[1] - drained
    BY <1>1 DEF Lengths
  <2>2. took[1] \in Nat /\ drained \in Nat /\ BlockCount \in Nat /\ Back \in Nat
    BY <1>1, Between, Numbers
  <2>3. n \in Nat /\ n <= BlockCount + Back - took[1] - drained
    BY <2>1, <2>2
  <2>4. took[1] + drained + n \in Nat /\ took[1] + drained + n <= BlockCount + Back
    BY <2>2, <2>3
  <2>5. ASSUME NEW x \in Nat, NEW b \in Nat, NEW c \in Nat, x <= b + c, ~(x <= b)
        PROVE  \E r \in 1..c : x = b + r
    <3>1. x - b \in 1..c /\ x = b + (x - b)
      BY <2>5
    <3> QED
      BY <3>1
  <2> QED
    BY <2>2, <2>4, <2>5
<1> QED
  BY <1>2, <1>3

\* The memory of a block before the lead takes it is a place in memory_.
LEMMA MemoryGood ==
  ASSUME IInv
  PROVE  \A n \in 1..took[1] : lent[n] \in Memory /\ (MemoryOf(n) = Null <=> IsLast(n))
<1>1. lent \in Seq(Memory) /\ Len(lent) = took[1] /\ Null \notin Memory
  BY ChainAssumption DEF IInv, TypeOK, Rotation, Memory, Null
<1>2. \A n \in 1..took[1] : lent[n] \in Memory
  BY <1>1, ElementOfSeq
<1> QED
  BY <1>1, <1>2 DEF MemoryOf

-----------------------------------------------------------------------------
(* A thread consumes a block. *)

LEMMA ConsumeIInv ==
  ASSUME IInv, NEW k \in Threads, TakeFirst(k) \/ TakeNext(k)
  PROVE  IInv'
<1> DEFINE q == queue[k - 1]
<1>0. TypeOK /\ Owner /\ Places /\ Order /\ Lengths /\ Contents /\ Rotation /\ Data
  BY DEF IInv
<1>1. /\ k \in 1..links /\ k \in Nat /\ Running /\ pc[k] \in {"init", "take"}
      /\ k - 1 \in 0..MaxThreads /\ 1 \in Threads /\ 1 \in 1..links
  BY <1>0, Numbers, SMTT(30) DEF TakeFirst, TakeNext, Running, Threads
<1>2. ~Holding(k) /\ Gave(k) = took[k]
  BY <1>1 DEF Holding, Gave, TypeOK, IInv
<1>3. /\ q \in Seq(Block) /\ q # <<>> /\ Head(q) = q[1] /\ q[1] \in Block
      /\ Len(q) \in Nat /\ Len(q) >= 1 /\ Tail(q) \in Seq(Block) /\ Len(Tail(q)) = Len(q) - 1
      /\ \A i \in 1..(Len(q) - 1) : Tail(q)[i] = q[i + 1]
  <2>1. q \in Seq(Block) /\ q # <<>>
    BY <1>0, <1>1, Numbers DEF TakeFirst, TakeNext, Consume, In
  <2>2. Len(q) \in Nat /\ Len(q) >= 1
    BY <2>1, EmptySeq
  <2> QED
    BY <2>1, <2>2, HeadTailProperties, ElementOfSeq
<1>4. drained = 0 /\ main # "draining"
  BY <1>0, <1>1 DEF Owner
<1>5. /\ took' = [took EXCEPT ![k] = @ + 1] /\ queue' = [queue EXCEPT ![k - 1] = Tail(q)]
      /\ cur' = [cur EXCEPT ![k] = q[1]]
      /\ pc' = [pc EXCEPT ![k] = IF q[1].mem = Null THEN "pass" ELSE "work"]
      /\ lent' = IF k = 1 THEN Append(lent, q[1].mem) ELSE lent
      /\ UNCHANGED <<main, rounds, links, complete, content, drained>>
  <2>1. Consume(k) /\ pc' = [pc EXCEPT ![k] = IF IsPoison(cur'[k]) THEN "pass" ELSE "work"]
    BY DEF TakeFirst, TakeNext
  <2>2. /\ cur' = [cur EXCEPT ![k] = q[1]] /\ queue' = [queue EXCEPT ![k - 1] = Tail(q)]
        /\ took' = [took EXCEPT ![k] = @ + 1]
        /\ UNCHANGED <<main, rounds, links, complete, content, drained>>
    BY <1>3, <2>1 DEF Consume, In
  <2>3. cur'[k] = q[1]
    BY <1>0, <2>2 DEF TypeOK
  <2>4. lent' = IF k = 1 THEN Append(lent, q[1].mem) ELSE lent
    BY <1>3, <2>1 DEF Consume
  <2> QED
    BY <2>1, <2>2, <2>3, <2>4 DEF IsPoison
<1>6. /\ took'[k] = took[k] + 1 /\ took[k] \in Nat
      /\ \A j \in Threads : j # k => took'[j] = took[j] /\ pc'[j] = pc[j] /\ cur'[j] = cur[j]
      /\ pc'[k] = IF q[1].mem = Null THEN "pass" ELSE "work"
      /\ cur'[k] = q[1] /\ Holding(k)'
      /\ \A j \in Threads : j # k => Holding(j)' = Holding(j)
  BY <1>0, <1>5 DEF TypeOK, Holding
<1>7. \A j \in Threads : Gave(j)' = Gave(j)
  <2>1. Gave(k)' = Gave(k)
    BY <1>0, <1>2, <1>6 DEF Gave
  <2>2. ASSUME NEW j \in Threads, j # k PROVE Gave(j)' = Gave(j)
    BY <1>6, <2>2 DEF Gave
  <2> QED
    BY <2>1, <2>2
<1>8. Back' = Back
  BY <1>0, <1>1, <1>5, <1>7, Numbers DEF Back, Owner
<1>9. /\ \A i \in 0..MaxThreads : i # k - 1 => queue'[i] = queue[i]
      /\ queue' \in [0..MaxThreads -> Seq(Block)]
      /\ Len(queue'[k - 1]) = Len(queue[k - 1]) - 1
      /\ \A n \in 1..(Len(queue[k - 1]) - 1) : queue'[k - 1][n] = queue[k - 1][n + 1]
      /\ k = 1 => /\ Len(queue'[0]) = Len(queue[0]) - 1
                  /\ \A n \in 1..(Len(queue[0]) - 1) : queue'[0][n] = queue[0][n + 1]
      /\ k # 1 => queue'[0] = queue[0]
  <2>1. queue'[k - 1] = Tail(q)
    BY <1>0, <1>1, <1>5 DEF TypeOK
  <2>2. /\ \A i \in 0..MaxThreads : i # k - 1 => queue'[i] = queue[i]
        /\ queue' \in [0..MaxThreads -> Seq(Block)]
    BY <1>0, <1>1, <1>3, <1>5 DEF TypeOK
  <2>3. k # 1 => queue'[0] = queue[0]
    BY <1>0, <1>1, <2>2, Numbers
  <2>4. /\ Len(queue'[k - 1]) = Len(queue[k - 1]) - 1
        /\ \A n \in 1..(Len(queue[k - 1]) - 1) : queue'[k - 1][n] = queue[k - 1][n + 1]
    BY <1>3, <2>1
  <2>5. k = 1 => k - 1 = 0
    BY <1>1
  <2> QED
    BY <2>2, <2>3, <2>4, <2>5
<1>10. q[1].mem \in Memory \cup {Null} /\ (k = 1 => q[1].mem \in Memory)
  <2>1. q[1].mem \in Memory \cup {Null}
    BY <1>3 DEF Block
  <2>2. ASSUME k = 1 PROVE q[1].mem \in Memory
    <3>1. took[1] \in Nat /\ BlockCount \in Nat \ {0} /\ 1 \in 1..Len(queue[0]) /\ q = queue[0]
      BY <1>0, <1>1, <1>3, <2>2, Numbers
    <3>2. CASE took[1] + drained + 1 <= BlockCount
      BY <1>0, <1>4, <3>1, <3>2 DEF Contents, Memory
    <3>3. CASE ~(took[1] + drained + 1 <= BlockCount)
      <4>1. PICK r \in 1..Back : took[1] + drained + 1 = BlockCount + r
        BY <1>1, <3>1, <3>3, Queued
      <4>2. q[1].mem = MemoryOf(r)
        BY <1>0, <3>1, <4>1 DEF Contents
      <4>3. ~IsLast(r) /\ r \in 1..took[1]
        BY <1>1, <1>4, <2>2, <3>1, <4>1 DEF IsLast, Ended
      <4> QED
        BY <4>2, <4>3, MemoryGood DEF MemoryOf
    <3> QED
      BY <3>2, <3>3
  <2> QED
    BY <2>1, <2>2
<1>11. TypeOK'
  <2>1. lent' \in Seq(Memory)
    BY <1>0, <1>5, <1>10, AppendProperties DEF TypeOK
  <2>2. /\ took' \in [Threads -> Nat] /\ cur' \in [Threads -> Block]
        /\ pc' \in [Threads -> {"none", "init", "work", "put", "take", "pass", "done"}]
    BY <1>0, <1>3, <1>5 DEF TypeOK
  <2> QED
    BY <1>0, <1>5, <1>9, <2>1, <2>2 DEF TypeOK
<1>12. Owner'
  <2>1. \A j \in 1..links : j # k => pc'[j] = pc[j]
    BY <1>0, <1>6, Numbers
  <2> QED
    BY <1>0, <1>1, <1>4, <1>5 DEF Owner, Running
\* The poison is the block with the last number.
<1>13. /\ k # 1 => took[k] + 1 <= Gave(k - 1) /\ Len(q) = Gave(k - 1) - took[k]
       /\ k # 1 => q[1].mem = MemoryOf(took[k] + 1) /\ took[k] + 1 \in 1..took[1]
       /\ k # 1 => k - 1 \in 1..(MaxThreads - 1) /\ k - 1 \in 1..links /\ k - 1 # links
  <2> SUFFICES ASSUME k # 1 PROVE /\ took[k] + 1 <= Gave(k - 1) /\ Len(q) = Gave(k - 1) - took[k]
                                  /\ q[1].mem = MemoryOf(took[k] + 1) /\ took[k] + 1 \in 1..took[1]
                                  /\ k - 1 \in 1..(MaxThreads - 1) /\ k - 1 \in 1..links /\ k - 1 # links
    OBVIOUS
  <2>1. k - 1 \in 1..(MaxThreads - 1) /\ k - 1 \in 1..links /\ k - 1 # links
    BY <1>0, <1>1, Numbers
  <2>2. (k - 1) + 1 = k
    BY <1>1
  <2>3. Len(q) = Gave(k - 1) - took[k]
    BY <1>0, <2>1, <2>2 DEF Lengths
  <2>4. 1 \in 1..Len(q)
    BY <1>3
  <2>5. q[1].mem = MemoryOf(took[k] + 1)
    BY <1>0, <2>1, <2>2, <2>4 DEF Contents
  <2>6. took[k] + 1 \in 1..took[1] /\ took[k] + 1 <= Gave(k - 1)
    BY <1>1, <2>1, <2>2, <2>4, Queued
  <2> QED
    BY <2>1, <2>3, <2>5, <2>6
<1> DEFINE NewMem(n) == IF Ended' /\ n = took'[1] THEN Null ELSE lent'[n]
<1>14. /\ k = 1 => ~Ended /\ ~Ended'
       /\ k # 1 => (Ended' <=> Ended) /\ took'[1] = took[1] /\ lent' = lent
       /\ k = 1 => \A n : MemoryOf(n) = lent[n] /\ NewMem(n) = lent'[n]
  <2>1. k = 1 => q[1].mem # Null /\ ~Ended /\ ~Ended'
    BY <1>1, <1>6, <1>10, ChainAssumption DEF Ended, Memory, Null
  <2>2. k # 1 => (Ended' <=> Ended) /\ took'[1] = took[1] /\ lent' = lent
    BY <1>1, <1>5, <1>6 DEF Ended
  <2> QED
    BY <2>1, <2>2 DEF IsLast, MemoryOf
<1>15. Places'
  <2>1. ASSUME NEW j \in Threads, j # k
        PROVE  /\ (j > links <=> pc[j] = "none")'
               /\ (pc[j] \in {"none", "init"} => took[j] = 0)'
               /\ (pc[j] \notin {"none", "init"} => took[j] >= 1)'
               /\ (pc[j] \in {"pass", "done"} => IsLast(took[j]))'
               /\ (pc[j] \in {"work", "put", "take"} => ~IsLast(took[j]))'
    <3>1. pc'[j] = pc[j] /\ took'[j] = took[j] /\ links' = links
      BY <1>5, <1>6, <2>1
    <3>2. k = 1 => pc[j] \notin {"pass", "done"}
      BY <1>0, <1>14, <2>1 DEF Places, IsLast
    <3> QED
      BY <1>0, <1>14, <3>1, <3>2 DEF Places, IsLast
  <2>2. /\ (k > links <=> pc[k] = "none")'
        /\ (pc[k] \in {"none", "init"} => took[k] = 0)'
        /\ (pc[k] \notin {"none", "init"} => took[k] >= 1)'
    BY <1>1, <1>5, <1>6, Numbers, <1>0, SMTT(30)
  <2>3. /\ (pc[k] \in {"pass", "done"} => IsLast(took[k]))'
        /\ (pc[k] \in {"work", "put", "take"} => ~IsLast(took[k]))'
    <3>1. CASE k = 1
      BY <1>6, <1>10, <1>14, <3>1, ChainAssumption DEF Memory, Null, IsLast
    <3>2. CASE k # 1
      <4>1. q[1].mem = Null <=> IsLast(took[k] + 1)
        BY <1>13, <3>2, MemoryGood
      <4> QED
        BY <1>6, <1>14, <3>2, <4>1 DEF IsLast
    <3> QED
      BY <3>1, <3>2
  <2> QED
    BY <2>1, <2>2, <2>3 DEF Places
<1>16. Order'
  <2>1. ASSUME NEW j \in 1..links, NEW l \in 1..links, j < l PROVE Gave(j)' >= took'[l]
    <3>1. /\ Gave(j)' = Gave(j) /\ Gave(j) >= took[l] /\ j \in Threads /\ l \in Threads
          /\ Gave(j) \in Int /\ j \in Nat /\ l \in Nat
      BY <1>0, <1>7, <2>1, Numbers DEF Order
    <3>2. CASE l # k
      BY <1>6, <3>1, <3>2
    <3>3. CASE l = k /\ j = k - 1
      BY <1>6, <1>13, <2>1, <3>1, <3>3
    <3>4. CASE l = k /\ j # k - 1
      <4>1. k # 1 /\ k - 1 \in 1..links /\ j < k - 1 /\ k - 1 \in Threads
        BY <1>1, <1>13, <2>1, <3>1, <3>4 DEF Threads
      <4>2. Gave(j) >= took[k - 1] /\ took[k - 1] >= Gave(k - 1) /\ Gave(k - 1) >= took[k] + 1
        BY <1>0, <1>13, <4>1, Numbers DEF Order
      <4>3. took[k - 1] \in Nat /\ Gave(k - 1) \in Int
        BY <1>0, <4>1, Numbers
      <4> QED
        BY <1>6, <3>1, <3>4, <4>2, <4>3
    <3> QED
      BY <3>2, <3>3, <3>4
  <2>2. took'[1] + drained <= BlockCount + Back
    <3>1. /\ took[1] \in Nat /\ Back \in Nat /\ BlockCount \in Nat /\ drained \in Nat
          /\ took[1] + drained <= BlockCount + Back
      BY <1>0, <1>1, Between, Numbers
    <3>2. CASE k = 1
      BY <1>0, <1>1, <1>3, <1>6, <3>1, <3>2 DEF Lengths
    <3> QED
      BY <1>1, <1>6, <3>1, <3>2
  <2> QED
    BY <1>5, <1>8, <2>1, <2>2 DEF Order
<1>17. Lengths'
  <2>1. Len(queue'[0]) = BlockCount + Back - took'[1] - drained
    <3>1. /\ took[1] \in Nat /\ Back \in Nat /\ BlockCount \in Nat /\ drained \in Nat
          /\ Len(queue[0]) = BlockCount + Back - took[1] - drained
      BY <1>0, <1>1, Between, Numbers DEF Lengths
    <3>2. CASE k = 1
      <4>1. Len(queue'[0]) = Len(queue[0]) - 1 /\ took'[1] = took[1] + 1
        BY <1>6, <1>9, <3>2
      <4> QED
        BY <3>1, <4>1
    <3>3. CASE k # 1
      BY <1>1, <1>6, <1>9, <3>1, <3>3
    <3> QED
      BY <3>2, <3>3
  <2>2. ASSUME NEW i \in 1..(MaxThreads - 1)
        PROVE  Len(queue'[i]) = IF complete /\ i = links THEN 0 ELSE Gave(i)' - took'[i + 1]
    <3>1. /\ Len(queue[i]) = IF complete /\ i = links THEN 0 ELSE Gave(i) - took[i + 1]
          /\ i \in Threads /\ i + 1 \in Threads /\ i \in 0..MaxThreads /\ Gave(i)' = Gave(i)
          /\ Gave(i) \in Int
      BY <1>0, <1>7, Numbers DEF Lengths, Threads
    <3>2. CASE i = k - 1
      <4>1. k # 1 /\ i + 1 = k /\ i # links
        BY <1>1, <1>13, <3>2
      <4>2. Len(queue'[i]) = Len(queue[i]) - 1
        BY <1>9, <3>2
      <4>3. Len(queue[i]) = Gave(i) - took[k] /\ took'[i + 1] = took[k] + 1
        BY <1>6, <3>1, <4>1
      <4> QED
        BY <1>6, <3>1, <4>1, <4>2, <4>3
    <3>3. CASE i # k - 1
      <4>1. i + 1 # k
        BY <1>1, <3>1, <3>3
      <4> QED
        BY <1>6, <1>9, <3>1, <3>3, <4>1
    <3> QED
      BY <3>2, <3>3
  <2> QED
    BY <1>5, <1>8, <2>1, <2>2 DEF Lengths
\* The numbers of the blocks that stay are the same, and so is their memory.
<1>18. \A n \in 1..took[1] : NewMem(n) = MemoryOf(n)
  <2>1. CASE k # 1
    BY <1>14, <2>1 DEF MemoryOf, IsLast
  <2>2. CASE k = 1
    <3>1. \A n \in 1..took[1] : lent'[n] = lent[n]
      BY <1>0, <1>5, <1>10, <2>2, AppendProperties DEF TypeOK, Rotation
    <3> QED
      BY <1>14, <2>2, <3>1
  <2> QED
    BY <2>1, <2>2
<1> HIDE DEF NewMem, q
<1>19. ASSUME NEW i \in 1..(MaxThreads - 1), NEW n \in 1..Len(queue'[i])
       PROVE  queue'[i][n].mem = NewMem(took'[i + 1] + n)
  <2>1. /\ i \in Threads /\ i + 1 \in Threads /\ i \in 0..MaxThreads /\ i \in Nat
        /\ Len(queue[i]) \in Nat
    BY <1>0, Numbers, SMTT(30) DEF Threads
  <2>2. CASE i = k - 1
    <3>1. k # 1 /\ i + 1 = k /\ Len(queue'[i]) = Len(queue[i]) - 1
      BY <1>1, <1>9, <2>1, <2>2
    <3>2. n \in 1..(Len(queue[i]) - 1) /\ n + 1 \in 1..Len(queue[i])
      BY <2>1, <3>1
    <3>3. queue'[i][n] = queue[i][n + 1]
      BY <1>9, <2>2, <3>2
    <3>4. queue[i][n + 1].mem = MemoryOf(took[k] + (n + 1)) /\ took[k] + (n + 1) \in 1..took[1]
      BY <1>0, <1>1, <3>1, <3>2, Queued DEF Contents
    <3>5. took'[i + 1] + n = took[k] + (n + 1)
      <4>1. took'[i + 1] = took[k] + 1 /\ took[k] \in Nat /\ n \in Nat
        BY <1>6, <3>1, <3>2
      <4> QED
        BY <4>1
    <3> QED
      BY <1>18, <3>3, <3>4, <3>5
  <2>3. CASE i # k - 1
    <3>1. i + 1 # k /\ queue'[i] = queue[i]
      BY <1>1, <1>9, <2>1, <2>3
    <3>2. took'[i + 1] = took[i + 1] /\ n \in 1..Len(queue[i])
      BY <1>6, <2>1, <3>1
    <3>3. queue[i][n].mem = MemoryOf(took[i + 1] + n) /\ took[i + 1] + n \in 1..took[1]
      BY <1>0, <1>1, <3>2, Queued DEF Contents
    <3> QED
      BY <1>18, <3>1, <3>2, <3>3
  <2> QED
    BY <2>2, <2>3
<1>20. ASSUME NEW n \in 1..Len(queue'[0])
       PROVE  /\ took'[1] + drained + n <= BlockCount => queue'[0][n].mem = took'[1] + drained + n
              /\ \A r \in 1..Back :
                   took'[1] + drained + n = BlockCount + r => queue'[0][n].mem = NewMem(r)
  <2>0. Len(queue[0]) \in Nat /\ took[1] \in Nat /\ drained \in Nat
    BY <1>0, <1>1, Numbers
  <2>1. PICK m \in 1..Len(queue[0]) :
          queue'[0][n] = queue[0][m] /\ took'[1] + drained + n = took[1] + drained + m
    <3>1. CASE k = 1
      <4>1. n \in 1..(Len(queue[0]) - 1) /\ n + 1 \in 1..Len(queue[0])
        BY <1>9, <2>0, <3>1
      <4>2. queue'[0][n] = queue[0][n + 1]
        BY <1>9, <3>1, <4>1
      <4>3. took'[1] + drained + n = took[1] + drained + (n + 1)
        BY <1>6, <2>0, <3>1, <4>1, SMTT(30)
      <4> QED
        BY <4>1, <4>2, <4>3
    <3>2. CASE k # 1
      <4>1. queue'[0] = queue[0] /\ took'[1] = took[1]
        BY <1>1, <1>6, <1>9, <3>2
      <4> QED
        BY <4>1
    <3> QED
      BY <3>1, <3>2
  <2>2. \A r \in 1..Back : r \in 1..took[1]
    <3>1. Back <= Gave(1) /\ Gave(1) <= took[1] /\ Back \in Nat /\ Gave(1) \in Nat
      BY <1>0, <1>1, Between, Numbers
    <3> QED
      BY <2>0, <3>1
  <2>3. /\ took[1] + drained + m <= BlockCount => queue[0][m].mem = took[1] + drained + m
        /\ \A r \in 1..Back : took[1] + drained + m = BlockCount + r => queue[0][m].mem = MemoryOf(r)
    BY <1>0 DEF Contents
  <2> QED
    BY <1>18, <2>1, <2>2, <2>3
<1>21. ASSUME NEW j \in 1..links, Holding(j)' PROVE cur'[j].mem = NewMem(took'[j])
  <2>1. CASE j = k /\ k # 1
    BY <1>6, <1>13, <1>18, <2>1
  <2>2. CASE j = k /\ k = 1
    <3>1. lent'[took[1] + 1] = q[1].mem
      BY <1>0, <1>5, <1>10, <2>2, AppendProperties DEF TypeOK, Rotation
    <3> QED
      BY <1>6, <1>14, <2>2, <3>1
  <2>3. CASE j # k
    <3>1. Holding(j) /\ cur'[j] = cur[j] /\ took'[j] = took[j] /\ j \in Threads
      BY <1>0, <1>6, <1>21, <2>3, Numbers
    <3>2. took[j] \in 1..took[1]
      <4>1. pc[j] \notin {"none", "init"}
        BY <3>1 DEF Holding
      <4>2. took[j] >= 1 /\ took[j] \in Nat /\ took[1] \in Nat
        BY <1>0, <1>1, <3>1, <4>1, Numbers DEF Places
      <4> QED
        BY <1>1, <4>2, Between
    <3>3. cur[j].mem = MemoryOf(took[j])
      BY <1>0, <3>1 DEF Contents
    <3> QED
      BY <1>18, <3>1, <3>2, <3>3
  <2> QED
    BY <2>1, <2>2, <2>3
<1>22. Contents'
  <2>1. drained' = drained /\ links' = links /\ Back' = Back
    BY <1>5, <1>8
  <2> QED
    BY <1>19, <1>20, <1>21, <2>1 DEF Contents, MemoryOf, IsLast, NewMem
<1>23. Rotation'
  <2>1. CASE k # 1
    BY <1>0, <1>14, <2>1 DEF Rotation
  <2>2. CASE k = 1
    <3> DEFINE t == took[1]
    <3>0. t \in Nat /\ BlockCount \in Nat \ {0} /\ Len(lent) = t /\ took'[1] = t + 1
      BY <1>0, <1>1, <1>6, <2>2, Numbers DEF Rotation
    <3>1. /\ Len(lent') = t + 1 /\ lent'[t + 1] = q[1].mem
          /\ \A n \in 1..t : lent'[n] = lent[n]
      BY <1>0, <1>5, <1>10, <2>2, <3>0, AppendProperties DEF TypeOK
    <3>2. lent'[t + 1] = IF t + 1 <= BlockCount THEN t + 1 ELSE lent'[t + 1 - BlockCount]
      <4>1. 1 \in 1..Len(queue[0]) /\ q = queue[0] /\ took[1] + drained + 1 = t + 1
        BY <1>3, <1>4, <2>2, <3>0 DEF q
      <4>2. CASE t + 1 <= BlockCount
        BY <1>0, <3>1, <4>1, <4>2 DEF Contents
      <4>3. CASE ~(t + 1 <= BlockCount)
        <5>1. PICK r \in 1..Back : took[1] + drained + 1 = BlockCount + r
          BY <1>1, <4>1, <4>3, Queued
        <5>2. q[1].mem = lent[r]
          BY <1>0, <1>14, <2>2, <4>1, <5>1 DEF Contents
        <5>3. r \in 1..t /\ r = t + 1 - BlockCount
          BY <3>0, <4>1, <5>1
        <5> QED
          BY <3>1, <4>3, <5>2, <5>3
      <4> QED
        BY <4>2, <4>3
    <3>3. ASSUME NEW n \in 1..(t + 1)
          PROVE  lent'[n] = IF n <= BlockCount THEN n ELSE lent'[n - BlockCount]
      <4>1. CASE n = t + 1
        BY <3>0, <3>2, <4>1
      <4>2. CASE n # t + 1
        <5>1. n \in 1..t /\ (n > BlockCount => n - BlockCount \in 1..t)
          BY <3>0, <4>2
        <5>2. lent[n] = IF n <= BlockCount THEN n ELSE lent[n - BlockCount]
          BY <1>0, <5>1 DEF Rotation
        <5>3. lent'[n] = lent[n] /\ (n > BlockCount => lent'[n - BlockCount] = lent[n - BlockCount])
          BY <3>1, <5>1
        <5>4. CASE n <= BlockCount
          BY <5>2, <5>3, <5>4
        <5>5. CASE ~(n <= BlockCount)
          <6>1. n > BlockCount
            BY <3>0, <5>1, <5>5
          <6> QED
            BY <5>2, <5>3, <5>5, <6>1
        <5> QED
          BY <5>4, <5>5
      <4> QED
        BY <4>1, <4>2
    <3>4. ASSUME NEW a \in 1..(t + 1), NEW b \in 1..(t + 1), a < b, b < a + BlockCount
          PROVE  lent'[a] # lent'[b]
      <4>0. a \in 1..t
        BY <3>0, <3>4
      <4>1. CASE b # t + 1
        <5>1. b \in 1..t
          BY <3>0, <4>1
        <5> QED
          BY <1>0, <3>1, <3>4, <4>0, <5>1 DEF Rotation
      <4>2. CASE b = t + 1 /\ b <= BlockCount
        BY <3>0, <3>3, <3>4, <4>0, <4>2
      <4>3. CASE b = t + 1 /\ b > BlockCount
        <5>1. b - BlockCount \in 1..t /\ b - BlockCount < a /\ a < (b - BlockCount) + BlockCount
          BY <3>0, <3>4, <4>3
        <5>2. lent[b - BlockCount] # lent[a]
          BY <1>0, <4>0, <5>1 DEF Rotation
        <5>3. lent'[b] = lent[b - BlockCount]
          BY <3>0, <3>1, <3>3, <4>3, <5>1
        <5> QED
          BY <3>1, <4>0, <5>2, <5>3
      <4> QED
        BY <3>0, <4>1, <4>2, <4>3
    <3> QED
      BY <3>0, <3>1, <3>3, <3>4 DEF Rotation
  <2> QED
    BY <2>1, <2>2
<1>24. Data'
  <2>1. Filled' = Filled
    BY <1>0, <1>1, <1>6 DEF Filled, TypeOK
  <2>2. ASSUME NEW n \in 1..Filled, n > took'[1] - BlockCount PROVE content[lent'[n]] = n
    <3>1. n \in 1..took[1] /\ n > took[1] - BlockCount /\ took[1] \in Nat
      <4>1. /\ took[1] \in Nat /\ Filled \in Nat /\ Filled <= took[1] /\ BlockCount \in Nat
            /\ took'[1] = took[1] \/ took'[1] = took[1] + 1
        BY <1>0, <1>1, <1>6, FilledNumber, Numbers
      <4> QED
        BY <2>2, <4>1
    <3>2. lent'[n] = lent[n]
      <4>1. CASE k = 1
        BY <1>0, <1>5, <1>10, <3>1, <4>1, AppendProperties DEF TypeOK, Rotation
      <4> QED
        BY <1>14, <4>1
    <3> QED
      BY <1>0, <2>2, <3>1, <3>2 DEF Data
  <2> QED
    BY <1>5, <2>1, <2>2 DEF Data
<1> QED
  BY <1>11, <1>12, <1>15, <1>16, <1>17, <1>22, <1>23, <1>24 DEF IInv

-----------------------------------------------------------------------------
(* A thread passes a block on. *)

\* There is always room: what a queue holds is less than BlockCount while its
\* writer has a block.
LEMMA Room ==
  ASSUME IInv, NEW k \in 1..links, Holding(k)
  PROVE  /\ Len(queue[Out(k)]) < BlockCount
         /\ Out(k) \in 0..MaxThreads
         /\ Out(k) = 0 <=> complete /\ k = links
         /\ Out(k) # 0 => Out(k) = k /\ k \in 1..(MaxThreads - 1) /\ k + 1 \in Threads
<1>0. TypeOK /\ Owner /\ Lengths /\ Places
  BY DEF IInv
<1>1. /\ Running /\ k \in Threads /\ took[k] \in Nat /\ Gave(k) = took[k] - 1 /\ links \in Nat
      /\ 1 \in Threads /\ BlockCount \in Nat \ {0} /\ drained \in Nat /\ k \in Nat /\ k >= 1
  BY <1>0, Numbers, ChainAssumption DEF Running, Threads
<1>2. /\ took[1] \in Nat /\ Back \in Nat /\ took[k] <= took[1] /\ Back <= Gave(k)
      /\ took[1] + drained <= BlockCount + Back
  BY <1>1, Between
<1>3. CASE complete /\ k = links
  <2>1. Out(k) = 0 /\ Len(queue[0]) = BlockCount + Back - took[1] - drained /\ Back = took[k] - 1
    BY <1>0, <1>1, <1>3 DEF Out, Lengths, Back
  <2>2. Len(queue[0]) < BlockCount
    BY <1>1, <1>2, <2>1, SMTT(30)
  <2>3. 0 \in 0..MaxThreads
    BY ChainAssumption
  <2> QED
    BY <1>3, <2>1, <2>2, <2>3
<1>4. CASE ~(complete /\ k = links)
  <2>1. Out(k) = k /\ k \in 1..(MaxThreads - 1) /\ k + 1 \in Threads
    BY <1>0, <1>1, <1>4, Numbers DEF Out, Owner, Threads
  <2>2. Len(queue[k]) = (took[k] - 1) - took[k + 1] /\ took[k + 1] \in Nat
    BY <1>0, <1>1, <1>4, <2>1, Numbers DEF Lengths
  <2>3. took[k] - 1 - took[k + 1] < BlockCount
    <3>1. CASE ~complete
      BY <1>1, <1>2, <2>2, <3>1 DEF Back
    <3>2. CASE complete
      <4>1. k + 1 \in 2..links
        BY <1>0, <1>1, <1>4, <2>1, <3>2, Numbers
      <4>2. Back <= took[k + 1]
        BY <1>1, <4>1, Between
      <4> QED
        BY <1>1, <1>2, <2>2, <4>2
    <3> QED
      BY <3>1, <3>2
  <2>4. Len(queue[k]) < BlockCount /\ k \in 0..MaxThreads /\ k # 0
    BY <1>0, <1>1, <2>1, <2>2, <2>3, Numbers, SMTT(30)
  <2> QED
    BY <1>4, <2>1, <2>4
<1> QED
  BY <1>3, <1>4

LEMMA PutIInv ==
  ASSUME IInv, NEW k \in Threads, Put(k) \/ Pass(k)
  PROVE  IInv'
<1> DEFINE o == Out(k)  q == queue[o]
<1>0. TypeOK /\ Owner /\ Places /\ Order /\ Lengths /\ Contents /\ Rotation /\ Data
  BY DEF IInv
<1>1. /\ k \in 1..links /\ k \in Nat /\ Running /\ pc[k] \in {"put", "pass"} /\ Holding(k)
      /\ 1 \in Threads /\ 1 \in 1..links /\ links \in Nat
  BY <1>0, Numbers DEF Put, Pass, Running, Threads, Holding
<1>2. /\ o \in 0..MaxThreads /\ q \in Seq(Block) /\ Len(q) \in Nat /\ cur[k] \in Block
      /\ o = 0 <=> complete /\ k = links
      /\ o # 0 => o = k /\ k \in 1..(MaxThreads - 1) /\ k + 1 \in Threads
  BY <1>0, <1>1, Room, Numbers DEF TypeOK
<1>3. /\ queue' = [queue EXCEPT ![o] = Append(q, cur[k])]
      /\ pc' = [pc EXCEPT ![k] = IF pc[k] = "put" THEN "take" ELSE "done"]
      /\ UNCHANGED <<main, rounds, links, complete, content, cur, drained, took, lent>>
  BY DEF Put, Pass, Produce
<1>4. /\ pc'[k] = IF pc[k] = "put" THEN "take" ELSE "done"
      /\ \A j \in Threads : j # k => pc'[j] = pc[j] /\ (Holding(j)' <=> Holding(j))
      /\ ~Holding(k)'
      /\ \A j \in Threads : pc'[j] \in {"pass", "done"} <=> pc[j] \in {"pass", "done"}
  BY <1>0, <1>1, <1>3 DEF TypeOK, Holding
<1>5. /\ Gave(k)' = took[k] /\ Gave(k) = took[k] - 1
      /\ took[k] \in Nat /\ took[k] >= 1
      /\ \A j \in Threads : j # k => Gave(j)' = Gave(j)
  <2>1. \A j \in Threads : j # k => Gave(j)' = Gave(j)
    BY <1>3, <1>4 DEF Gave
  <2>2. Gave(k)' = took[k] /\ Gave(k) = took[k] - 1 /\ took[k] \in Nat /\ took[k] >= 1
    BY <1>0, <1>1, <1>3, <1>4, Numbers DEF Gave, Places
  <2> QED
    BY <2>1, <2>2
<1>6. /\ Back' = IF o = 0 THEN took[k] ELSE Back
      /\ o = 0 => Back = took[k] - 1
  <2>1. CASE o = 0
    BY <1>2, <1>3, <1>5, <2>1 DEF Back
  <2>2. CASE o # 0 /\ complete
    <3>1. links # k /\ links \in Threads
      BY <1>0, <1>1, <1>2, <2>2, Numbers DEF Threads
    <3> QED
      BY <1>3, <1>5, <2>2, <3>1 DEF Back
  <2>3. CASE ~complete
    BY <1>2, <1>3, <2>3 DEF Back
  <2> QED
    BY <2>1, <2>2, <2>3
<1>7. Ended' <=> Ended
  BY <1>1, <1>4 DEF Ended
<1>8. /\ queue'[o] = Append(q, cur[k])
      /\ Len(queue'[o]) = Len(queue[o]) + 1 /\ queue'[o][Len(queue[o]) + 1] = cur[k]
      /\ \A n \in 1..Len(queue[o]) : queue'[o][n] = queue[o][n]
      /\ \A i \in 0..MaxThreads : i # o => queue'[i] = queue[i]
      /\ queue' \in [0..MaxThreads -> Seq(Block)]
  BY <1>0, <1>2, <1>3, AppendProperties DEF TypeOK
<1> HIDE DEF o, q
<1>9. TypeOK'
  BY <1>0, <1>3, <1>8 DEF TypeOK
<1>10. Owner'
  <2>1. \A j \in 1..links : pc[j] = "done" => pc'[j] = "done"
    BY <1>0, <1>1, <1>4, Numbers
  <2> QED
    BY <1>0, <1>1, <1>3, <2>1 DEF Owner, Running
<1>11. Places'
  <2>1. ASSUME NEW j \in Threads
        PROVE  /\ (j > links <=> pc[j] = "none")'
               /\ (pc[j] \in {"none", "init"} => took[j] = 0)'
               /\ (pc[j] \notin {"none", "init"} => took[j] >= 1)'
               /\ (pc[j] \in {"pass", "done"} => IsLast(took[j]))'
               /\ (pc[j] \in {"work", "put", "take"} => ~IsLast(took[j]))'
    <3>1. CASE j # k
      BY <1>0, <1>3, <1>4, <1>7, <3>1 DEF Places, IsLast
    <3>2. CASE j = k
      <4>1. k \in Threads /\ ~(k > links)
        BY <1>0, <1>1, Numbers
      <4>2. pc[k] = "pass" <=> IsLast(took[k])
        BY <1>0, <1>1 DEF Places
      <4> QED
        BY <1>1, <1>3, <1>4, <1>5, <1>7, <3>2, <4>1, <4>2 DEF IsLast
    <3> QED
      BY <3>1, <3>2
  <2> QED
    BY <2>1 DEF Places
<1>12. Order'
  <2>1. ASSUME NEW j \in 1..links, NEW l \in 1..links, j < l PROVE Gave(j)' >= took'[l]
    <3>1. Gave(j) >= took[l] /\ j \in Threads /\ l \in Threads /\ took[l] \in Nat /\ Gave(j) \in Int
      BY <1>0, <2>1, Numbers DEF Order
    <3> QED
      BY <1>3, <1>5, <3>1
  <2>2. took'[1] + drained <= BlockCount + Back'
    <3>1. /\ took[1] \in Nat /\ Back \in Nat /\ BlockCount \in Nat /\ drained \in Nat
          /\ took[1] + drained <= BlockCount + Back
      BY <1>0, <1>1, Between, Numbers
    <3>2. Back' = Back \/ Back' = Back + 1
      BY <1>5, <1>6
    <3> QED
      BY <1>3, <3>1, <3>2
  <2> QED
    BY <1>3, <2>1, <2>2 DEF Order
<1>13. Lengths'
  <2>1. Len(queue'[0]) = BlockCount + Back' - took[1] - drained
    <3>1. /\ took[1] \in Nat /\ Back \in Nat /\ BlockCount \in Nat /\ drained \in Nat
          /\ Len(queue[0]) = BlockCount + Back - took[1] - drained
      BY <1>0, <1>1, Between, Numbers DEF Lengths
    <3>2. CASE o = 0
      <4>1. Len(queue'[0]) = Len(queue[0]) + 1
        BY <1>8, <3>2
      <4>2. Back' = took[k] /\ Back = took[k] - 1 /\ took[k] \in Nat
        BY <1>5, <1>6, <3>2
      <4> QED
        BY <3>1, <4>1, <4>2, SMTT(30)
    <3>3. CASE o # 0
      <4>1. queue'[0] = queue[0]
        BY <1>0, <1>8, <3>3, ChainAssumption
      <4> QED
        BY <1>6, <3>1, <3>3, <4>1
    <3> QED
      BY <3>2, <3>3
  <2>2. ASSUME NEW i \in 1..(MaxThreads - 1)
        PROVE  Len(queue'[i]) = IF complete /\ i = links THEN 0 ELSE Gave(i)' - took[i + 1]
    <3>1. /\ Len(queue[i]) = IF complete /\ i = links THEN 0 ELSE Gave(i) - took[i + 1]
          /\ i \in Threads /\ i + 1 \in Threads /\ i \in 0..MaxThreads /\ took[i + 1] \in Nat
          /\ Gave(i) \in Int /\ i # 0
      BY <1>0, Numbers, SMTT(30) DEF Lengths, Threads
    <3>2. CASE i = o
      <4>1. i = k /\ ~(complete /\ i = links) /\ Len(queue'[i]) = Len(queue[i]) + 1
        BY <1>2, <1>8, <3>1, <3>2
      <4>2. Len(queue[i]) = Gave(i) - took[i + 1] /\ Gave(i)' = Gave(i) + 1
        BY <1>5, <3>1, <4>1
      <4> QED
        BY <3>1, <4>1, <4>2
    <3>3. CASE i # o
      <4>1. i = k => complete /\ i = links
        BY <1>2, <3>1, <3>3
      <4> QED
        BY <1>5, <1>8, <3>1, <3>3, <4>1
    <3> QED
      BY <3>2, <3>3
  <2> QED
    BY <1>3, <2>1, <2>2 DEF Lengths
<1>14. cur[k].mem = MemoryOf(took[k])
  BY <1>0, <1>1 DEF Contents
<1>15. ASSUME NEW i \in 1..(MaxThreads - 1), NEW n \in 1..Len(queue'[i])
       PROVE  queue'[i][n].mem = MemoryOf(took[i + 1] + n)
  <2>1. i \in 0..MaxThreads /\ Len(queue[i]) \in Nat /\ i # 0 /\ i \in Threads /\ i + 1 \in Threads
    BY <1>0, Numbers, SMTT(30) DEF Threads
  <2>2. CASE n \in 1..Len(queue[i])
    <3>1. queue'[i][n] = queue[i][n]
      BY <1>8, <2>1, <2>2
    <3> QED
      BY <1>0, <2>2, <3>1 DEF Contents
  <2>3. CASE n \notin 1..Len(queue[i])
    <3>1. i = o
      BY <1>8, <2>1, <2>3
    <3>2. n = Len(queue[i]) + 1 /\ queue'[i][n] = cur[k] /\ i = k /\ ~(complete /\ i = links)
      BY <1>2, <1>8, <2>1, <2>3, <3>1
    <3>3. Len(queue[i]) = Gave(i) - took[i + 1] /\ took[i + 1] \in Nat
      BY <1>0, <2>1, <3>2, Numbers DEF Lengths
    <3>4. took[i + 1] + n = took[k]
      BY <1>5, <2>1, <3>2, <3>3
    <3> QED
      BY <1>14, <3>2, <3>4
  <2> QED
    BY <2>2, <2>3
<1>16. ASSUME NEW n \in 1..Len(queue'[0])
       PROVE  /\ took[1] + drained + n <= BlockCount => queue'[0][n].mem = took[1] + drained + n
              /\ \A r \in 1..Back' :
                   took[1] + drained + n = BlockCount + r => queue'[0][n].mem = MemoryOf(r)
  <2>1. /\ Len(queue[0]) \in Nat /\ took[1] \in Nat /\ drained \in Nat /\ Back \in Nat
        /\ Len(queue[0]) = BlockCount + Back - took[1] - drained /\ BlockCount \in Nat
    BY <1>0, <1>1, Between, Numbers, SMTT(30) DEF Lengths
  <2>2. CASE n \in 1..Len(queue[0])
    <3>1. queue'[0][n] = queue[0][n]
      <4>1. o = 0 \/ queue'[0] = queue[0]
        BY <1>8, ChainAssumption
      <4> QED
        BY <1>8, <2>2, <4>1
    <3>2. took[1] + drained + n <= BlockCount + Back
      BY <2>1, <2>2
    <3>3. \A r \in 1..Back' : took[1] + drained + n = BlockCount + r => r \in 1..Back
      <4>1. Back' = Back \/ Back' = Back + 1
        BY <1>5, <1>6
      <4> QED
        BY <2>1, <2>2, <3>2, <4>1
    <3> QED
      BY <1>0, <2>2, <3>1, <3>3 DEF Contents
  <2>3. CASE n \notin 1..Len(queue[0])
    <3>1. o = 0
      BY <1>0, <1>8, <2>3, Numbers
    <3>2. n = Len(queue[0]) + 1 /\ queue'[0][n] = cur[k]
      BY <1>8, <2>1, <2>3, <3>1, SMTT(30)
    <3>3. took[1] + drained + n = BlockCount + took[k] /\ took[k] \in Nat /\ took[k] >= 1
      <4>1. Len(queue[0]) + 1 = BlockCount + (took[k] - 1) - took[1] - drained + 1
        BY <1>6, <2>1, <3>1
      <4>2. took[k] \in Nat /\ took[k] >= 1
        BY <1>5, <2>1
      <4>3. PICK B \in Nat, taken \in Nat, wiped \in Nat, r \in Nat, len \in Nat :
              B = BlockCount /\ taken = took[1] /\ wiped = drained /\ r = took[k] /\ len = Len(queue[0])
        BY <2>1, <4>2
      <4>4. len + 1 = B + (r - 1) - taken - wiped + 1 /\ n = len + 1
        BY <3>2, <4>1, <4>3
      <4>5. taken + wiped + n = B + r
        BY <4>4
      <4> QED
        BY <4>2, <4>3, <4>5
    <3>4. \A r \in 1..Back' : BlockCount + took[k] = BlockCount + r => r = took[k]
      BY <1>5, <1>6, <2>1, <3>1
    <3>5. ~(took[1] + drained + n <= BlockCount)
      BY <2>1, <3>3
    <3>6. \A r \in 1..Back' :
            took[1] + drained + n = BlockCount + r => queue'[0][n].mem = MemoryOf(r)
      BY <1>14, <3>2, <3>3, <3>4
    <3> QED
      BY <3>5, <3>6
  <2> QED
    BY <2>2, <2>3
<1>17. ASSUME NEW j \in 1..links, Holding(j)' PROVE cur[j].mem = MemoryOf(took[j])
  BY <1>0, <1>4, <1>17, Numbers DEF Contents
<1>18. Contents'
  BY <1>3, <1>7, <1>15, <1>16, <1>17 DEF Contents, MemoryOf, IsLast
<1>19. Rotation'
  BY <1>0, <1>3 DEF Rotation
<1>20. Data'
  <2>1. Filled' = Filled
    BY <1>0, <1>1, <1>3, <1>4 DEF Filled, TypeOK
  <2> QED
    BY <1>0, <1>3, <2>1 DEF Data
<1> QED
  BY <1>9, <1>10, <1>11, <1>12, <1>13, <1>18, <1>19, <1>20 DEF IInv

-----------------------------------------------------------------------------
(* A thread works on its block. *)

\* A step of thread k that moves no block: only its place and the size of its
\* block change.
LEMMA StaysIInv ==
  ASSUME IInv, NEW k \in 1..links, pc[k] = "work", pc' = [pc EXCEPT ![k] = "put"],
         cur' \in [Threads -> Block], \A j \in Threads : cur'[j].mem = cur[j].mem,
         content' \in [Memory -> Nat], Data',
         UNCHANGED <<main, rounds, links, complete, queue, drained, took, lent>>
  PROVE  IInv'
<1>0. TypeOK /\ Owner /\ Places /\ Order /\ Lengths /\ Contents /\ Rotation
  BY DEF IInv
<1>1. k \in Threads /\ 1 \in Threads /\ 1 \in 1..links
  BY <1>0, Numbers, ChainAssumption DEF Threads
<1>2. /\ pc'[k] = "put" /\ pc' \in [Threads -> {"none", "init", "work", "put", "take", "pass", "done"}]
      /\ \A j \in Threads : j # k => pc'[j] = pc[j]
      /\ \A j \in Threads : Holding(j)' <=> Holding(j)
      /\ \A j \in Threads : pc[j] = "done" => pc'[j] = "done"
      /\ \A j \in Threads : pc'[j] \in {"pass", "done"} <=> pc[j] \in {"pass", "done"}
  BY <1>0, <1>1 DEF TypeOK, Holding
<1>3. \A j \in Threads : Gave(j)' = Gave(j)
  BY <1>2 DEF Gave
<1>4. Back' = Back /\ (Ended' <=> Ended)
  BY <1>0, <1>1, <1>2, <1>3, Numbers DEF Back, Ended, Owner, Threads
<1>5. TypeOK'
  BY <1>0, <1>2 DEF TypeOK
<1>6. Owner'
  BY <1>0, <1>2, Numbers DEF Owner, Running
<1>7. Places'
  <2>1. ASSUME NEW j \in Threads
        PROVE  /\ (j > links <=> pc[j] = "none")'
               /\ (pc[j] \in {"none", "init"} => took[j] = 0)'
               /\ (pc[j] \notin {"none", "init"} => took[j] >= 1)'
               /\ (pc[j] \in {"pass", "done"} => IsLast(took[j]))'
               /\ (pc[j] \in {"work", "put", "take"} => ~IsLast(took[j]))'
    <3>1. CASE j # k
      BY <1>0, <1>2, <1>4, <3>1 DEF Places, IsLast
    <3>2. CASE j = k
      BY <1>0, <1>1, <1>2, <1>4, <3>2 DEF Places, IsLast
    <3> QED
      BY <3>1, <3>2
  <2> QED
    BY <2>1 DEF Places
<1>8. Order'
  BY <1>0, <1>3, <1>4, Numbers DEF Order, Running
<1>9. Lengths'
  <2>1. \A i \in 1..(MaxThreads - 1) : i \in Threads
    BY ChainAssumption DEF Threads
  <2> QED
    BY <1>0, <1>3, <1>4, <2>1 DEF Lengths, Running
<1>10. Contents'
  <2>1. \A j \in 1..links : Holding(j)' => cur'[j].mem = MemoryOf(took[j])
    BY <1>0, <1>2, Numbers DEF Contents
  <2> QED
    BY <1>0, <1>4, <2>1, SMTT(30) DEF Contents, MemoryOf, IsLast
<1>11. Rotation'
  BY <1>0 DEF Rotation
<1> QED
  BY <1>5, <1>6, <1>7, <1>8, <1>9, <1>10, <1>11 DEF IInv

LEMMA WorkIInv ==
  ASSUME IInv, NEW k \in Threads, Work(k)
  PROVE  IInv'
<1>0. TypeOK /\ Data
  BY DEF IInv
<1>1. /\ k \in 1..links /\ k # 1 /\ pc[k] = "work" /\ pc' = [pc EXCEPT ![k] = "put"] /\ 1 \in Threads
      /\ UNCHANGED <<main, rounds, links, complete, queue, content, drained, took, lent>>
  BY <1>0, Numbers, ChainAssumption DEF Work, Threads
<1>2. PICK full \in BOOLEAN : cur' = [cur EXCEPT ![k].full = full]
  <2>1. CASE Out(k) = 0
    BY <2>1 DEF Work
  <2>2. CASE Out(k) # 0
    <3>1. PICK full \in BOOLEAN : cur' = [cur EXCEPT ![k].full = cur[k].full /\ full]
      BY <2>2 DEF Work
    <3>2. cur[k].full \in BOOLEAN
      BY <1>0 DEF TypeOK, Block
    <3>3. (cur[k].full /\ full) \in BOOLEAN
      BY <3>2
    <3> QED
      BY <3>1, <3>3
  <2> QED
    BY <2>1, <2>2
<1>3. cur' \in [Threads -> Block] /\ \A j \in Threads : cur'[j].mem = cur[j].mem
  BY <1>0, <1>2 DEF TypeOK, Block
<1>4. Data'
  <2>1. Filled' = Filled
    BY <1>0, <1>1 DEF Filled, TypeOK
  <2> QED
    BY <1>0, <1>1, <2>1 DEF Data
<1> QED
  BY <1>0, <1>1, <1>3, <1>4, StaysIInv DEF TypeOK

LEMMA FillIInv ==
  ASSUME IInv, Fill
  PROVE  IInv'
<1>0. TypeOK /\ Rotation /\ Data /\ Contents /\ Places
  BY DEF IInv
<1>1. /\ 1 \in 1..links /\ pc[1] = "work" /\ pc' = [pc EXCEPT ![1] = "put"] /\ 1 \in Threads
      /\ content' = [content EXCEPT ![cur[1].mem] = took[1]]
      /\ UNCHANGED <<main, rounds, links, complete, queue, drained, took, lent>>
  BY <1>0, Numbers, ChainAssumption DEF Fill, Threads
<1>2. PICK full \in BOOLEAN : cur' = [cur EXCEPT ![1].full = full]
  BY DEF Fill
<1>3. cur' \in [Threads -> Block] /\ \A j \in Threads : cur'[j].mem = cur[j].mem
  BY <1>0, <1>2 DEF TypeOK, Block
<1>4. took[1] \in Nat /\ took[1] >= 1 /\ took[1] \in 1..took[1] /\ BlockCount \in Nat
  BY <1>0, <1>1, Numbers DEF Places
<1>5. cur[1].mem = lent[took[1]] /\ lent[took[1]] \in Memory
  BY <1>0, <1>1, <1>4, MemoryGood DEF Contents, Holding, MemoryOf, IsLast, Ended
<1>6. content' \in [Memory -> Nat]
  BY <1>0, <1>1, <1>4 DEF TypeOK
<1>7. Data'
  <2>1. Filled' = took[1] /\ Filled = took[1] - 1
    BY <1>0, <1>1 DEF Filled, TypeOK
  <2>2. ASSUME NEW n \in 1..took[1], n > took[1] - BlockCount PROVE content'[lent[n]] = n
    <3>1. CASE n = took[1]
      BY <1>0, <1>1, <1>5, <3>1 DEF TypeOK
    <3>2. CASE n # took[1]
      <4>1. n \in 1..(took[1] - 1) /\ n < took[1] /\ took[1] < n + BlockCount
        BY <1>4, <2>2, <3>2
      <4>2. lent[n] # lent[took[1]] /\ lent[n] \in Memory
        BY <1>0, <1>4, <2>2, <4>1, MemoryGood DEF Rotation
      <4>3. content[lent[n]] = n
        BY <1>0, <2>1, <2>2, <4>1 DEF Data
      <4> QED
        BY <1>0, <1>1, <1>5, <4>2, <4>3 DEF TypeOK
    <3> QED
      BY <3>1, <3>2
  <2> QED
    BY <1>1, <2>1, <2>2 DEF Data
<1> QED
  BY <1>1, <1>3, <1>6, <1>7, StaysIInv

\* The end of the data: the number of the block the lead holds is the last one.
\* Nobody else has seen it yet, so what the others have is as it was.
LEMMA PoisonIInv ==
  ASSUME IInv, Poison
  PROVE  IInv'
<1>0. TypeOK /\ Owner /\ Places /\ Order /\ Lengths /\ Contents /\ Rotation /\ Data
  BY DEF IInv
<1>1. /\ 1 \in 1..links /\ Running /\ pc[1] = "work" /\ pc' = [pc EXCEPT ![1] = "pass"]
      /\ cur' = [cur EXCEPT ![1].mem = Null] /\ 1 \in Threads /\ links \in Nat
      /\ UNCHANGED <<main, rounds, links, complete, queue, content, drained, took, lent>>
  BY <1>0, Numbers, ChainAssumption DEF Poison, Threads, Running
<1>2. /\ pc'[1] = "pass" /\ pc' \in [Threads -> {"none", "init", "work", "put", "take", "pass", "done"}]
      /\ \A j \in Threads : j # 1 => pc'[j] = pc[j] /\ cur'[j] = cur[j]
      /\ \A j \in Threads : Holding(j)' <=> Holding(j)
      /\ \A j \in Threads : pc[j] = "done" => pc'[j] = "done"
      /\ cur'[1].mem = Null /\ cur' \in [Threads -> Block]
  BY <1>0, <1>1 DEF TypeOK, Holding, Block
<1>3. \A j \in Threads : Gave(j)' = Gave(j)
  BY <1>1, <1>2 DEF Gave
<1>4. Back' = Back
  BY <1>0, <1>1, <1>3, Numbers DEF Back, Owner, Threads
<1>5. ~Ended /\ Ended'
  BY <1>1, <1>2 DEF Ended
<1>6. /\ took[1] \in Nat /\ took[1] >= 1 /\ Gave(1) = took[1] - 1
      /\ \A j \in 2..links : took[j] < took[1] /\ took[j] \in Nat /\ j \in Threads /\ Gave(j) <= took[j]
  <2>1. took[1] \in Nat /\ took[1] >= 1 /\ Gave(1) = took[1] - 1
    BY <1>0, <1>1, Numbers DEF Places, Holding
  <2>2. ASSUME NEW j \in 2..links
        PROVE  took[j] < took[1] /\ took[j] \in Nat /\ j \in Threads /\ Gave(j) <= took[j]
    <3>1. j \in 1..links /\ j \in Threads /\ took[j] <= Gave(1)
      BY <1>0, <1>1, Between, Numbers
    <3>2. took[j] \in Nat /\ Gave(j) <= took[j]
      BY <1>0, <3>1, Numbers
    <3> QED
      BY <2>1, <3>1, <3>2
  <2> QED
    BY <2>1, <2>2
<1> DEFINE NewMem(n) == IF Ended' /\ n = took[1] THEN Null ELSE lent[n]
<1>7. /\ \A n : n # took[1] => NewMem(n) = MemoryOf(n)
      /\ NewMem(took[1]) = Null
  BY <1>5 DEF MemoryOf, IsLast
<1> HIDE DEF NewMem
<1>8. TypeOK'
  BY <1>0, <1>1, <1>2 DEF TypeOK
<1>9. Owner'
  BY <1>0, <1>1, <1>2, Numbers DEF Owner, Running
<1>10. Places'
  <2>1. ASSUME NEW j \in Threads
        PROVE  /\ (j > links <=> pc[j] = "none")'
               /\ (pc[j] \in {"none", "init"} => took[j] = 0)'
               /\ (pc[j] \notin {"none", "init"} => took[j] >= 1)'
               /\ (pc[j] \in {"pass", "done"} => IsLast(took[j]))'
               /\ (pc[j] \in {"work", "put", "take"} => ~IsLast(took[j]))'
    <3>1. CASE j # 1
      <4>1. pc[j] \notin {"pass", "done"}
        BY <1>0, <1>5 DEF Places, IsLast
      <4>2. j \in 2..links => took[j] # took[1]
        BY <1>6
      <4>3. j \in 2..links \/ pc[j] = "none"
        BY <1>0, <1>1, <3>1 DEF Places, Threads
      <4> QED
        BY <1>0, <1>1, <1>2, <3>1, <4>1, <4>2, <4>3 DEF Places, IsLast
    <3>2. CASE j = 1
      BY <1>1, <1>2, <1>5, <1>6, <3>2 DEF IsLast
    <3> QED
      BY <3>1, <3>2
  <2> QED
    BY <2>1 DEF Places
<1>11. Order'
  BY <1>0, <1>1, <1>3, <1>4, Numbers DEF Order, Running
<1>12. Lengths'
  <2>1. \A i \in 1..(MaxThreads - 1) : i \in Threads
    BY ChainAssumption DEF Threads
  <2> QED
    BY <1>0, <1>1, <1>3, <1>4, <2>1 DEF Lengths, Running
<1>13. ASSUME NEW i \in 1..(MaxThreads - 1), NEW n \in 1..Len(queue[i])
       PROVE  queue[i][n].mem = NewMem(took[i + 1] + n)
  <2>1. took[i + 1] + n <= Gave(i) /\ took[i + 1] + n \in Nat
    BY <1>1, Queued
  <2>2. i \in Threads /\ took[i] \in Nat /\ Gave(i) \in Int /\ Gave(i) <= took[i]
    BY <1>0, Numbers DEF Threads
  <2>3. Gave(i) <= took[1] - 1
    <3>1. CASE i = 1
      BY <1>6, <3>1
    <3>2. CASE i \in 2..links
      BY <1>6, <2>2, <3>2
    <3>3. CASE i > links
      BY <1>0, <1>6, <2>2, <3>3 DEF Places
    <3> QED
      BY <1>1, <2>2, <3>1, <3>2, <3>3
  <2>4. took[i + 1] + n # took[1]
    BY <1>6, <2>1, <2>2, <2>3
  <2>5. queue[i][n].mem = MemoryOf(took[i + 1] + n)
    BY <1>0 DEF Contents
  <2> QED
    BY <1>7, <2>4, <2>5
<1>14. ASSUME NEW n \in 1..Len(queue[0])
       PROVE  \A r \in 1..Back : took[1] + drained + n = BlockCount + r => queue[0][n].mem = NewMem(r)
  <2>1. Back <= Gave(1) /\ Back \in Nat
    BY <1>1, Between
  <2>2. \A r \in 1..Back : r # took[1]
    BY <1>6, <2>1
  <2> QED
    BY <1>0, <1>7, <2>2 DEF Contents
<1>15. ASSUME NEW j \in 1..links, Holding(j)' PROVE cur'[j].mem = NewMem(took[j])
  <2>1. CASE j = 1
    BY <1>2, <1>7, <2>1
  <2>2. CASE j # 1
    <3>1. j \in 2..links
      BY <1>1, <2>2
    <3> QED
      BY <1>0, <1>2, <1>6, <1>7, <1>15, <3>1 DEF Contents
  <2> QED
    BY <2>1, <2>2
<1>16. Contents'
  BY <1>0, <1>1, <1>4, <1>13, <1>14, <1>15 DEF Contents, MemoryOf, IsLast, NewMem
<1>17. Rotation'
  BY <1>0, <1>1 DEF Rotation
<1>18. Data'
  <2>1. Filled' = Filled
    BY <1>1, <1>2 DEF Filled
  <2> QED
    BY <1>0, <1>1, <2>1 DEF Data
<1> QED
  BY <1>8, <1>9, <1>10, <1>11, <1>12, <1>16, <1>17, <1>18 DEF IInv

-----------------------------------------------------------------------------
(* The owner of the chain. *)

LEMMA InitIInv == Init => IInv
<1> SUFFICES ASSUME Init PROVE IInv
  OBVIOUS
<1>1. /\ BlockCount \in Nat \ {0} /\ MaxThreads \in Nat /\ MaxThreads >= 2 /\ 1 \in Threads
      /\ MaxRounds \in Nat
  BY ChainAssumption DEF Threads
<1>2. TypeOK
  <2>1. <<>> \in Seq(Block) /\ <<>> \in Seq(Memory)
    BY EmptySeq
  <2>2. NoBlock \in Block
    BY DEF NoBlock, Block
  <2>3. /\ queue \in [0..MaxThreads -> Seq(Block)] /\ cur \in [Threads -> Block]
        /\ lent \in Seq(Memory) /\ content \in [Memory -> Nat]
    BY <2>1, <2>2 DEF Init
  <2>4. rounds \in 0..MaxRounds /\ links \in 0..MaxThreads /\ drained \in 0..BlockCount
    BY <1>1 DEF Init
  <2>5. took \in [Threads -> Nat]
    BY DEF Init
  <2>6. pc \in [Threads -> {"none", "init", "work", "put", "take", "pass", "done"}]
    BY DEF Init
  <2>7. main = "idle" /\ complete \in BOOLEAN
    BY Zenon DEF Init
  <2> QED
    BY <2>3, <2>4, <2>5, <2>6, <2>7 DEF TypeOK
<1>3. links = 0 /\ ~complete /\ ~Running /\ \A k \in Threads : took[k] = 0 /\ pc[k] = "none" /\ Gave(k) = 0
  BY DEF Init, Running, Gave, Holding
<1>4. \A i \in 0..MaxThreads : Len(queue[i]) = 0
  BY EmptySeq DEF Init
<1>5. Owner
  BY <1>1, <1>3 DEF Init, Owner
<1>6. Places
  BY <1>3 DEF Places, Threads
<1>7. Order
  BY <1>3 DEF Order
<1>8. Lengths
  <2>1. \A i \in 1..(MaxThreads - 1) : i \in Threads /\ i + 1 \in Threads /\ i \in 0..MaxThreads
    BY <1>1 DEF Threads
  <2> QED
    BY <1>3, <1>4, <2>1 DEF Lengths
<1>9. Contents
  <2>1. \A i \in 0..MaxThreads : 1..Len(queue[i]) = {}
    BY <1>4
  <2>2. 0 \in 0..MaxThreads /\ \A i \in 1..(MaxThreads - 1) : i \in 0..MaxThreads
    BY <1>1
  <2> QED
    BY <1>3, <2>1, <2>2 DEF Contents
<1>10. Rotation
  BY <1>1, <1>3, EmptySeq DEF Init, Rotation
<1>11. Data
  BY <1>1, <1>3 DEF Data, Filled
<1> QED
  BY <1>2, <1>5, <1>6, <1>7, <1>8, <1>9, <1>10, <1>11 DEF IInv

\* One more thread, which has consumed nothing yet.
LEMMA MoreIInv ==
  ASSUME IInv, ~complete, links + 1 \in Threads, links' = links + 1,
         pc' = [pc EXCEPT ![links + 1] = "init"],
         complete' \in BOOLEAN, complete' => links >= 1, ~complete' => links + 1 < MaxThreads,
         main' \in {"idle", "joining"}, main' # "idle" => complete', rounds' \in 0..MaxRounds,
         drained = 0, queue'[0] \in Seq(Block), Len(queue'[0]) = BlockCount - took[1],
         \A n \in 1..Len(queue'[0]) :
           took[1] + n <= BlockCount => queue'[0][n].mem = took[1] + n,
         queue' = [queue EXCEPT ![0] = queue'[0]],
         UNCHANGED <<content, cur, drained, took, lent>>
  PROVE  IInv'
<1>0. TypeOK /\ Owner /\ Places /\ Order /\ Lengths /\ Contents /\ Rotation /\ Data
  BY DEF IInv
<1> DEFINE new == links + 1
<1>1. /\ links \in Nat /\ new \in Threads /\ 1 \in Threads /\ new \in Nat /\ BlockCount \in Nat \ {0}
      /\ MaxThreads \in Nat /\ links < MaxThreads /\ took[1] \in Nat /\ pc[new] = "none"
      /\ took[new] = 0 /\ \A j \in 1..links : j \in Threads
  BY <1>0, Numbers, ChainAssumption, SMTT(30) DEF Places, Threads
<1>2. /\ pc'[new] = "init" /\ pc' \in [Threads -> {"none", "init", "work", "put", "take", "pass", "done"}]
      /\ \A j \in Threads : j # new => pc'[j] = pc[j]
      /\ \A j \in Threads : Holding(j)' <=> Holding(j)
  BY <1>0, <1>1 DEF TypeOK, Holding
<1>3. /\ \A j \in Threads : Gave(j)' = Gave(j)
      /\ \A j \in Threads : j >= new => Gave(j) = 0 /\ took[j] = 0 /\ ~Holding(j)
  <2>1. ASSUME NEW j \in Threads, j >= new PROVE pc[j] = "none" /\ took[j] = 0
    BY <1>0, <1>1, <2>1 DEF Places, Threads
  <2> QED
    BY <1>2, <2>1 DEF Gave, Holding
<1>4. Back' = 0 /\ Back = 0
  BY <1>1, <1>3 DEF Back, Threads
<1>5. Ended' <=> Ended
  BY <1>1, <1>2 DEF Ended
<1>6. TypeOK'
  <2>1. queue' \in [0..MaxThreads -> Seq(Block)]
    BY <1>0 DEF TypeOK
  <2>2. links' \in 0..MaxThreads /\ drained' \in 0..BlockCount
    BY <1>1
  <2> QED
    BY <1>0, <1>2, <2>1, <2>2 DEF TypeOK
<1>7. Owner'
  BY <1>1 DEF Owner, Running, Threads
<1>8. Places'
  <2>1. ASSUME NEW j \in Threads
        PROVE  /\ (j > links <=> pc[j] = "none")'
               /\ (pc[j] \in {"none", "init"} => took[j] = 0)'
               /\ (pc[j] \notin {"none", "init"} => took[j] >= 1)'
               /\ (pc[j] \in {"pass", "done"} => IsLast(took[j]))'
               /\ (pc[j] \in {"work", "put", "take"} => ~IsLast(took[j]))'
    <3>1. CASE j # new
      <4>1. j > links' <=> j > links
        BY <1>1, <3>1 DEF Threads
      <4> QED
        BY <1>0, <1>2, <1>5, <3>1, <4>1 DEF Places, IsLast
    <3>2. CASE j = new
      BY <1>1, <1>2, <3>2
    <3> QED
      BY <3>1, <3>2
  <2> QED
    BY <2>1 DEF Places
<1>9. Order'
  <2>1. ASSUME NEW j \in 1..new, NEW l \in 1..new, j < l PROVE Gave(j)' >= took'[l]
    <3>1. j \in 1..links /\ j \in Threads /\ l \in Threads /\ Running
      BY <1>1, <2>1 DEF Threads, Running
    <3>2. Gave(j) \in Nat
      BY <3>1, Between
    <3>3. CASE l = new
      BY <1>1, <1>3, <3>1, <3>2, <3>3
    <3>4. CASE l # new
      <4>1. l \in 1..links
        BY <1>1, <3>4
      <4> QED
        BY <1>0, <1>3, <2>1, <3>1, <4>1 DEF Order
    <3> QED
      BY <3>3, <3>4
  <2>2. took'[1] + drained' <= BlockCount + Back'
    <3>1. Len(queue'[0]) \in Nat
      BY LenProperties
    <3> QED
      BY <1>1, <1>4, <3>1
  <2> QED
    BY <2>1, <2>2 DEF Order
<1>10. \A i \in 1..(MaxThreads - 1) : /\ queue'[i] = queue[i] /\ i \in Threads /\ i + 1 \in Threads
                                      /\ i # 0 /\ i \in 0..MaxThreads
  <2>1. \A i \in 1..(MaxThreads - 1) : i \in Threads /\ i + 1 \in Threads /\ i # 0 /\ i \in 0..MaxThreads
    BY <1>1 DEF Threads
  <2> QED
    BY <1>0, <2>1 DEF TypeOK
<1>11. Lengths'
  <2>1. Len(queue'[0]) = BlockCount + Back' - took'[1] - drained'
    BY <1>1, <1>4
  <2>2. ASSUME NEW i \in 1..(MaxThreads - 1)
        PROVE  Len(queue'[i]) = IF complete' /\ i = new THEN 0 ELSE Gave(i)' - took'[i + 1]
    <3>1. Len(queue'[i]) = Gave(i) - took[i + 1] /\ Gave(i)' = Gave(i)
      BY <1>0, <1>3, <1>10 DEF Lengths
    <3>2. i = new => Gave(i) - took[i + 1] = 0
      BY <1>1, <1>3, <1>10
    <3> QED
      BY <3>1, <3>2
  <2> QED
    BY <2>1, <2>2 DEF Lengths
<1>12. Contents'
  <2>1. ASSUME NEW i \in 1..(MaxThreads - 1), NEW n \in 1..Len(queue'[i])
        PROVE  queue'[i][n].mem = MemoryOf(took[i + 1] + n)
    BY <1>0, <1>10 DEF Contents
  <2>2. ASSUME NEW n \in 1..Len(queue'[0])
        PROVE  took'[1] + drained' + n <= BlockCount => queue'[0][n].mem = took'[1] + drained' + n
    <3>1. took'[1] + drained' + n = took[1] + n
      <4>1. n \in Nat
        BY LenProperties
      <4> QED
        BY <1>1, <4>1
    <3> QED
      BY <3>1
  <2>3. ASSUME NEW j \in 1..new, Holding(j) PROVE cur[j].mem = MemoryOf(took[j])
    <3>1. j \in Threads /\ j # new
      BY <1>1, <1>3, <2>3 DEF Threads
    <3>2. j \in 1..links
      BY <1>1, <2>3, <3>1
    <3> QED
      BY <1>0, <2>3, <3>2 DEF Contents
  <2>4. 1..Back' = {}
    BY <1>4
  <2>5. \A j \in 1..new : j \in Threads
    BY <1>1 DEF Threads
  <2> QED
    BY <1>2, <1>5, <2>1, <2>2, <2>3, <2>4, <2>5 DEF Contents, MemoryOf, IsLast
<1>13. Rotation'
  BY <1>0 DEF Rotation
<1>14. Data'
  <2>1. Filled' = Filled
    <3>1. pc'[1] = pc[1] \/ (pc'[1] = "init" /\ pc[1] = "none")
      BY <1>1, <1>2
    <3> QED
      BY <3>1 DEF Filled
  <2> QED
    BY <1>0, <2>1 DEF Data
<1> QED
  BY <1>6, <1>7, <1>8, <1>9, <1>11, <1>12, <1>13, <1>14 DEF IInv

\* The queue of the lead when nothing came round yet.
LEMMA NothingBack ==
  ASSUME IInv, Running, ~complete
  PROVE  /\ drained = 0 /\ queue[0] \in Seq(Block) /\ Len(queue[0]) = BlockCount - took[1]
         /\ \A n \in 1..Len(queue[0]) :
              took[1] + n <= BlockCount => queue[0][n].mem = took[1] + n
         /\ queue = [queue EXCEPT ![0] = queue[0]]
         /\ links + 1 \in Threads /\ links >= 1
<1>0. TypeOK /\ Owner /\ Lengths /\ Contents
  BY DEF IInv
<1>1. /\ drained = 0 /\ Back = 0 /\ took[1] \in Nat /\ BlockCount \in Nat /\ queue[0] \in Seq(Block)
      /\ Len(queue[0]) \in Nat /\ links + 1 \in Threads /\ links >= 1
      /\ queue = [queue EXCEPT ![0] = queue[0]]
  BY <1>0, Numbers, ChainAssumption DEF Owner, Back, Threads, Running, TypeOK
<1>2. Len(queue[0]) = BlockCount - took[1]
  BY <1>0, <1>1 DEF Lengths
<1>3. ASSUME NEW n \in 1..Len(queue[0]) PROVE took[1] + drained + n = took[1] + n
  BY <1>1
<1> QED
  BY <1>0, <1>1, <1>2, <1>3 DEF Contents

LEMMA AddIInv ==
  ASSUME IInv, AddThread \/ CompleteLoop \/ Wait
  PROVE  IInv'
<1>0. TypeOK /\ Owner /\ Places /\ Order /\ Lengths /\ Contents /\ Rotation /\ Data
  BY DEF IInv
<1>1. CASE AddThread /\ Running
  BY <1>0, <1>1, NothingBack, MoreIInv DEF AddThread, TypeOK
<1>2. CASE AddThread /\ ~Running
  <2>1. links = 0 /\ ~complete /\ took[1] = 0 /\ drained = 0 /\ 1 \in Threads /\ BlockCount \in Nat \ {0}
    BY <1>0, <1>2, ChainAssumption DEF Running, Places, Owner, Threads, AddThread
  <2>2. LeadQueue \in Seq(Block) /\ Len(LeadQueue) = BlockCount
    <3>1. LeadQueue \in [1..BlockCount -> Block]
      BY <2>1 DEF LeadQueue, Block, Memory
    <3> QED
      BY <2>1, <3>1, LenProperties
  <2>3. \A n \in 1..BlockCount : LeadQueue[n].mem = n
    BY DEF LeadQueue
  <2>4. queue' = [queue EXCEPT ![0] = LeadQueue] /\ queue'[0] = LeadQueue
    BY <1>0, <1>2, ChainAssumption DEF AddThread, TypeOK
  <2>5. Len(queue'[0]) = BlockCount - took[1]
    BY <2>1, <2>2, <2>4
  <2>6. \A n \in 1..Len(queue'[0]) : took[1] + n <= BlockCount => queue'[0][n].mem = took[1] + n
    BY <2>1, <2>2, <2>3, <2>4
  <2>7. rounds' \in 0..MaxRounds
    BY <1>0, <1>2, ChainAssumption DEF AddThread, TypeOK
  <2> QED
    BY <1>0, <1>2, <2>1, <2>2, <2>4, <2>5, <2>6, <2>7, MoreIInv DEF AddThread, TypeOK
<1>3. CASE CompleteLoop
  BY <1>0, <1>3, NothingBack, MoreIInv DEF CompleteLoop, TypeOK
<1>4. CASE Wait /\ ~complete
  BY <1>0, <1>4, NothingBack, MoreIInv DEF Wait, TypeOK
<1>5. CASE Wait /\ complete
  <2>1. /\ main = "idle" /\ main' = "joining" /\ complete /\ Running
        /\ UNCHANGED <<rounds, links, complete, queue, content, pc, cur, drained, took, lent>>
    BY <1>5 DEF Wait
  <2>2. TypeOK' /\ Owner'
    BY <1>0, <2>1 DEF TypeOK, Owner, Running
  <2>3. Places' /\ Order' /\ Lengths' /\ Rotation' /\ Data'
    BY <1>0, <2>1 DEF Places, Order, Lengths, Rotation, Data, Gave, Holding, Back, IsLast, Ended,
                      Filled, Running
  <2>4. Contents'
    BY <1>0, <2>1 DEF Contents, MemoryOf, IsLast, Ended, Holding, Back, Gave
  <2> QED
    BY <2>2, <2>3, <2>4 DEF IInv
<1> QED
  BY <1>1, <1>2, <1>3, <1>4, <1>5

\* The threads are joined when all of them have passed the poison on.
LEMMA JoinedIInv ==
  ASSUME IInv, Joined
  PROVE  IInv'
<1>0. TypeOK /\ Owner /\ Places /\ Order /\ Lengths /\ Contents /\ Rotation /\ Data
  BY DEF IInv
<1>1. /\ main = "joining" /\ main' = "draining" /\ drained' = 0 /\ drained = 0
      /\ \A k \in 1..links : pc[k] = "done"
      /\ UNCHANGED <<rounds, links, complete, queue, content, pc, cur, drained, took, lent>>
  BY <1>0 DEF Joined, Owner
<1>2. TypeOK' /\ Owner'
  BY <1>0, <1>1 DEF TypeOK, Owner, Running
<1>3. Places' /\ Order' /\ Lengths' /\ Rotation' /\ Data'
  BY <1>0, <1>1 DEF Places, Order, Lengths, Rotation, Data, Gave, Holding, Back, IsLast, Ended,
                    Filled, Running
<1>4. Contents'
  BY <1>0, <1>1 DEF Contents, MemoryOf, IsLast, Ended, Holding, Back, Gave
<1> QED
  BY <1>2, <1>3, <1>4 DEF IInv

\* What the front queue holds once the threads are joined: the blocks that came
\* round before the poison, and the poison.
LEMMA FrontQueue ==
  ASSUME IInv, main = "draining"
  PROVE  /\ Len(queue[0]) + drained = BlockCount
         /\ \A n \in 1..Len(queue[0]) : IsPoison(queue[0][n]) <=> n = Len(queue[0])
<1>0. TypeOK /\ Owner /\ Places /\ Lengths /\ Contents /\ Rotation
  BY DEF IInv
<1>1. /\ complete /\ Running /\ \A k \in 1..links : pc[k] = "done"
      /\ links \in 1..links /\ 1 \in 1..links /\ links \in Threads /\ 1 \in Threads
  BY <1>0, Numbers, ChainAssumption DEF Owner, Running, Threads
<1>2. Ended /\ took[links] = took[1] /\ took[1] \in Nat /\ took[1] >= 1
  BY <1>0, <1>1, Numbers DEF Ended, Places, IsLast
<1>3. Back = took[1]
  BY <1>1, <1>2, Numbers, <1>0 DEF Back, Holding
<1>4. Len(queue[0]) + drained = BlockCount /\ Len(queue[0]) \in Nat /\ drained \in Nat /\ BlockCount \in Nat
  <2>1. Len(queue[0]) = BlockCount + took[1] - took[1] - drained
    BY <1>0, <1>1, <1>3 DEF Lengths
  <2>2. Len(queue[0]) \in Nat /\ drained \in Nat /\ BlockCount \in Nat
    BY <1>0, Numbers, ChainAssumption
  <2> QED
    BY <1>2, <2>1, <2>2
<1>5. ASSUME NEW n \in 1..Len(queue[0])
      PROVE  IsPoison(queue[0][n]) <=> n = Len(queue[0])
  <2>1. CASE took[1] + drained + n <= BlockCount
    <3>1. queue[0][n].mem = took[1] + drained + n
      BY <1>0, <2>1 DEF Contents
    <3>2. took[1] + drained + n # 0 /\ n # Len(queue[0])
      BY <1>2, <1>4, <2>1
    <3> QED
      BY <3>1, <3>2 DEF IsPoison, Null
  <2>2. ASSUME NEW r \in 1..Back, took[1] + drained + n = BlockCount + r
        PROVE  IsPoison(queue[0][n]) <=> n = Len(queue[0])
    <3>1. queue[0][n].mem = MemoryOf(r)
      BY <1>0, <2>2 DEF Contents
    <3>2. r \in 1..took[1] /\ (MemoryOf(r) = Null <=> r = took[1])
      BY <1>2, <1>3, MemoryGood DEF IsLast
    <3>3. r = took[1] <=> n = Len(queue[0])
      BY <1>2, <1>4, <2>2, <3>2, SMTT(30)
    <3> QED
      BY <3>1, <3>2, <3>3 DEF IsPoison
  <2> QED
    BY <1>1, <2>1, <2>2, Queued
<1> QED
  BY <1>4, <1>5

LEMMA DrainBlockIInv ==
  ASSUME IInv, DrainBlock
  PROVE  IInv'
<1> DEFINE q == queue[0]
<1>0. TypeOK /\ Owner /\ Places /\ Order /\ Lengths /\ Contents /\ Rotation /\ Data
  BY DEF IInv
<1>1. /\ main = "draining" /\ q # <<>> /\ Running /\ complete /\ 0 \in 0..MaxThreads
      /\ queue' = [queue EXCEPT ![0] = Tail(q)]
      /\ UNCHANGED <<rounds, links, complete, content, pc, cur, took, lent>>
  BY <1>0, ChainAssumption DEF DrainBlock, Owner
<1>2. /\ q \in Seq(Block) /\ Len(q) \in Nat /\ Len(q) >= 1 /\ Tail(q) \in Seq(Block)
      /\ Len(Tail(q)) = Len(q) - 1 /\ \A i \in 1..(Len(q) - 1) : Tail(q)[i] = q[i + 1]
  <2>1. q \in Seq(Block)
    BY <1>0, <1>1, Numbers
  <2>2. Len(q) \in Nat /\ Len(q) >= 1
    BY <1>1, <2>1, EmptySeq
  <2> QED
    BY <1>1, <2>1, <2>2, HeadTailProperties
<1>3. /\ drained \in Nat /\ BlockCount \in Nat /\ Len(q) + drained = BlockCount
      /\ took[1] \in Nat /\ Back \in Nat
      /\ Len(queue[0]) = BlockCount + Back - took[1] - drained
  BY <1>0, <1>1, FrontQueue, Between, ChainAssumption, Numbers DEF Lengths
<1>4. main' = main /\ drained' = drained + 1 /\ drained' \in 0..BlockCount
  <2>1. drained # BlockCount /\ drained + 1 \in 0..BlockCount
    <3> HIDE DEF q
    <3>1. Len(q) \in Nat /\ Len(q) >= 1 /\ Len(q) + drained = BlockCount
      BY <1>2, <1>3
    <3>2. drained \in Nat /\ BlockCount \in Nat
      BY <1>3
    <3> QED
      BY <3>1, <3>2
  <2> QED
    BY <2>1 DEF DrainBlock
<1>5. /\ queue'[0] = Tail(q) /\ \A i \in 1..(MaxThreads - 1) : queue'[i] = queue[i]
      /\ queue' \in [0..MaxThreads -> Seq(Block)]
  BY <1>0, <1>1, <1>2, ChainAssumption DEF TypeOK
<1>6. TypeOK' /\ Owner'
  BY <1>0, <1>1, <1>4, <1>5 DEF TypeOK, Owner, Running
<1>7. /\ Back' = Back /\ (Ended' <=> Ended) /\ Filled' = Filled
      /\ \A k \in Threads : Gave(k)' = Gave(k)
  BY <1>1 DEF Back, Gave, Holding, Ended, Filled
<1>8. Places' /\ Rotation' /\ Data'
  BY <1>0, <1>1, <1>7 DEF Places, Rotation, Data, IsLast
<1>9. Lengths'
  <2>1. Len(queue'[0]) = BlockCount + Back - took[1] - drained'
    <3>1. Len(queue'[0]) = Len(q) - 1
      BY <1>2, <1>5
    <3>2. Len(q) = BlockCount + Back - took[1] - drained
      BY <1>3
    <3>3. Len(q) \in Nat /\ BlockCount \in Nat /\ Back \in Nat /\ took[1] \in Nat /\ drained \in Nat
      BY <1>2, <1>3
    <3> HIDE DEF q
    <3> QED
      BY <1>4, <3>1, <3>2, <3>3, SMTT(30)
  <2>2. \A i \in 1..(MaxThreads - 1) : i \in Threads
    BY ChainAssumption DEF Threads
  <2> QED
    BY <1>0, <1>1, <1>5, <1>7, <2>1, <2>2 DEF Lengths
<1>10. Order'
  <2>1. took[1] + drained' <= BlockCount + Back
    <3>1. Len(queue'[0]) = BlockCount + Back - took[1] - drained' /\ Len(queue'[0]) \in Nat
      BY <1>1, <1>2, <1>5, <1>7, <1>9 DEF Lengths, Running
    <3> QED
      BY <1>3, <1>4, <3>1
  <2> QED
    BY <1>0, <1>1, <1>7, <2>1, Numbers DEF Order
<1>11. Contents'
  <2>1. ASSUME NEW n \in 1..Len(queue'[0])
        PROVE  /\ took[1] + drained' + n <= BlockCount => queue'[0][n].mem = took[1] + drained' + n
               /\ \A r \in 1..Back :
                    took[1] + drained' + n = BlockCount + r => queue'[0][n].mem = MemoryOf(r)
    <3>1. n \in 1..(Len(q) - 1) /\ n + 1 \in 1..Len(q) /\ queue'[0][n] = q[n + 1]
      BY <1>2, <1>5
    <3>2. took[1] + drained' + n = took[1] + drained + (n + 1)
      <4>1. n \in Nat /\ took[1] \in Nat /\ drained \in Nat /\ drained' = drained + 1
        BY <1>2, <1>3, <1>4, <2>1, <1>5
      <4> QED
        BY <4>1, SMTT(30)
    <3> QED
      BY <1>0, <3>1, <3>2 DEF Contents
  <2>2. \A i \in 1..(MaxThreads - 1) : \A n \in 1..Len(queue'[i]) :
          queue'[i][n].mem = MemoryOf(took[i + 1] + n)
    BY <1>0, <1>5 DEF Contents
  <2>3. \A k \in 1..links : Holding(k)' => cur[k].mem = MemoryOf(took[k])
    BY <1>0, <1>1 DEF Contents, Holding
  <2> QED
    BY <1>1, <1>7, <2>1, <2>2, <2>3, SMTT(30) DEF Contents, MemoryOf, IsLast
<1> QED
  BY <1>6, <1>8, <1>9, <1>10, <1>11 DEF IInv

LEMMA DrainPoisonIInv ==
  ASSUME IInv, DrainPoison
  PROVE  IInv'
<1>0. TypeOK
  BY DEF IInv
<1>1. /\ BlockCount \in Nat \ {0} /\ MaxThreads \in Nat /\ MaxThreads >= 2 /\ 1 \in Threads
      /\ <<>> \in Seq(Block) /\ <<>> \in Seq(Memory) /\ NoBlock \in Block
  BY ChainAssumption, EmptySeq DEF Threads, NoBlock, Block
<1>2. /\ main' = "idle" /\ links' = 0 /\ complete' = FALSE /\ drained' = 0 /\ lent' = <<>>
      /\ queue' = [i \in 0..MaxThreads |-> <<>>] /\ cur' = [k \in Threads |-> NoBlock]
      /\ \A k \in Threads : took'[k] = 0 /\ pc'[k] = "none" /\ Gave(k)' = 0
      /\ took' = [k \in Threads |-> 0] /\ pc' = [k \in Threads |-> "none"]
      /\ rounds' = rounds /\ content' = content /\ ~Running'
  BY DEF DrainPoison, Gave, Holding, Running
<1>3. TypeOK'
  <2>1. queue' \in [0..MaxThreads -> Seq(Block)] /\ cur' \in [Threads -> Block]
    BY <1>1, <1>2
  <2>2. took' \in [Threads -> Nat]
    BY <1>2
  <2>3. pc' \in [Threads -> {"none", "init", "work", "put", "take", "pass", "done"}]
    BY <1>2
  <2>4. lent' \in Seq(Memory) /\ rounds' \in 0..MaxRounds /\ content' \in [Memory -> Nat]
    BY <1>0, <1>1, <1>2 DEF TypeOK
  <2>5. links' \in 0..MaxThreads /\ drained' \in 0..BlockCount
    BY <1>1, <1>2
  <2>6. complete' \in BOOLEAN
    BY <1>2, Zenon
  <2> QED
    BY <1>2, <2>1, <2>2, <2>3, <2>4, <2>5, <2>6 DEF TypeOK
<1>4. \A i \in 0..MaxThreads : Len(queue'[i]) = 0
  BY <1>2, EmptySeq
<1>5. Owner'
  BY <1>1, <1>2 DEF Owner
<1>6. Places'
  BY <1>2 DEF Places, Threads
<1>7. Order'
  BY <1>2 DEF Order
<1>8. Lengths'
  <2>1. \A i \in 1..(MaxThreads - 1) : i \in Threads /\ i + 1 \in Threads /\ i \in 0..MaxThreads
    BY <1>1 DEF Threads
  <2> QED
    BY <1>2, <1>4, <2>1 DEF Lengths
<1>9. Contents'
  <2>1. \A i \in 0..MaxThreads : 1..Len(queue'[i]) = {}
    BY <1>4
  <2>2. 0 \in 0..MaxThreads /\ \A i \in 1..(MaxThreads - 1) : i \in 0..MaxThreads
    BY <1>1
  <2> QED
    BY <1>2, <2>1, <2>2 DEF Contents
<1>10. Rotation'
  BY <1>1, <1>2, EmptySeq DEF Rotation
<1>11. Data'
  BY <1>1, <1>2 DEF Data, Filled
<1> QED
  BY <1>3, <1>5, <1>6, <1>7, <1>8, <1>9, <1>10, <1>11 DEF IInv

-----------------------------------------------------------------------------
LEMMA StutterIInv ==
  ASSUME IInv, UNCHANGED vars
  PROVE  IInv'
<1>1. TypeOK' /\ Owner'
  BY DEF IInv, vars, TypeOK, Owner, Running
<1>2. Places' /\ Order' /\ Lengths' /\ Rotation' /\ Data'
  BY DEF IInv, vars, Places, Order, Lengths, Rotation, Data, Gave, Holding, Back, IsLast, Ended,
         Filled, Running
<1>3. Contents'
  BY DEF IInv, vars, Contents, MemoryOf, IsLast, Ended, Holding, Back, Gave
<1> QED
  BY <1>1, <1>2, <1>3 DEF IInv

LEMMA NextIInv == IInv /\ [Next]_vars => IInv'
<1> SUFFICES ASSUME IInv, [Next]_vars PROVE IInv'
  OBVIOUS
<1>1. CASE AddThread \/ CompleteLoop \/ Wait
  BY <1>1, AddIInv
<1>2. CASE WaitStep
  BY <1>2, JoinedIInv, DrainBlockIInv, DrainPoisonIInv DEF WaitStep
<1>3. ASSUME NEW k \in Threads, ThreadStep(k) PROVE IInv'
  BY <1>3, ConsumeIInv, PutIInv, WorkIInv, FillIInv, PoisonIInv DEF ThreadStep
<1>4. CASE UNCHANGED vars
  BY <1>4, StutterIInv
<1> QED
  BY <1>1, <1>2, <1>3, <1>4 DEF Next

THEOREM Invariance == Spec => []IInv
BY InitIInv, NextIInv, PTL DEF Spec

\* The types of the chain.
THEOREM TypeCorrect == Spec => []TypeOK
<1>1. IInv => TypeOK
  BY DEF IInv
<1> QED
  BY <1>1, Invariance, PTL

\* No thread ever waits for room in a queue, with any number of threads.
THEOREM NeverWaitsForRoom == Spec => []ProduceNeverWaits
<1>1. IInv => ProduceNeverWaits
  BY Room DEF ProduceNeverWaits, Holding
<1> QED
  BY <1>1, Invariance, PTL

\* The n-th block a thread works on has in it the n-th block of data.
THEOREM DataInOrder == Spec => []DeliveredInOrder
<1>1. ASSUME IInv PROVE DeliveredInOrder
  <2> SUFFICES ASSUME NEW k \in 2..links, pc[k] = "work"
               PROVE  content[cur[k].mem] = took[k]
    BY DEF DeliveredInOrder
  <2>0. TypeOK /\ Places /\ Contents /\ Data /\ Running /\ k \in 1..links /\ k \in Threads
        /\ took[1] \in Nat /\ BlockCount \in Nat /\ drained \in Nat
    BY <1>1, Numbers, ChainAssumption DEF IInv, Running, Threads
  <2>1. Holding(k) /\ ~IsLast(took[k]) /\ took[k] \in Nat /\ took[k] >= 1 /\ Gave(k) = took[k] - 1
    BY <1>1, <2>0, Numbers DEF Holding, Places
  <2>2. cur[k].mem = lent[took[k]]
    BY <2>0, <2>1 DEF Contents, MemoryOf
  <2>3. took[k] <= Filled /\ Filled \in Nat
    BY <1>1, <2>0, <2>1, Between, FilledNumber
  <2>4. took[k] > took[1] - BlockCount
    <3>1. Back <= Gave(k) /\ took[1] + drained <= BlockCount + Back /\ Back \in Nat
      BY <1>1, <2>0, Between
    <3> QED
      BY <2>0, <2>1, <3>1
  <2> QED
    BY <2>0, <2>1, <2>2, <2>3, <2>4 DEF Data
<1> QED
  BY <1>1, Invariance, PTL

\* The threads are joined with the poison, and nothing after it, in the front
\* queue, so the program does not abort in Wait.
THEOREM RoundEndsInPoison == Spec => []PoisonEndsTheRound
<1>1. IInv => PoisonEndsTheRound
  BY FrontQueue DEF PoisonEndsTheRound, IInv, Owner
<1> QED
  BY <1>1, Invariance, PTL

-----------------------------------------------------------------------------
(* No memory in two hands.  Everything that has a block has a turn: the      *)
(* number of the block it has, or, in the front queue, the number the block  *)
(* gets when the lead takes it.  The turns are all different, they are       *)
(* BlockCount consecutive numbers, and within those the memory is always     *)
(* another one.                                                              *)

\* The memory of the block whose turn is n: one the lead has taken, one that
\* is still where Start put it, or one that came round.
MemoryAt(n) ==
  IF n <= took[1] THEN MemoryOf(n)
  ELSE IF n <= BlockCount THEN n ELSE MemoryOf(n - BlockCount)

\* The turn of an owner: a thread, or a place in a queue.
Turn(kind, i, n) ==
  IF kind = "thread" THEN took[i]
  ELSE IF i = 0 THEN took[1] + drained + n ELSE took[i + 1] + n

\* The blocks that are out do not have the memory of one another.
LEMMA MemoryDiffers ==
  ASSUME IInv, Running, NEW a \in Nat, NEW b \in Nat, Back < a, a < b, b <= Back + BlockCount,
         MemoryAt(a) = MemoryAt(b)
  PROVE  MemoryAt(a) = Null
<1>1. /\ Rotation /\ Back \in Nat /\ took[1] \in Nat /\ BlockCount \in Nat \ {0} /\ Back <= took[1]
      /\ Null = 0
  BY Between, Numbers, SMTT(30) DEF IInv, Running, Null
<1>2. PICK t \in Nat, back \in Nat, B \in Nat \ {0} : t = took[1] /\ back = Back /\ B = BlockCount
  BY <1>1
<1>3. \A x, y \in 1..t : x < y /\ y < x + B => lent[x] # lent[y]
  BY <1>1, <1>2 DEF Rotation
<1>4. \A x \in 1..t : x <= B => lent[x] = x
  BY <1>1, <1>2 DEF Rotation
<1>5. back < a /\ a < b /\ b <= back + B /\ back <= t
  BY <1>1, <1>2
<1>6. a # b
  BY <1>5
<1> SUFFICES ASSUME MemoryAt(a) # Null
             PROVE  FALSE
  OBVIOUS
<1>7. CASE b <= t
  <2>1. a \in 1..t /\ b \in 1..t /\ b < a + B /\ a <= t
    BY <1>5, <1>7
  <2>2. MemoryAt(a) = lent[a] /\ MemoryAt(b) = lent[b]
    BY <1>7, <1>2, <2>1 DEF MemoryAt, MemoryOf
  <2> QED
    BY <1>3, <1>5, <2>1, <2>2
<1>8. CASE a <= t /\ b > t
  <2>1. a \in 1..t /\ MemoryAt(a) = lent[a]
    BY <1>5, <1>8, <1>2 DEF MemoryAt, MemoryOf
  <2>2. CASE b <= B
    <3>1. MemoryAt(b) = b /\ lent[a] = a
      BY <1>4, <1>5, <1>8, <1>2, <2>1, <2>2 DEF MemoryAt
    <3> QED
      BY <1>6, <2>1, <3>1
  <2>3. CASE b > B
    <3>1. b - B \in 1..t /\ b - B < a /\ a < (b - B) + B /\ ~(b <= B) /\ ~(b <= t)
      BY <1>5, <1>8, <2>3
    <3>2. MemoryAt(b) = lent[b - B]
      BY <1>2, <2>1, <3>1 DEF MemoryAt, MemoryOf
    <3> QED
      BY <1>3, <2>1, <3>1, <3>2
  <2> QED
    BY <2>2, <2>3
<1>9. CASE a > t
  <2>1. ~(a <= t) /\ ~(b <= t)
    BY <1>5, <1>9
  <2>2. CASE b <= B
    <3>1. MemoryAt(a) = a /\ MemoryAt(b) = b
      BY <1>5, <1>2, <2>1, <2>2 DEF MemoryAt
    <3> QED
      BY <1>6, <3>1
  <2>3. CASE a <= B /\ b > B
    <3>1. b - B \in 1..t /\ b - B <= B /\ b - B < a /\ ~(b <= B)
      BY <1>5, <1>9, <2>3
    <3>2. MemoryAt(a) = a /\ MemoryAt(b) = lent[b - B]
      BY <1>2, <2>1, <2>3, <3>1 DEF MemoryAt, MemoryOf
    <3>3. lent[b - B] = b - B /\ b - B # a
      BY <1>4, <3>1
    <3> QED
      BY <3>2, <3>3
  <2>4. CASE a > B
    <3>1. /\ a - B \in 1..t /\ b - B \in 1..t /\ a - B < b - B /\ b - B < (a - B) + B
          /\ ~(a <= B) /\ ~(b <= B)
      BY <1>5, <1>9, <2>4
    <3>2. MemoryAt(a) = lent[a - B] /\ MemoryAt(b) = lent[b - B]
      BY <1>2, <2>1, <3>1 DEF MemoryAt, MemoryOf
    <3> QED
      BY <1>3, <3>1, <3>2
  <2> QED
    BY <2>2, <2>3, <2>4
<1> QED
  BY <1>5, <1>7, <1>8, <1>9

\* An owner's turn is one of the BlockCount turns that are out, and the block it
\* has is the one of that turn.
LEMMA ThreadTurn ==
  ASSUME IInv, Running, NEW k \in 1..links, Holding(k)
  PROVE  /\ Turn("thread", k, 0) \in Nat /\ Back < Turn("thread", k, 0)
         /\ Turn("thread", k, 0) <= Back + BlockCount
         /\ cur[k].mem = MemoryAt(Turn("thread", k, 0))
<1>1. /\ k \in Threads /\ took[k] \in Nat /\ Gave(k) = took[k] - 1 /\ Gave(k) \in Nat
      /\ Back \in Nat /\ Back <= Gave(k) /\ took[1] \in Nat /\ took[k] <= took[1]
      /\ took[1] + drained <= BlockCount + Back /\ drained \in Nat /\ BlockCount \in Nat
      /\ cur[k].mem = MemoryOf(took[k])
  BY Between, Numbers DEF IInv, Contents
<1> QED
  BY <1>1 DEF Turn, MemoryAt

LEMMA FrontTurn ==
  ASSUME IInv, Running, NEW n \in 1..Len(queue[0])
  PROVE  /\ Turn("queue", 0, n) \in Nat /\ Back < Turn("queue", 0, n)
         /\ Turn("queue", 0, n) <= Back + BlockCount /\ took[1] < Turn("queue", 0, n)
         /\ queue[0][n].mem = MemoryAt(Turn("queue", 0, n))
<1>1. /\ Len(queue[0]) \in Nat /\ Len(queue[0]) = BlockCount + Back - took[1] - drained
      /\ Back \in Nat /\ took[1] \in Nat /\ drained \in Nat /\ BlockCount \in Nat /\ Back <= took[1]
  <2>1. 1 \in 1..links /\ 1 \in Threads
    BY Numbers, ChainAssumption DEF IInv, Running, Threads
  <2>2. Back <= Gave(1) /\ Gave(1) <= took[1] /\ Gave(1) \in Nat /\ Back \in Nat /\ took[1] \in Nat
    BY <2>1, Between, Numbers DEF IInv
  <2>3. Len(queue[0]) \in Nat /\ drained \in Nat /\ BlockCount \in Nat
    BY Numbers DEF IInv
  <2> QED
    BY <2>2, <2>3 DEF IInv, Lengths
<1> DEFINE t == took[1] + drained + n
<1>2. t \in Nat /\ took[1] < t /\ t <= Back + BlockCount /\ Back < t
  BY <1>1, SMTT(30)
<1>3. /\ t <= BlockCount => queue[0][n].mem = t
      /\ \A r \in 1..Back : t = BlockCount + r => queue[0][n].mem = MemoryOf(r)
  BY DEF IInv, Contents
<1>4. Turn("queue", 0, n) = t
  BY DEF Turn
<1> HIDE DEF t
<1>5. queue[0][n].mem = MemoryAt(t)
  <2>1. ~(t <= took[1])
    BY <1>1, <1>2
  <2>2. CASE t <= BlockCount
    BY <1>3, <2>1, <2>2 DEF MemoryAt
  <2>3. CASE ~(t <= BlockCount)
    <3>1. t - BlockCount \in 1..Back /\ t = BlockCount + (t - BlockCount)
      BY <1>1, <1>2, <2>3
    <3>2. queue[0][n].mem = MemoryOf(t - BlockCount)
      BY <1>3, <3>1
    <3> QED
      BY <2>1, <2>3, <3>2 DEF MemoryAt
  <2> QED
    BY <2>2, <2>3
<1> QED
  BY <1>2, <1>4, <1>5

LEMMA QueueTurn ==
  ASSUME IInv, Running, NEW i \in 1..(MaxThreads - 1), NEW n \in 1..Len(queue[i])
  PROVE  /\ Turn("queue", i, n) \in Nat /\ Back < Turn("queue", i, n)
         /\ Turn("queue", i, n) <= Back + BlockCount /\ Turn("queue", i, n) <= took[1]
         /\ i \in 1..links /\ took[i + 1] < Turn("queue", i, n) /\ Turn("queue", i, n) <= Gave(i)
         /\ queue[i][n].mem = MemoryAt(Turn("queue", i, n))
<1>1. /\ i \in 0..MaxThreads /\ i \in Threads /\ i + 1 \in Threads /\ i # 0 /\ i \in Nat
      /\ TypeOK /\ Places /\ Lengths
  BY ChainAssumption DEF Threads, IInv
<1>2. /\ Len(queue[i]) \in Nat /\ took[i + 1] \in Nat /\ took[i] \in Nat /\ Gave(i) \in Int
      /\ Gave(i) <= took[i] /\ links \in Nat /\ drained \in Nat /\ BlockCount \in Nat
  BY <1>1, Numbers
<1>3. n \in Nat /\ n >= 1 /\ n <= Len(queue[i])
  BY <1>2
<1>4. ~(complete /\ i = links) /\ Len(queue[i]) = Gave(i) - took[i + 1]
  BY <1>1, <1>2, <1>3 DEF Lengths
<1>5. i \in 1..links
  <2>1. i > links => took[i] = 0
    BY <1>1 DEF Places
  <2> QED
    BY <1>1, <1>2, <1>3, <1>4, <2>1
<1>6. /\ Back \in Nat /\ took[1] \in Nat /\ took[i] <= took[1]
      /\ took[1] + drained <= BlockCount + Back
  BY <1>5, Between
<1>7. Back <= took[i + 1]
  <2>1. CASE complete
    <3>1. i + 1 \in 2..links
      BY <1>1, <1>2, <1>4, <1>5, <2>1
    <3> QED
      BY <3>1, Between
  <2>2. CASE ~complete
    BY <1>2, <2>2 DEF Back
  <2> QED
    BY <2>1, <2>2
<1>8. Turn("queue", i, n) = took[i + 1] + n
  BY <1>1 DEF Turn
<1>9. /\ took[i + 1] + n \in Nat /\ Back < took[i + 1] + n /\ took[i + 1] + n <= took[1]
      /\ took[i + 1] + n <= Back + BlockCount /\ took[i + 1] < took[i + 1] + n
      /\ took[i + 1] + n <= Gave(i)
  <2>1. PICK before \in Nat, after \in Nat, len \in Nat, back \in Nat, t \in Nat, d \in Nat, B \in Nat,
             gave \in Int :
          /\ before = took[i] /\ after = took[i + 1] /\ len = Len(queue[i]) /\ back = Back
          /\ t = took[1] /\ d = drained /\ B = BlockCount /\ gave = Gave(i)
    BY <1>2, <1>6
  <2>2. /\ n \in Nat /\ n >= 1 /\ n <= len /\ len = gave - after /\ gave <= before /\ before <= t
        /\ t + d <= B + back /\ back <= after
    BY <1>2, <1>3, <1>4, <1>6, <1>7, <2>1
  <2>3. /\ after + n \in Nat /\ back < after + n /\ after + n <= t /\ after + n <= back + B
        /\ after < after + n /\ after + n <= gave
    BY <2>2
  <2> QED
    BY <2>1, <2>3
<1>10. queue[i][n].mem = MemoryOf(took[i + 1] + n)
  BY DEF IInv, Contents
<1>11. MemoryAt(took[i + 1] + n) = MemoryOf(took[i + 1] + n)
  BY <1>9 DEF MemoryAt
<1> QED
  BY <1>5, <1>8, <1>9, <1>10, <1>11

\* What an earlier thread gave on is ahead of what a later one took.
LEMMA Ahead ==
  ASSUME IInv, Running
  PROVE  /\ \A k \in 1..links : /\ took[k] \in Nat /\ Gave(k) \in Nat /\ Gave(k) <= took[k]
                                /\ (Holding(k) => took[k] = Gave(k) + 1)
         /\ \A j, k \in 1..links : j < k => took[k] <= Gave(j)
         /\ \A j, k \in 1..links : j <= k => Gave(k) <= Gave(j)
<1>1. /\ \A k \in 1..links : k \in Threads /\ took[k] \in Nat /\ Gave(k) \in Nat /\ Gave(k) <= took[k]
      /\ \A k \in 1..links : Holding(k) => Gave(k) = took[k] - 1
  BY Numbers, Between DEF IInv
<1>2. \A j, k \in 1..links : j < k => took[k] <= Gave(j)
  BY <1>1 DEF IInv, Order
<1>3. ASSUME NEW j \in 1..links, NEW k \in 1..links, j <= k
      PROVE  Gave(k) <= Gave(j)
  <2>1. j = k \/ j < k
    BY <1>3, Numbers DEF IInv
  <2> QED
    BY <1>1, <1>2, <2>1
<1> QED
  BY <1>1, <1>2, <1>3

\* Different owners have different turns.
LEMMA ThreadsDiffer ==
  ASSUME IInv, Running, NEW j \in 1..links, NEW k \in 1..links, Holding(j), Holding(k), j < k
  PROVE  Turn("thread", j, 0) # Turn("thread", k, 0)
<1>1. took[k] <= Gave(j) /\ took[j] = Gave(j) + 1 /\ took[k] \in Nat /\ Gave(j) \in Nat
  BY Ahead
<1>2. took[j] # took[k]
  BY <1>1
<1> QED
  BY <1>2 DEF Turn

LEMMA ThreadAndQueueDiffer ==
  ASSUME IInv, Running, NEW k \in 1..links, Holding(k),
         NEW i \in 1..(MaxThreads - 1), NEW n \in 1..Len(queue[i])
  PROVE  Turn("thread", k, 0) # Turn("queue", i, n)
<1>1. PICK t \in Nat : /\ t = Turn("queue", i, n) /\ took[i + 1] < t /\ t <= Gave(i)
  BY QueueTurn
<1>2. i \in 1..links /\ links \in Nat /\ i \in Nat /\ k \in Nat
  BY QueueTurn, Numbers DEF IInv
<1>3. Turn("thread", k, 0) = took[k] /\ took[k] = Gave(k) + 1 /\ took[k] \in Nat /\ Gave(k) \in Nat
      /\ Gave(i) \in Nat
  BY <1>2, Ahead DEF Turn
<1>4. CASE k <= i
  <2>1. Gave(i) <= Gave(k)
    BY <1>2, <1>4, Ahead
  <2>2. PICK c \in Nat, gk \in Nat, gi \in Nat : c = took[k] /\ gk = Gave(k) /\ gi = Gave(i)
    BY <1>3
  <2>3. c = gk + 1 /\ gi <= gk /\ t <= gi
    BY <1>1, <1>3, <2>1, <2>2
  <2>4. c # t
    BY <2>3
  <2> QED
    BY <1>1, <1>3, <2>2, <2>4
<1>5. CASE k > i
  <2>1. i + 1 \in 1..links /\ i + 1 <= k
    BY <1>2, <1>5
  <2>2. took[k] <= took[i + 1]
    <3>1. CASE k = i + 1
      BY <1>3, <3>1
    <3>2. CASE i + 1 < k
      <4>1. took[k] <= Gave(i + 1) /\ Gave(i + 1) <= took[i + 1] /\ Gave(i + 1) \in Nat
            /\ took[i + 1] \in Nat
        BY <2>1, <3>2, Ahead
      <4> QED
        BY <1>3, <4>1
    <3> QED
      BY <1>2, <2>1, <3>1, <3>2
  <2>3. took[i + 1] \in Nat
    BY <2>1, Ahead
  <2>4. took[k] # t
    BY <1>1, <1>3, <2>2, <2>3
  <2> QED
    BY <1>1, <1>3, <2>4
<1> QED
  BY <1>2, <1>4, <1>5

LEMMA QueuesDiffer ==
  ASSUME IInv, Running, NEW i \in 1..(MaxThreads - 1), NEW n \in 1..Len(queue[i]),
         NEW j \in 1..(MaxThreads - 1), NEW m \in 1..Len(queue[j]), i < j
  PROVE  Turn("queue", i, n) # Turn("queue", j, m)
<1>1. PICK t \in Nat : t = Turn("queue", i, n) /\ took[i + 1] < t
  BY QueueTurn
<1>2. PICK u \in Nat : u = Turn("queue", j, m) /\ u <= Gave(j)
  BY QueueTurn
<1>3. i \in Nat /\ j \in Nat /\ j \in 1..links /\ links \in Nat
  <2>1. j \in 1..links
    BY QueueTurn
  <2>2. links \in Nat
    BY Numbers DEF IInv
  <2> QED
    BY <2>1, <2>2, ChainAssumption
<1>4. i + 1 \in 1..links /\ i + 1 <= j
  BY <1>3
<1>5. /\ took[i + 1] \in Nat /\ Gave(i + 1) \in Nat /\ Gave(i + 1) <= took[i + 1]
      /\ Gave(j) \in Nat /\ Gave(j) <= Gave(i + 1)
  BY <1>3, <1>4, Ahead
<1>6. u < t
  BY <1>1, <1>2, <1>5
<1> QED
  BY <1>1, <1>2, <1>6

LEMMA PlacesDiffer ==
  ASSUME IInv, Running, NEW i \in 0..(MaxThreads - 1), NEW n \in 1..Len(queue[i]),
         NEW m \in 1..Len(queue[i]), n # m
  PROVE  Turn("queue", i, n) # Turn("queue", i, m)
<1>1. i \in 0..MaxThreads /\ Len(queue[i]) \in Nat /\ took[1] \in Nat /\ drained \in Nat
  BY Between, Numbers DEF IInv
<1>2. n \in Nat /\ m \in Nat
  BY <1>1
<1>3. CASE i = 0
  <2>1. took[1] + drained + n # took[1] + drained + m
    BY <1>1, <1>2
  <2> QED
    BY <1>3, <2>1 DEF Turn
<1>4. CASE i # 0
  <2>1. i + 1 \in Threads
    BY <1>4, ChainAssumption DEF Threads
  <2>2. took[i + 1] \in Nat
    BY <2>1, Numbers DEF IInv
  <2>3. took[i + 1] + n # took[i + 1] + m
    BY <1>2, <2>2
  <2> QED
    BY <1>4, <2>3 DEF Turn
<1> QED
  BY <1>3, <1>4

-----------------------------------------------------------------------------
(* The size of what comes back. *)

\* What waits for the lead is whole, and so is what the last thread is about to
\* give back.
Whole ==
  /\ queue[MaxThreads] = <<>>
  /\ \A n \in 1..Len(queue[0]) : ~IsPoison(queue[0][n]) => queue[0][n].full
  /\ pc[1] = "work" => cur[1].full
  /\ complete /\ pc[links] = "put" => cur[links].full

LEMMA InitWhole == Init => Whole
<1>1. MaxThreads \in 0..MaxThreads /\ 0 \in 0..MaxThreads /\ 1 \in Threads
  BY ChainAssumption DEF Threads
<1>2. Init => queue[MaxThreads] = <<>> /\ queue[0] = <<>> /\ pc[1] = "none" /\ ~complete
  BY <1>1 DEF Init
<1> QED
  BY <1>2, LenProperties DEF Whole

\* What thread k does to the queues and to what it holds.
LEMMA ConsumeWhole ==
  ASSUME IInv, Whole, NEW k \in Threads, TakeFirst(k) \/ TakeNext(k)
  PROVE  Whole'
<1>1. /\ k \in 1..links /\ k # 0 /\ k - 1 \in 0..MaxThreads /\ k - 1 # MaxThreads /\ links \in Nat
      /\ 0 \in 0..MaxThreads /\ 1 \in Threads
  BY Numbers, ChainAssumption DEF IInv, TakeFirst, TakeNext, Threads
<1>2. /\ queue[k - 1] # <<>>
      /\ cur' = [cur EXCEPT ![k] = Head(queue[k - 1])]
      /\ queue' = [queue EXCEPT ![k - 1] = Tail(queue[k - 1])]
      /\ pc' = [pc EXCEPT ![k] = IF IsPoison(cur'[k]) THEN "pass" ELSE "work"]
      /\ UNCHANGED <<complete, links>>
  BY DEF TakeFirst, TakeNext, Consume, In
<1>3. /\ queue \in [0..MaxThreads -> Seq(Block)] /\ cur \in [Threads -> Block] /\ DOMAIN pc = Threads
  BY DEF IInv, TypeOK
<1>4. queue'[MaxThreads] = <<>>
  BY <1>1, <1>2, <1>3 DEF Whole
<1>5. \A n \in 1..Len(queue'[0]) : ~IsPoison(queue'[0][n]) => queue'[0][n].full
  <2>1. CASE k = 1
    <3>1. queue'[0] = Tail(queue[0]) /\ queue[0] \in Seq(Block) /\ queue[0] # <<>>
      BY <1>1, <1>2, <1>3, <2>1
    <3>2. /\ Len(queue'[0]) = Len(queue[0]) - 1 /\ Len(queue[0]) \in Nat
          /\ \A n \in 1..Len(queue'[0]) : queue'[0][n] = queue[0][n + 1]
      BY <3>1, HeadTailProperties, LenProperties
    <3>3. \A n \in 1..Len(queue'[0]) : n + 1 \in 1..Len(queue[0])
      BY <3>2
    <3> QED
      BY <3>2, <3>3 DEF Whole
  <2>2. CASE k # 1
    <3>1. queue'[0] = queue[0]
      BY <1>1, <1>2, <1>3, <2>2
    <3> QED
      BY <3>1 DEF Whole
  <2> QED
    BY <2>1, <2>2
<1>6. pc'[1] = "work" => cur'[1].full
  <2>1. CASE k = 1
    <3>1. queue[0] \in Seq(Block) /\ queue[0] # <<>> /\ cur'[1] = Head(queue[0])
      BY <1>1, <1>2, <1>3, <2>1
    <3>2. Head(queue[0]) = queue[0][1] /\ 1 \in 1..Len(queue[0])
      BY <3>1, HeadTailProperties, LenProperties, EmptySeq
    <3>3. pc'[1] = "work" => ~IsPoison(cur'[1])
      BY <1>1, <1>2, <1>3, <2>1
    <3> QED
      BY <3>1, <3>2, <3>3 DEF Whole
  <2>2. CASE k # 1
    BY <1>1, <1>2, <1>3, <2>2 DEF Whole
  <2> QED
    BY <2>1, <2>2
<1>7. complete' /\ pc'[links'] = "put" => cur'[links'].full
  <2>1. k = links => pc'[links] # "put"
    BY <1>1, <1>2, <1>3
  <2>2. k # links => pc'[links] = pc[links] /\ cur'[links] = cur[links]
    BY <1>1, <1>2, <1>3
  <2> QED
    BY <1>2, <2>1, <2>2 DEF Whole
<1> QED
  BY <1>4, <1>5, <1>6, <1>7 DEF Whole

LEMMA PutWhole ==
  ASSUME IInv, Whole, NEW k \in Threads, Put(k) \/ Pass(k)
  PROVE  Whole'
<1>1. /\ k \in 1..links /\ k # 0 /\ k \in 0..MaxThreads /\ links \in Nat /\ links <= MaxThreads
      /\ 0 \in 0..MaxThreads /\ 1 \in Threads /\ MaxThreads # 0 /\ MaxThreads \in 0..MaxThreads
  BY Numbers, ChainAssumption DEF IInv, Put, Pass, Threads
<1>2. /\ queue' = [queue EXCEPT ![Out(k)] = Append(queue[Out(k)], cur[k])]
      /\ \/ pc[k] = "put" /\ pc' = [pc EXCEPT ![k] = "take"]
         \/ pc[k] = "pass" /\ pc' = [pc EXCEPT ![k] = "done"]
      /\ UNCHANGED <<complete, links, cur>>
  BY DEF Put, Pass, Produce
<1>3. /\ queue \in [0..MaxThreads -> Seq(Block)] /\ cur \in [Threads -> Block] /\ DOMAIN pc = Threads
  BY DEF IInv, TypeOK
<1>4. Out(k) # MaxThreads
  <2>1. ~complete => links < MaxThreads
    BY DEF IInv, Owner
  <2> QED
    BY <1>1, <2>1 DEF Out
<1>5. queue'[MaxThreads] = <<>>
  BY <1>1, <1>2, <1>3, <1>4 DEF Whole
<1>6. \A n \in 1..Len(queue'[0]) : ~IsPoison(queue'[0][n]) => queue'[0][n].full
  <2>1. CASE complete /\ k = links
    <3>1. queue'[0] = Append(queue[0], cur[k]) /\ queue[0] \in Seq(Block) /\ cur[k] \in Block
      BY <1>1, <1>2, <1>3, <2>1 DEF Out
    <3>2. /\ Len(queue'[0]) = Len(queue[0]) + 1 /\ Len(queue[0]) \in Nat
          /\ queue'[0][Len(queue[0]) + 1] = cur[k]
          /\ \A n \in 1..Len(queue[0]) : queue'[0][n] = queue[0][n]
      BY <3>1, AppendProperties, LenProperties
    <3>3. IsPoison(cur[k]) \/ cur[k].full
      <4>1. CASE pc[k] = "put"
        BY <2>1, <4>1 DEF Whole
      <4>2. CASE pc[k] = "pass"
        BY <1>1, <4>2 DEF IInv, Contents, Places, Holding, MemoryOf, IsPoison
      <4> QED
        BY <1>2, <4>1, <4>2
    <3>4. \A n \in 1..Len(queue'[0]) : n \in 1..Len(queue[0]) \/ n = Len(queue[0]) + 1
      BY <3>2
    <3> QED
      BY <3>2, <3>3, <3>4 DEF Whole
  <2>2. CASE ~(complete /\ k = links)
    <3>1. queue'[0] = queue[0]
      BY <1>1, <1>2, <1>3, <2>2 DEF Out
    <3> QED
      BY <3>1 DEF Whole
  <2> QED
    BY <2>1, <2>2
<1>7. pc'[1] = "work" => cur'[1].full
  BY <1>1, <1>2, <1>3 DEF Whole
<1>8. complete' /\ pc'[links'] = "put" => cur'[links'].full
  <2>1. k = links => pc'[links] # "put"
    BY <1>1, <1>2, <1>3
  <2>2. links \in DOMAIN pc
    BY <1>1, <1>3 DEF Threads
  <2>3. k # links => pc'[links] = pc[links]
    BY <1>2, <2>2
  <2> QED
    BY <1>2, <2>1, <2>3 DEF Whole
<1> QED
  BY <1>5, <1>6, <1>7, <1>8 DEF Whole

\* The last thread sets the size before it gives a block back.
LEMMA WorkWhole ==
  ASSUME IInv, Whole, NEW k \in Threads, Work(k) \/ (k = 1 /\ (Fill \/ Poison))
  PROVE  Whole'
<1>1. /\ k \in 1..links /\ k # 0 /\ links \in Nat /\ 1 \in Threads /\ links \in Threads
      /\ (complete => links # 1)
  BY Numbers, ChainAssumption DEF IInv, Owner, Work, Fill, Poison, Threads
<1>2. cur \in [Threads -> Block] /\ DOMAIN pc = Threads
  BY DEF IInv, TypeOK
<1>3. /\ UNCHANGED <<queue, complete, links>>
      /\ \A j \in Threads \ {k} : cur'[j] = cur[j] /\ pc'[j] = pc[j]
      /\ pc'[k] # "work"
  BY <1>1, <1>2 DEF Work, Fill, Poison
<1>4. complete /\ pc'[links] = "put" => cur'[links].full
  <2>1. CASE k # links
    BY <1>1, <1>3, <2>1 DEF Whole
  <2>2. CASE k = links /\ complete
    <3>1. Work(k)
      BY <1>1, <2>2
    <3>2. Out(k) = 0
      BY <2>2 DEF Out
    <3>3. cur[k] \in Block /\ cur' = [cur EXCEPT ![k].full = TRUE]
      BY <1>2, <3>1, <3>2 DEF Work
    <3> QED
      BY <1>2, <2>2, <3>3 DEF Block
  <2> QED
    BY <2>1, <2>2
<1>5. pc'[1] = "work" => cur'[1].full
  BY <1>1, <1>3 DEF Whole
<1> QED
  BY <1>3, <1>4, <1>5 DEF Whole

LEMMA OwnerWhole ==
  ASSUME IInv, Whole, AddThread \/ CompleteLoop \/ Wait \/ WaitStep
  PROVE  Whole'
<1>1. /\ 0 \in 0..MaxThreads /\ MaxThreads \in 0..MaxThreads /\ MaxThreads # 0 /\ 1 \in Threads
      /\ links \in Nat
      /\ queue \in [0..MaxThreads -> Seq(Block)] /\ DOMAIN pc = Threads
  BY Numbers, ChainAssumption DEF IInv, TypeOK, Threads
<1>2. CASE AddThread \/ CompleteLoop \/ Wait
  <2>1. links < MaxThreads \/ UNCHANGED <<links, complete, pc, queue>>
    BY <1>2 DEF AddThread, CompleteLoop, Wait, IInv, Owner
  <2>2. /\ cur' = cur
        /\ queue' = queue \/ queue' = [queue EXCEPT ![0] = LeadQueue]
        /\ \/ pc' = pc /\ links' = links /\ complete' = complete
           \/ links < MaxThreads /\ links' = links + 1 /\ pc' = [pc EXCEPT ![links + 1] = "init"]
    BY <1>2, <2>1 DEF AddThread, CompleteLoop, Wait
  <2>3. queue'[MaxThreads] = <<>>
    BY <1>1, <2>2 DEF Whole
  <2>4. \A n \in 1..Len(queue'[0]) : ~IsPoison(queue'[0][n]) => queue'[0][n].full
    <3>1. CASE queue' = queue
      BY <3>1 DEF Whole
    <3>2. CASE queue' = [queue EXCEPT ![0] = LeadQueue]
      <4>1. queue'[0] = LeadQueue /\ Len(LeadQueue) = BlockCount
        BY <1>1, <3>2, ChainAssumption DEF LeadQueue
      <4>2. \A n \in 1..BlockCount : LeadQueue[n].full
        BY DEF LeadQueue
      <4> QED
        BY <4>1, <4>2
    <3> QED
      BY <2>2, <3>1, <3>2
  <2>5. pc'[1] = "work" => cur'[1].full
    BY <1>1, <2>2 DEF Whole
  <2>6. complete' /\ pc'[links'] = "put" => cur'[links'].full
    <3>1. links < MaxThreads => links + 1 \in Threads
      BY <1>1 DEF Threads
    <3> QED
      BY <1>1, <2>2, <3>1 DEF Whole
  <2> QED
    BY <2>3, <2>4, <2>5, <2>6 DEF Whole
<1>3. CASE Joined
  BY <1>3 DEF Joined, Whole
<1>4. CASE DrainBlock
  <2>1. /\ queue' = [queue EXCEPT ![0] = Tail(queue[0])] /\ queue[0] # <<>>
        /\ UNCHANGED <<links, complete, pc, cur>>
    BY <1>4 DEF DrainBlock
  <2>2. queue'[0] = Tail(queue[0]) /\ queue[0] \in Seq(Block) /\ queue'[MaxThreads] = queue[MaxThreads]
    BY <1>1, <2>1
  <2>3. /\ Len(queue'[0]) = Len(queue[0]) - 1 /\ Len(queue[0]) \in Nat
        /\ \A n \in 1..Len(queue'[0]) : queue'[0][n] = queue[0][n + 1]
    BY <2>1, <2>2, HeadTailProperties, LenProperties
  <2>4. \A n \in 1..Len(queue'[0]) : n + 1 \in 1..Len(queue[0])
    BY <2>3
  <2> QED
    BY <2>1, <2>2, <2>3, <2>4 DEF Whole
<1>5. CASE DrainPoison
  <2>1. queue'[0] = <<>> /\ queue'[MaxThreads] = <<>> /\ pc'[1] = "none" /\ ~complete'
    BY <1>1, <1>5 DEF DrainPoison
  <2> QED
    BY <2>1, LenProperties DEF Whole
<1> QED
  BY <1>2, <1>3, <1>4, <1>5 DEF WaitStep

LEMMA NextWhole == IInv /\ Whole /\ [Next]_vars => Whole'
<1> SUFFICES ASSUME IInv, Whole, [Next]_vars PROVE Whole'
  OBVIOUS
<1>1. CASE AddThread \/ CompleteLoop \/ Wait \/ WaitStep
  BY <1>1, OwnerWhole
<1>2. ASSUME NEW k \in Threads, ThreadStep(k) PROVE Whole'
  BY <1>2, ConsumeWhole, PutWhole, WorkWhole DEF ThreadStep
<1>3. CASE UNCHANGED vars
  BY <1>3 DEF vars, Whole
<1> QED
  BY <1>1, <1>2, <1>3 DEF Next

\* A thread has a turn, and so has every place of a queue that holds a block.
Owns(o, m) ==
  \/ \E k \in 1..links : Holding(k) /\ cur[k].mem = m /\ o = <<"thread", k, 0>>
  \/ \E i \in 0..(MaxThreads - 1) : \E n \in 1..Len(queue[i]) :
       queue[i][n].mem = m /\ o = <<"queue", i, n>>

LEMMA OwnersOwn ==
  ASSUME IInv, Whole, NEW m \in Memory, NEW o \in Owners(m)
  PROVE  Owns(o, m) /\ Running
<1>1. /\ Len(queue[MaxThreads]) = 0 /\ MaxThreads \in Nat \ {0, 1}
      /\ \A i \in 0..MaxThreads : Len(queue[i]) \in Nat
  BY LenProperties, Numbers, ChainAssumption DEF Whole, IInv
<1>2. Owns(o, m)
  <2>1. CASE \E k \in {j \in 1..links : Holding(j) /\ cur[j].mem = m} : o = <<"thread", k, 0>>
    BY <2>1 DEF Owns
  <2>2. ASSUME NEW i \in 0..MaxThreads, NEW n \in 1..Len(queue[i]), queue[i][n].mem = m,
               o = <<"queue", i, n>>
        PROVE  Owns(o, m)
    <3>1. i # MaxThreads
      BY <1>1, <2>2
    <3>2. i \in 0..(MaxThreads - 1)
      BY <1>1, <3>1
    <3> QED
      BY <2>2, <3>2 DEF Owns
  <2> QED
    BY <2>1, <2>2 DEF Owners
<1>3. Running
  <2> SUFFICES ASSUME links = 0
               PROVE  FALSE
    BY DEF Running
  <2>1. queue[0] = <<>> /\ ~complete /\ \A k \in Threads : pc[k] = "none"
    BY ChainAssumption DEF IInv, Owner, Places, Running, Threads
  <2>2. \A i \in 1..(MaxThreads - 1) : i \in Threads /\ i + 1 \in Threads
    BY ChainAssumption DEF Threads
  <2>3. \A i \in 1..(MaxThreads - 1) : Len(queue[i]) = 0
    <3>1. \A k \in Threads : took[k] = 0 /\ Gave(k) = 0
      BY <2>1 DEF IInv, Places, Gave, Holding
    <3> QED
      BY <2>1, <2>2, <3>1 DEF IInv, Lengths
  <2>4. Len(queue[0]) = 0
    BY <2>1, LenProperties
  <2>5. \A i \in 0..(MaxThreads - 1) : i = 0 \/ i \in 1..(MaxThreads - 1)
    BY <1>1
  <2> QED
    BY <1>2, <2>3, <2>4, <2>5 DEF Owns
<1> QED
  BY <1>2, <1>3

\* The turn of an owner is out, and the owner has the memory of that turn.
TurnOf(o) == Turn(o[1], o[2], o[3])

LEMMA OwnerTurn ==
  ASSUME IInv, Running, NEW m, NEW o, Owns(o, m)
  PROVE  /\ TurnOf(o) \in Nat /\ Back < TurnOf(o) /\ TurnOf(o) <= Back + BlockCount
         /\ MemoryAt(TurnOf(o)) = m
<1>1. ASSUME NEW k \in 1..links, Holding(k), cur[k].mem = m, o = <<"thread", k, 0>>
      PROVE  /\ TurnOf(o) \in Nat /\ Back < TurnOf(o) /\ TurnOf(o) <= Back + BlockCount
             /\ MemoryAt(TurnOf(o)) = m
  BY <1>1, ThreadTurn DEF TurnOf
<1>2. ASSUME NEW i \in 0..(MaxThreads - 1), NEW n \in 1..Len(queue[i]), queue[i][n].mem = m,
             o = <<"queue", i, n>>
      PROVE  /\ TurnOf(o) \in Nat /\ Back < TurnOf(o) /\ TurnOf(o) <= Back + BlockCount
             /\ MemoryAt(TurnOf(o)) = m
  <2>1. TurnOf(o) = Turn("queue", i, n)
    BY <1>2 DEF TurnOf
  <2>2. CASE i = 0
    BY <1>2, <2>1, <2>2, FrontTurn
  <2>3. CASE i # 0
    <3>1. i \in 1..(MaxThreads - 1)
      BY <2>3, ChainAssumption
    <3> QED
      BY <1>2, <2>1, <3>1, QueueTurn
  <2> QED
    BY <2>2, <2>3
<1> QED
  BY <1>1, <1>2 DEF Owns

\* Two owners with the same turn are the same.
LEMMA OwnersDiffer ==
  ASSUME IInv, Running, NEW m, NEW a, NEW b, Owns(a, m), Owns(b, m), TurnOf(a) = TurnOf(b)
  PROVE  a = b
<1>0. links \in Nat /\ MaxThreads \in Nat
  BY Numbers DEF IInv
<1>1. ASSUME NEW j \in 1..links, Holding(j), a = <<"thread", j, 0>>,
             NEW k \in 1..links, Holding(k), b = <<"thread", k, 0>>
      PROVE  a = b
  <2>1. Turn("thread", j, 0) = Turn("thread", k, 0)
    BY <1>1 DEF TurnOf
  <2>2. ~(j < k) /\ ~(k < j)
    BY <1>1, <2>1, ThreadsDiffer
  <2>3. j = k
    BY <1>0, <2>2
  <2> QED
    BY <1>1, <2>3
<1>2. ASSUME NEW c, NEW d, TurnOf(c) = TurnOf(d),
             NEW k \in 1..links, Holding(k), c = <<"thread", k, 0>>,
             NEW i \in 0..(MaxThreads - 1), NEW n \in 1..Len(queue[i]), d = <<"queue", i, n>>
      PROVE  FALSE
  <2>1. Turn("thread", k, 0) = Turn("queue", i, n)
    BY <1>2 DEF TurnOf
  <2>2. CASE i = 0
    <3>1. took[1] < Turn("thread", k, 0) /\ Turn("thread", k, 0) = took[k]
      BY <1>2, <2>1, <2>2, FrontTurn DEF Turn
    <3>2. took[k] \in Nat /\ took[1] \in Nat /\ took[k] <= took[1]
      BY <1>2, Between, Ahead
    <3> QED
      BY <3>1, <3>2
  <2>3. CASE i # 0
    <3>1. i \in 1..(MaxThreads - 1)
      BY <1>0, <2>3
    <3> QED
      BY <1>2, <2>1, <3>1, ThreadAndQueueDiffer
  <2> QED
    BY <2>2, <2>3
<1>3. ASSUME NEW i \in 0..(MaxThreads - 1), NEW n \in 1..Len(queue[i]), a = <<"queue", i, n>>,
             NEW j \in 0..(MaxThreads - 1), NEW l \in 1..Len(queue[j]), b = <<"queue", j, l>>
      PROVE  a = b
  <2>1. Turn("queue", i, n) = Turn("queue", j, l)
    BY <1>3 DEF TurnOf
  <2>2. CASE i = j
    <3>1. n = l
      BY <1>3, <2>1, <2>2, PlacesDiffer
    <3> QED
      BY <1>3, <2>2, <3>1
  <2>3. ASSUME NEW c \in 0..(MaxThreads - 1), NEW p \in 1..Len(queue[c]), c # 0,
               NEW q \in 1..Len(queue[0]), Turn("queue", c, p) = Turn("queue", 0, q)
        PROVE  FALSE
    <3>1. c \in 1..(MaxThreads - 1)
      BY <1>0, <2>3
    <3>2. Turn("queue", c, p) \in Nat /\ Turn("queue", c, p) <= took[1]
      BY <2>3, <3>1, QueueTurn
    <3>3. took[1] < Turn("queue", 0, q) /\ took[1] \in Nat
      BY <2>3, FrontTurn, Between
    <3> QED
      BY <2>3, <3>2, <3>3
  <2>4. CASE i # 0 /\ j # 0 /\ i # j
    <3>1. i \in 1..(MaxThreads - 1) /\ j \in 1..(MaxThreads - 1) /\ (i < j \/ j < i)
      BY <1>0, <2>4
    <3> QED
      BY <1>3, <2>1, <3>1, QueuesDiffer
  <2> QED
    BY <1>3, <2>1, <2>2, <2>3, <2>4
<1> QED
  BY <1>1, <1>2, <1>3 DEF Owns

LEMMA OnlyOneOwner == IInv /\ Whole => OneOwner
<1> SUFFICES ASSUME IInv, Whole, NEW m \in Memory, NEW a \in Owners(m), NEW b \in Owners(m)
             PROVE  a = b
  BY DEF OneOwner
<1>1. Running /\ Owns(a, m) /\ Owns(b, m) /\ m # Null
  BY OwnersOwn, ChainAssumption DEF Memory, Null
<1>2. /\ TurnOf(a) \in Nat /\ Back < TurnOf(a) /\ TurnOf(a) <= Back + BlockCount
      /\ MemoryAt(TurnOf(a)) = m
  BY <1>1, OwnerTurn
<1>3. /\ TurnOf(b) \in Nat /\ Back < TurnOf(b) /\ TurnOf(b) <= Back + BlockCount
      /\ MemoryAt(TurnOf(b)) = m
  BY <1>1, OwnerTurn
<1>4. ~(TurnOf(a) < TurnOf(b)) /\ ~(TurnOf(b) < TurnOf(a))
  BY <1>1, <1>2, <1>3, MemoryDiffers
<1>5. TurnOf(a) = TurnOf(b)
  BY <1>2, <1>3, <1>4
<1> QED
  BY <1>1, <1>5, OwnersDiffer

\* A block comes back to the lead when nobody else has it, and with its size set
\* again, however many threads the chain has.
THEOREM RecycledWhenFree == Spec => []RecycledSafely
<1>1. IInv /\ Whole => RecycledSafely
  BY OnlyOneOwner DEF RecycledSafely, LeadGetsWholeBlocks, Whole
<1> QED
  BY <1>1, InitWhole, NextWhole, Invariance, PTL DEF Spec
=============================================================================
