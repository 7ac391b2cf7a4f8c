--------------------------------- MODULE Chain ---------------------------------
(****************************************************************************)
(* util::stream::Chain (util/stream/chain.{hh,cc}): a ring of threads that  *)
(* pass blocks of memory on.  The lead thread fills the blocks, the others  *)
(* work on them in turn, and the last one, which closes the loop, gives     *)
(* them back to the lead.  The end of the data is a block without memory,   *)
(* the poison, that the lead sends around once.                             *)
(*                                                                          *)
(* Thread k reads the queue k-1 and writes the queue k; the thread that     *)
(* closes the loop writes the queue 0.  Each queue is a util::PCQueue with  *)
(* one producer and one consumer: an operation on it is one step (see       *)
(* PCQueue for the steps inside).                                           *)
(****************************************************************************)
EXTENDS Integers, Sequences

CONSTANTS
  BlockCount,  \* config_.block_count
  MaxThreads,  \* bound: the threads of a chain, with the one that closes it
  MaxBlocks,   \* bound: the blocks the lead fills before the data ends
  MaxRounds    \* bound: how many times the chain is started

ASSUME ChainAssumption ==
  /\ BlockCount \in Nat \ {0}
  /\ MaxThreads \in Nat \ {0, 1}
  /\ MaxBlocks \in Nat
  /\ MaxRounds \in Nat \ {0}

VARIABLES
  main,      \* what the thread that owns the chain is doing
  rounds,    \* how many times the chain was started
  links,     \* threads_.size()
  complete,  \* complete_called_
  queue,     \* queues_
  content,   \* what is in the memory: the number of the block of data
  pc, cur,   \* where each thread is, and the block its Link holds (current_)
  drained,   \* the counter of the loop that empties the front queue in Wait
  took,      \* history: how many blocks each thread consumed in this round
  lent       \* history: the memory of the blocks the lead consumed, in order

vars == <<main, rounds, links, complete, queue, content, pc, cur, drained, took, lent>>

Threads == 1..MaxThreads
Null == 0
Memory == 1..BlockCount   \* the places in memory_, block_size_ bytes each

\* A Block is a pointer and a size: of the size it matters whether it is
\* BlockSize().
Block == [mem : Memory \cup {Null}, full : BOOLEAN]

IsPoison(b) == b.mem = Null

Running == links # 0

In(k) == k - 1
Out(k) == IF complete /\ k = links THEN 0 ELSE k

\* Between consuming a block and producing it (or poison in its stead).
Holding(k) == pc[k] \in {"work", "put", "pass"}

NoBlock == [mem |-> Null, full |-> FALSE]

Init ==
  /\ main = "idle" /\ rounds = 0 /\ links = 0 /\ complete = FALSE
  /\ queue = [i \in 0..MaxThreads |-> <<>>]
  /\ content = [m \in Memory |-> 0]
  /\ pc = [k \in Threads |-> "none"] /\ cur = [k \in Threads |-> NoBlock]
  /\ drained = 0
  /\ took = [k \in Threads |-> 0] /\ lent = <<>>

-----------------------------------------------------------------------------
(* The thread that owns the chain *)

LeadQueue == [i \in 1..BlockCount |-> [mem |-> i, full |-> TRUE]]

\* Add, called by operator>>: the first thread starts the chain.
AddThread ==
  /\ main = "idle" /\ ~complete
  /\ links + 1 < MaxThreads
  /\ IF Running
     THEN UNCHANGED <<queue, rounds>>
     ELSE /\ rounds < MaxRounds
          /\ rounds' = rounds + 1
          /\ queue' = [queue EXCEPT ![0] = LeadQueue]
  /\ links' = links + 1
  /\ pc' = [pc EXCEPT ![links + 1] = "init"]
  /\ UNCHANGED <<main, complete, content, cur, drained, took, lent>>

\* CompleteLoop, or operator>> of a worker that also recycles.
CompleteLoop ==
  /\ main = "idle" /\ Running /\ ~complete
  /\ complete' = TRUE
  /\ links' = links + 1
  /\ pc' = [pc EXCEPT ![links + 1] = "init"]
  /\ UNCHANGED <<main, rounds, queue, content, cur, drained, took, lent>>

\* Mistake (not the code): Wait joins the threads of a chain that is open.
WaitOpen ==
  /\ main = "idle" /\ Running
  /\ main' = "joining"
  /\ UNCHANGED <<rounds, links, complete, queue, content, pc, cur, drained, took, lent>>

\* Wait closes the loop if nobody did; the threads are joined by Joined.
Wait ==
  /\ main = "idle" /\ Running
  /\ main' = "joining"
  /\ IF complete
     THEN UNCHANGED <<complete, links, pc>>
     ELSE /\ complete' = TRUE
          /\ links' = links + 1
          /\ pc' = [pc EXCEPT ![links + 1] = "init"]
  /\ UNCHANGED <<rounds, queue, content, cur, drained, took, lent>>

\* threads_.clear(): each Thread is joined by its destructor.
Joined ==
  /\ main = "joining"
  /\ \A k \in 1..links : pc[k] = "done"
  /\ main' = "draining" /\ drained' = 0
  /\ UNCHANGED <<rounds, links, complete, queue, content, pc, cur, took, lent>>

\* The front queue is emptied up to the poison; the program aborts when there
\* are more blocks than there should be.
DrainBlock ==
  /\ main = "draining" /\ queue[0] # <<>> /\ ~IsPoison(Head(queue[0]))
  /\ queue' = [queue EXCEPT ![0] = Tail(@)]
  /\ IF drained = BlockCount
     THEN main' = "aborted" /\ UNCHANGED drained
     ELSE drained' = drained + 1 /\ UNCHANGED main
  /\ UNCHANGED <<rounds, links, complete, content, pc, cur, took, lent>>

\* queues_.clear() and what follows: the chain can be started again.
DrainPoison ==
  /\ main = "draining" /\ queue[0] # <<>> /\ IsPoison(Head(queue[0]))
  /\ main' = "idle" /\ links' = 0 /\ complete' = FALSE /\ drained' = 0
  /\ queue' = [i \in 0..MaxThreads |-> <<>>]
  /\ pc' = [k \in Threads |-> "none"] /\ cur' = [k \in Threads |-> NoBlock]
  /\ took' = [k \in Threads |-> 0] /\ lent' = <<>>
  /\ UNCHANGED <<rounds, content>>

-----------------------------------------------------------------------------
(* The threads of the chain *)

\* in_->Consume(current_)
Consume(k) ==
  /\ queue[In(k)] # <<>>
  /\ cur' = [cur EXCEPT ![k] = Head(queue[In(k)])]
  /\ queue' = [queue EXCEPT ![In(k)] = Tail(@)]
  /\ took' = [took EXCEPT ![k] = @ + 1]
  /\ lent' = IF k = 1 THEN Append(lent, Head(queue[0]).mem) ELSE lent
  /\ UNCHANGED <<main, rounds, links, complete, content, drained>>

\* Mistake (not the code): a first block that is poison is not passed on.
TakeFirstOnly(k) ==
  /\ k <= links /\ pc[k] = "init"
  /\ Consume(k)
  /\ pc' = [pc EXCEPT ![k] = IF IsPoison(cur'[k]) THEN "done" ELSE "work"]

\* Link::Init.  Poison: the loop over the Link does not run, and ~Link passes
\* it on.
TakeFirst(k) ==
  /\ k <= links /\ pc[k] = "init"
  /\ Consume(k)
  /\ pc' = [pc EXCEPT ![k] = IF IsPoison(cur'[k]) THEN "pass" ELSE "work"]

\* operator++, after the block was passed on.
TakeNext(k) ==
  /\ k <= links /\ pc[k] = "take"
  /\ Consume(k)
  /\ pc' = [pc EXCEPT ![k] = IF IsPoison(cur'[k]) THEN "pass" ELSE "work"]

\* The lead has data for the block (Read::Run, PRead::Run, a Stream that is
\* written): all the block, or the part that SetValidSize names.
Fill ==
  /\ 1 <= links /\ pc[1] = "work"
  /\ took[1] <= MaxBlocks
  /\ content' = [content EXCEPT ![cur[1].mem] = took[1]]
  /\ \E full \in BOOLEAN : cur' = [cur EXCEPT ![1].full = full]
  /\ pc' = [pc EXCEPT ![1] = "put"]
  /\ UNCHANGED <<main, rounds, links, complete, queue, drained, took, lent>>

\* Mistake (not the code): the block goes on and the poison after it.
PoisonToo ==
  /\ 1 <= links /\ pc[1] = "work"
  /\ queue' = [queue EXCEPT ![Out(1)] = Append(@, cur[1])]
  /\ cur' = [cur EXCEPT ![1].mem = Null]
  /\ pc' = [pc EXCEPT ![1] = "pass"]
  /\ UNCHANGED <<main, rounds, links, complete, content, drained, took, lent>>

\* Link::Poison, at the end of the data: the block the lead holds becomes the
\* poison, its memory is not passed on.
Poison ==
  /\ 1 <= links /\ pc[1] = "work"
  /\ cur' = [cur EXCEPT ![1].mem = Null]
  /\ pc' = [pc EXCEPT ![1] = "pass"]
  /\ UNCHANGED <<main, rounds, links, complete, queue, content, drained, took, lent>>

\* Mistake (not the code): the thread that closes the loop only passes on.
WorkNoReset(k) ==
  /\ k \in 2..links /\ pc[k] = "work"
  /\ cur' = cur
  /\ pc' = [pc EXCEPT ![k] = "put"]
  /\ UNCHANGED <<main, rounds, links, complete, queue, content, drained, took, lent>>

\* Another thread works on the block; it may leave less in it.  The one that
\* closes the loop sets the size to BlockSize() (Recycler::Run and the two
\* workers that write and recycle).
Work(k) ==
  /\ k \in 2..links /\ pc[k] = "work"
  /\ \/ /\ Out(k) = 0
        /\ cur' = [cur EXCEPT ![k].full = TRUE]
     \/ /\ Out(k) # 0
        /\ \E full \in BOOLEAN : cur' = [cur EXCEPT ![k].full = cur[k].full /\ full]
  /\ pc' = [pc EXCEPT ![k] = "put"]
  /\ UNCHANGED <<main, rounds, links, complete, queue, content, drained, took, lent>>

\* out_->Produce(current_) waits for room.
Produce(k) ==
  /\ Len(queue[Out(k)]) < BlockCount
  /\ queue' = [queue EXCEPT ![Out(k)] = Append(@, cur[k])]
  /\ UNCHANGED <<main, rounds, links, complete, content, cur, drained, took, lent>>

Put(k) ==
  /\ k <= links /\ pc[k] = "put"
  /\ Produce(k)
  /\ pc' = [pc EXCEPT ![k] = "take"]

\* The poison is passed on and the thread ends.
Pass(k) ==
  /\ k <= links /\ pc[k] = "pass"
  /\ Produce(k)
  /\ pc' = [pc EXCEPT ![k] = "done"]

-----------------------------------------------------------------------------
ThreadStep(k) ==
  \/ TakeFirst(k) \/ TakeNext(k) \/ Work(k) \/ Put(k) \/ Pass(k)
  \/ k = 1 /\ (Fill \/ Poison)

WaitStep == Joined \/ DrainBlock \/ DrainPoison

Next ==
  \/ AddThread \/ CompleteLoop \/ Wait \/ WaitStep
  \/ \E k \in Threads : ThreadStep(k)

Spec == Init /\ [][Next]_vars

\* The threads are scheduled, and the thread in Wait goes on when it can.
\* Nothing is assumed of whoever builds the chain: it need not call Wait.
FairSpec == Spec /\ (\A k \in Threads : WF_vars(ThreadStep(k))) /\ WF_vars(WaitStep)

-----------------------------------------------------------------------------
(* Properties *)

TypeOK ==
  /\ main \in {"idle", "joining", "draining", "aborted"}
  /\ rounds \in 0..MaxRounds
  /\ links \in 0..MaxThreads
  /\ complete \in BOOLEAN
  /\ queue \in [0..MaxThreads -> Seq(Block)]
  /\ content \in [Memory -> Nat]
  /\ pc \in [Threads -> {"none", "init", "work", "put", "take", "pass", "done"}]
  /\ cur \in [Threads -> Block]
  /\ drained \in 0..BlockCount
  /\ took \in [Threads -> Nat]
  /\ lent \in Seq(Memory)

\* No thread ever waits for room in a queue: "This queue can accomodate all
\* blocks." (Chain::Start) holds of every queue, because the poison takes the
\* place of a block instead of being one more.
ProduceNeverWaits ==
  \A k \in 1..links : pc[k] \in {"put", "pass"} => Len(queue[Out(k)]) < BlockCount

\* A thread that works on a block finds in it the data of its turn: its n-th
\* block is the n-th the lead filled.  No block is lost, overtaken, or handed
\* out for reuse while a thread has still to see what is in it.
DeliveredInOrder ==
  \A k \in 2..links : pc[k] = "work" => content[cur[k].mem] = took[k]

\* No memory is in two hands: two threads, two places of the queues, or one of
\* each never have the same block.
Owners(m) ==
  {<<"thread", k, 0>> : k \in {j \in 1..links : Holding(j) /\ cur[j].mem = m}}
  \cup UNION {{<<"queue", i, n>> : n \in {j \in 1..Len(queue[i]) : queue[i][j].mem = m}} :
              i \in 0..MaxThreads}
OneOwner == \A m \in Memory : \A a, b \in Owners(m) : a = b

\* The lead always gets whole blocks: whatever the threads left in a block,
\* its size was set again before it came back (Link in Read::Run reads
\* block_size bytes into it, a Stream writes up to ValidSize).
LeadGetsWholeBlocks == 1 <= links /\ pc[1] = "work" => cur[1].full

\* A block is used again only when it is free to be: nobody else has it, and its
\* size has been set again.
RecycledSafely == OneOwner /\ LeadGetsWholeBlocks

\* When the threads have been joined the poison is in the front queue, after
\* all the blocks: the loop in Wait finds it before it counts to block_count,
\* and the program does not abort with "Chain ending without poison."
PoisonEndsTheRound ==
  /\ main # "aborted"
  /\ main = "draining" =>
       /\ Len(queue[0]) + drained = BlockCount
       /\ \A n \in 1..Len(queue[0]) : IsPoison(queue[0][n]) <=> n = Len(queue[0])

\* Wait returns: every thread ends once the lead has, and the chain can be
\* started again.
WaitReturns == (main = "joining") ~> (main = "idle")

=============================================================================
