-------------------------------- MODULE PCQueue --------------------------------
(****************************************************************************)
(* util::PCQueue (util/pcqueue.hh): a ring of size slots guarded by two     *)
(* counting semaphores, empty_ and used_, and by one mutex for each end.    *)
(*                                                                          *)
(* Waiting for a semaphore, the section under the mutex and posting to the  *)
(* other semaphore are separate actions: several producers may be between   *)
(* any two of them, and so may several consumers.                           *)
(****************************************************************************)
EXTENDS Integers, Sequences, FiniteSets

CONSTANTS
  Producers, Consumers,
  Values,      \* what is passed through the queue
  Nothing,     \* no value: an unused slot
  Size,        \* the argument of the constructor
  MaxProduced  \* bound: the number of values put into the queue

ASSUME QueueAssumption ==
  /\ Size \in Nat \ {0}
  /\ Nothing \notin Values
  /\ IsFiniteSet(Producers) /\ IsFiniteSet(Consumers)
  /\ MaxProduced \in Nat

VARIABLES
  empty, used,           \* the counts of empty_ and used_
  storage,               \* storage_
  produceAt, consumeAt,  \* produce_at_ and consume_at_, as indices
  ppc, pval,             \* where each producer is, and the value it brings
  kpc, kval,             \* where each consumer is, and the value it got
  produced, consumed     \* history: the values written and read, in order

producerVars == <<ppc, pval>>
consumerVars == <<kpc, kval>>
queueVars == <<empty, used, storage, produceAt, consumeAt, producerVars, consumerVars,
          produced, consumed>>

Slots == 0..(Size - 1)

QueueInit ==
  /\ empty = Size /\ used = 0
  /\ storage = [i \in Slots |-> Nothing]
  /\ produceAt = 0 /\ consumeAt = 0
  /\ ppc = [p \in Producers |-> "idle"] /\ pval = [p \in Producers |-> Nothing]
  /\ kpc = [k \in Consumers |-> "idle"] /\ kval = [k \in Consumers |-> Nothing]
  /\ produced = <<>> /\ consumed = <<>>

\* if (++at == end_) at = storage_.get()
Advance(at) == IF at + 1 = Size THEN 0 ELSE at + 1

-----------------------------------------------------------------------------
(* Produce *)

ProducersAt(s) == {p \in Producers : ppc[p] = s}
ConsumersAt(s) == {k \in Consumers : kpc[k] = s}

\* The values written and those about to be written stay within the bound.
MayProduce == Len(produced) + Cardinality(ProducersAt("write")) < MaxProduced

\* WaitSemaphore(empty_)
WaitEmpty(p, v) ==
  /\ ppc[p] = "idle" /\ empty > 0 /\ MayProduce
  /\ empty' = empty - 1
  /\ ppc' = [ppc EXCEPT ![p] = "write"]
  /\ pval' = [pval EXCEPT ![p] = v]
  /\ UNCHANGED <<used, storage, produceAt, consumeAt, consumerVars, produced, consumed>>

\* Under produce_at_mutex_.
Write(p) ==
  /\ ppc[p] = "write"
  /\ storage' = [storage EXCEPT ![produceAt] = pval[p]]
  /\ produceAt' = Advance(produceAt)
  /\ produced' = Append(produced, pval[p])
  /\ ppc' = [ppc EXCEPT ![p] = "post"]
  /\ UNCHANGED <<empty, used, consumeAt, pval, consumerVars, consumed>>

\* Mistake (not the code): the slot is not given back.
WriteThrowsAway(p) ==
  /\ ppc[p] = "write"
  /\ ppc' = [ppc EXCEPT ![p] = "idle"]
  /\ pval' = [pval EXCEPT ![p] = Nothing]
  /\ UNCHANGED <<empty, used, storage, produceAt, consumeAt, consumerVars, produced, consumed>>

\* The assignment of the value throws: the slot is given back.
WriteThrows(p) ==
  /\ ppc[p] = "write"
  /\ empty' = empty + 1
  /\ ppc' = [ppc EXCEPT ![p] = "idle"]
  /\ pval' = [pval EXCEPT ![p] = Nothing]
  /\ UNCHANGED <<used, storage, produceAt, consumeAt, consumerVars, produced, consumed>>

\* used_.post()
PostUsed(p) ==
  /\ ppc[p] = "post"
  /\ used' = used + 1
  /\ ppc' = [ppc EXCEPT ![p] = "idle"]
  /\ pval' = [pval EXCEPT ![p] = Nothing]
  /\ UNCHANGED <<empty, storage, produceAt, consumeAt, consumerVars, produced, consumed>>

-----------------------------------------------------------------------------
(* Consume *)

\* Mistake (not the code): the last value is left in the queue.
WaitUsedLate(k) ==
  /\ kpc[k] = "idle" /\ used > 1
  /\ used' = used - 1
  /\ kpc' = [kpc EXCEPT ![k] = "read"]
  /\ UNCHANGED <<empty, storage, produceAt, consumeAt, producerVars, kval, produced, consumed>>

\* WaitSemaphore(used_)
WaitUsed(k) ==
  /\ kpc[k] = "idle" /\ used > 0
  /\ used' = used - 1
  /\ kpc' = [kpc EXCEPT ![k] = "read"]
  /\ UNCHANGED <<empty, storage, produceAt, consumeAt, producerVars, kval, produced, consumed>>

\* Under consume_at_mutex_.
Read(k) ==
  /\ kpc[k] = "read"
  /\ kval' = [kval EXCEPT ![k] = storage[consumeAt]]
  /\ consumed' = Append(consumed, storage[consumeAt])
  /\ consumeAt' = Advance(consumeAt)
  /\ kpc' = [kpc EXCEPT ![k] = "post"]
  /\ UNCHANGED <<empty, used, storage, produceAt, producerVars, produced>>

\* Mistake (not the code): the slot is given back although it is still full.
ReadThrowsFrees(k) ==
  /\ kpc[k] = "read"
  /\ empty' = empty + 1
  /\ kpc' = [kpc EXCEPT ![k] = "idle"]
  /\ UNCHANGED <<used, storage, produceAt, consumeAt, producerVars, kval, produced, consumed>>

\* The assignment to out throws: the value stays in the queue.
ReadThrows(k) ==
  /\ kpc[k] = "read"
  /\ used' = used + 1
  /\ kpc' = [kpc EXCEPT ![k] = "idle"]
  /\ UNCHANGED <<empty, storage, produceAt, consumeAt, producerVars, kval, produced, consumed>>

\* empty_.post()
PostEmpty(k) ==
  /\ kpc[k] = "post"
  /\ empty' = empty + 1
  /\ kpc' = [kpc EXCEPT ![k] = "idle"]
  /\ UNCHANGED <<used, storage, produceAt, consumeAt, producerVars, kval, produced, consumed>>

-----------------------------------------------------------------------------
ProducerStep(p) == Write(p) \/ PostUsed(p)
ConsumerStep(k) == WaitUsed(k) \/ Read(k) \/ PostEmpty(k)

\* As much as the bound allows was produced, and no thread is inside a call
\* but for consumers that wait for more.
NothingToDo ==
  /\ Len(produced) = MaxProduced
  /\ \A p \in Producers : ppc[p] = "idle"
  /\ \A k \in Consumers : kpc[k] = "idle"
  /\ UNCHANGED queueVars

QueueNext ==
  \/ NothingToDo
  \/ \E p \in Producers :
       \/ ProducerStep(p) \/ WriteThrows(p)
       \/ \E v \in Values : WaitEmpty(p, v)
  \/ \E k \in Consumers : ConsumerStep(k) \/ ReadThrows(k)

QueueSpec == QueueInit /\ [][QueueNext]_queueVars

\* A thread that holds a mutex or a place in the queue goes on; a consumer that
\* waits for used_ gets it when it is posted often enough.
QueueFairness ==
  /\ \A p \in Producers : WF_queueVars(ProducerStep(p))
  /\ \A k \in Consumers : /\ SF_queueVars(WaitUsed(k)) /\ SF_queueVars(Read(k))
                          /\ WF_queueVars(PostEmpty(k))

QueueFairSpec == QueueSpec /\ QueueFairness

-----------------------------------------------------------------------------
QueueTypeOK ==
  /\ empty \in Nat /\ used \in Nat
  /\ storage \in [Slots -> Values \cup {Nothing}]
  /\ produceAt \in Slots /\ consumeAt \in Slots
  /\ ppc \in [Producers -> {"idle", "write", "post"}]
  /\ pval \in [Producers -> Values \cup {Nothing}]
  /\ kpc \in [Consumers -> {"idle", "read", "post"}]
  /\ kval \in [Consumers -> Values \cup {Nothing}]
  /\ produced \in Seq(Values)
  /\ consumed \in Seq(Values \cup {Nothing})

\* How many values are written and not read yet.
Stored == Len(produced) - Len(consumed)

\* Every slot is accounted for, wherever the producers and consumers stand and
\* whatever was thrown: a slot is promised by empty_, claimed by a producer,
\* full, or read and not given back yet; a full slot is promised by used_, or
\* about to be, or claimed by a consumer.
SlotsAccountedFor ==
  /\ Size = empty + Cardinality(ProducersAt("write")) + Stored
                  + Cardinality(ConsumersAt("post"))
  /\ Stored = used + Cardinality(ProducersAt("post"))
                   + Cardinality(ConsumersAt("read"))

\* No value is overwritten before it is read, nor read before it is written:
\* the consumers together read what the producers together wrote, in order.
ConsumedInOrder ==
  /\ Len(consumed) <= Len(produced)
  /\ \A i \in 1..Len(consumed) : consumed[i] = produced[i]

\* The values written and not read yet, in order.
Unread == SubSeq(produced, Len(consumed) + 1, Len(produced))

\* The queue is a bounded first-in first-out buffer, "safe for multiple producers
\* and multiple consumers"; its content changes under the two mutexes.
Buffer == INSTANCE BoundedBuffer WITH buffer <- Unread
ImplementsBuffer == Buffer!Spec

\* What was put into the queue gets out of it.
EverythingConsumed ==
  \A n \in 1..MaxProduced : (Len(produced) >= n) ~> (Len(consumed) >= n)
=============================================================================
