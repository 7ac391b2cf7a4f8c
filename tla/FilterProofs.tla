----------------------------- MODULE FilterProofs -----------------------------
(* Proofs about FilterController for any number of threads and batches and  *)
(* any file, and about PCQueue, the queue its threads pass the batches      *)
(* through, for any number of producers and consumers and any size.         *)
EXTENDS FilterController, PCQueue, SequenceTheorems, FiniteSetTheorems,
        WellFoundedInduction, TLAPS

-----------------------------------------------------------------------------
(* The inductive invariant: the queues and the hands of the threads share   *)
(* the batches out among them, and the batches that were filled and have    *)
(* not been written have different numbers, none below base.                *)

\* The batches in a queue, and in the hands of the workers.
In(s) == {s[n] : n \in 1..Len(s)} \ {Null}
AtWork == {wbatch[w] : w \in Workers} \ {Null}

Once(s) == \A m, n \in 1..Len(s) : s[m] = s[n] /\ s[m] # Null => m = n
OnceAtWork == \A v, w \in Workers : wbatch[v] = wbatch[w] /\ wbatch[v] # Null => v = w

\* Main has the batch it fills on top; from the end of the input on, the one
\* that nobody will send.
Filling == mpc \notin {"none", "drain"}

Hands ==
  /\ Filling => local # <<>>
  /\ mpc = "none" => local = <<>>
  /\ \A w \in Workers : wpc[w] \in {"filter", "produce"} <=> wbatch[w] # Null
  /\ opc = "produce" => FrontThere

NoneTwice ==
  /\ Once(local) /\ Once(toRead) /\ Once(toFilter) /\ Once(toWrite) /\ Once(ordering)
  /\ OnceAtWork

Apart ==
  /\ In(local) \cap (In(toRead) \cup In(toFilter) \cup AtWork \cup In(toWrite) \cup In(ordering)) = {}
  /\ In(toRead) \cap (In(toFilter) \cup AtWork \cup In(toWrite) \cup In(ordering)) = {}
  /\ In(toFilter) \cap (AtWork \cup In(toWrite) \cup In(ordering)) = {}
  /\ AtWork \cap (In(toWrite) \cup In(ordering)) = {}
  /\ In(toWrite) \cap In(ordering) = {}

NoneLost ==
  Batches = In(local) \cup In(toRead) \cup In(toFilter) \cup AtWork \cup In(toWrite) \cup In(ordering)

\* The batches whose number counts: filled or being filled, and not written.
Given ==
  In(toFilter) \cup AtWork \cup In(toWrite) \cup In(ordering)
  \cup (IF Filling THEN {Top} ELSE {})

Numbers ==
  /\ base <= sequence
  /\ \A b \in Given : base <= numbered[b] /\ numbered[b] < sequence
  /\ \A b, c \in Given : numbered[b] = numbered[c] => b = c
  /\ \A n \in 1..Len(ordering) : ordering[n] # Null => numbered[ordering[n]] = base + n - 1

IInv == TypeOK /\ Hands /\ NoneTwice /\ Apart /\ NoneLost /\ Numbers

-----------------------------------------------------------------------------
(* What the operations on a queue do to the batches in it. *)

LEMMA Appended ==
  ASSUME NEW S, NEW s \in Seq(S), NEW x \in S, Once(s), x \notin In(s)
  PROVE  /\ Append(s, x) \in Seq(S) /\ Once(Append(s, x))
         /\ In(Append(s, x)) = In(s) \cup ({x} \ {Null})
<1> DEFINE t == Append(s, x)
<1>1. /\ t \in Seq(S) /\ Len(s) \in Nat /\ Len(t) = Len(s) + 1 /\ t[Len(s) + 1] = x
      /\ \A n \in 1..Len(s) : t[n] = s[n]
  BY AppendProperties, LenProperties
<1> HIDE DEF t
<1>2. \A n \in 1..Len(t) : n \in 1..Len(s) \/ n = Len(s) + 1
  BY <1>1
<1>3. \A n \in 1..Len(s) : n \in 1..Len(t) /\ Len(s) + 1 \in 1..Len(t)
  BY <1>1
<1>4. \A n \in 1..Len(s) : s[n] # Null => s[n] # x
  BY DEF In
<1>5. Once(t)
  BY <1>1, <1>2, <1>4 DEF Once
<1>6. Len(s) + 1 \in 1..Len(t)
  BY <1>1
<1>7. In(t) = In(s) \cup ({x} \ {Null})
  <2>1. ASSUME NEW y \in In(t) PROVE y \in In(s) \cup ({x} \ {Null})
    BY <1>1, <1>2 DEF In
  <2>2. ASSUME NEW y \in In(s) PROVE y \in In(t)
    BY <1>1, <1>3 DEF In
  <2>3. ASSUME x # Null PROVE x \in In(t)
    BY <1>1, <1>6, <2>3 DEF In
  <2> QED
    BY <2>1, <2>2, <2>3
<1> QED
  BY <1>1, <1>5, <1>7 DEF t

LEMMA Removed ==
  ASSUME NEW S, NEW s \in Seq(S), s # <<>>, Once(s)
  PROVE  /\ Head(s) \in S /\ Tail(s) \in Seq(S) /\ Once(Tail(s))
         /\ In(Tail(s)) = In(s) \ {Head(s)}
         /\ Head(s) # Null => Head(s) \in In(s)
<1> DEFINE t == Tail(s)
<1>1. /\ t \in Seq(S) /\ Len(s) \in Nat /\ Len(s) >= 1 /\ Len(t) = Len(s) - 1
      /\ Head(s) = s[1] /\ Head(s) \in S
      /\ \A n \in 1..Len(t) : t[n] = s[n + 1]
  <2>1. Len(s) \in Nat /\ Len(s) # 0
    BY EmptySeq, LenProperties
  <2> QED
    BY <2>1, HeadTailProperties
<1> HIDE DEF t
<1>2. \A n \in 1..Len(t) : n + 1 \in 1..Len(s) /\ n + 1 # 1
  BY <1>1
<1>3. \A n \in 1..Len(s) : n = 1 \/ (n - 1 \in 1..Len(t) /\ (n - 1) + 1 = n)
  BY <1>1
<1>4. 1 \in 1..Len(s)
  BY <1>1
<1>5. Once(t)
  <2> SUFFICES ASSUME NEW m \in 1..Len(t), NEW n \in 1..Len(t), t[m] = t[n], t[m] # Null
               PROVE  m = n
    BY DEF Once
  <2>1. m + 1 = n + 1
    BY <1>1, <1>2 DEF Once
  <2> QED
    BY <2>1
<1>6. In(t) = In(s) \ {Head(s)}
  <2>1. ASSUME NEW y \in In(t) PROVE y \in In(s) /\ y # Head(s)
    <3>1. PICK n \in 1..Len(t) : y = t[n] /\ y # Null
      BY DEF In
    <3>2. y = s[n + 1] /\ n + 1 \in 1..Len(s) /\ n + 1 # 1
      BY <1>1, <1>2, <3>1
    <3> QED
      BY <1>1, <1>4, <3>1, <3>2 DEF In, Once
  <2>2. ASSUME NEW y \in In(s), y # Head(s) PROVE y \in In(t)
    <3>1. PICK n \in 1..Len(s) : y = s[n] /\ y # Null
      BY DEF In
    <3>2. n - 1 \in 1..Len(t) /\ t[n - 1] = s[n]
      BY <1>1, <1>3, <2>2, <3>1
    <3> QED
      BY <3>1, <3>2 DEF In
  <2> QED
    BY <2>1, <2>2
<1> QED
  BY <1>1, <1>4, <1>5, <1>6 DEF t, In

LEMMA Pushed ==
  ASSUME NEW S, NEW s \in Seq(S), NEW x \in S, Once(s), x \notin In(s)
  PROVE  /\ <<x>> \o s \in Seq(S) /\ Once(<<x>> \o s) /\ <<x>> \o s # <<>>
         /\ In(<<x>> \o s) = In(s) \cup ({x} \ {Null})
<1> DEFINE t == <<x>> \o s
<1>0. <<x>> \in Seq(S) /\ Len(<<x>>) = 1 /\ <<x>>[1] = x
  OBVIOUS
<1>1. /\ t \in Seq(S) /\ Len(s) \in Nat /\ Len(t) = Len(s) + 1 /\ t[1] = x
      /\ \A n \in 1..Len(s) : t[n + 1] = s[n]
  <2>1. /\ t \in Seq(S) /\ Len(t) = Len(<<x>>) + Len(s)
        /\ \A i \in 1..(Len(<<x>>) + Len(s)) :
             t[i] = IF i <= Len(<<x>>) THEN <<x>>[i] ELSE s[i - Len(<<x>>)]
    BY <1>0, ConcatProperties
  <2>2. Len(s) \in Nat
    BY LenProperties
  <2>3. t[1] = x
    BY <1>0, <2>1, <2>2
  <2>4. ASSUME NEW n \in 1..Len(s) PROVE t[n + 1] = s[n]
    <3>1. n + 1 \in 1..(1 + Len(s)) /\ ~(n + 1 <= 1) /\ (n + 1) - 1 = n
      BY <2>2
    <3> QED
      BY <1>0, <2>1, <3>1
  <2> QED
    BY <1>0, <2>1, <2>2, <2>3, <2>4
<1> HIDE DEF t
<1>2. \A n \in 1..Len(t) : n = 1 \/ (n - 1 \in 1..Len(s) /\ t[n] = s[n - 1])
  BY <1>1
<1>3. \A n \in 1..Len(s) : n + 1 \in 1..Len(t) /\ t[n + 1] = s[n]
  BY <1>1
<1>4. 1 \in 1..Len(t) /\ t # <<>>
  <2>1. t # <<>>
    BY <1>1, EmptySeq
  <2> QED
    BY <1>1, <2>1
<1>5. \A n \in 1..Len(s) : s[n] # Null => s[n] # x
  BY DEF In
<1>6. Once(t)
  <2> SUFFICES ASSUME NEW m \in 1..Len(t), NEW n \in 1..Len(t), t[m] = t[n], t[m] # Null
               PROVE  m = n
    BY DEF Once
  <2>1. CASE m = 1 \/ n = 1
    BY <1>1, <1>2, <1>5, <2>1
  <2>2. CASE m # 1 /\ n # 1
    <3>1. m - 1 = n - 1
      BY <1>2, <2>2 DEF Once
    <3> QED
      BY <3>1
  <2> QED
    BY <2>1, <2>2
<1>7. In(t) = In(s) \cup ({x} \ {Null})
  <2>1. ASSUME NEW y \in In(t) PROVE y \in In(s) \cup ({x} \ {Null})
    BY <1>1, <1>2 DEF In
  <2>2. ASSUME NEW y \in In(s) PROVE y \in In(t)
    BY <1>3 DEF In
  <2>3. ASSUME x # Null PROVE x \in In(t)
    BY <1>1, <1>4, <2>3 DEF In
  <2> QED
    BY <2>1, <2>2, <2>3
<1> QED
  BY <1>1, <1>4, <1>6, <1>7 DEF t

-----------------------------------------------------------------------------
(* The numbers of the batches. *)

LEMMA NumbersKept ==
  ASSUME Numbers, Given' \subseteq Given,
         UNCHANGED <<numbered, sequence, base, ordering>>
  PROVE  Numbers'
BY DEF Numbers

\* A batch that is not about to be written gets a new number.
LEMMA NumberGiven ==
  ASSUME TypeOK, Numbers, NEW c \in Batches, c \notin In(ordering),
         numbered' = [numbered EXCEPT ![c] = sequence], sequence' = sequence + 1,
         UNCHANGED <<base, ordering>>, Given' \subseteq Given \cup {c}, Given \subseteq Batches
  PROVE  Numbers'
<1>1. /\ base \in Nat /\ sequence \in Nat /\ base <= sequence /\ numbered'[c] = sequence
      /\ \A b \in Batches : numbered[b] \in Nat /\ (b # c => numbered'[b] = numbered[b])
      /\ numbered' \in [Batches -> Nat]
  BY DEF TypeOK, Numbers
<1>2. \A b \in Given' : base <= numbered'[b] /\ numbered'[b] < sequence + 1
  BY <1>1 DEF Numbers
<1>3. ASSUME NEW b \in Given', NEW d \in Given', numbered'[b] = numbered'[d] PROVE b = d
  <2>1. \A a \in Given : a # c => numbered'[a] = numbered[a] /\ numbered[a] < sequence /\ numbered[a] \in Nat
    BY <1>1 DEF Numbers
  <2>2. CASE b = c \/ d = c
    BY <1>1, <1>3, <2>1, <2>2
  <2>3. CASE b # c /\ d # c
    BY <1>3, <2>1, <2>3 DEF Numbers
  <2> QED
    BY <2>2, <2>3
<1>4. ASSUME NEW n \in 1..Len(ordering), ordering[n] # Null
      PROVE  numbered'[ordering[n]] = base + n - 1
  <2>1. ordering[n] \in In(ordering)
    BY <1>4 DEF In
  <2>2. ordering[n] \in Given
    BY <2>1 DEF Given
  <2> QED
    BY <1>1, <1>4, <2>1, <2>2 DEF Numbers
<1> QED
  BY <1>1, <1>2, <1>3, <1>4 DEF Numbers

\* What the invariant says of the queues and of where batches are.
LEMMA Places ==
  ASSUME IInv
  PROVE  /\ Batches \subseteq Nat \ {0} /\ QueueSize \in Nat \ {0} /\ Null = 0
         /\ In(local) \subseteq Batches /\ In(toRead) \subseteq Batches
         /\ In(toFilter) \subseteq Batches /\ AtWork \subseteq Batches
         /\ In(toWrite) \subseteq Batches /\ In(ordering) \subseteq Batches
         /\ Given \subseteq Batches
         /\ Filling => Top \in In(local) /\ Top \in Batches
<1>1. Batches \subseteq Nat \ {0} /\ QueueSize \in Nat \ {0} /\ Null = 0
  BY FilterAssumption DEF Batches, Null
<1>2. /\ In(local) \subseteq Batches /\ In(toRead) \subseteq Batches
      /\ In(toFilter) \subseteq Batches /\ AtWork \subseteq Batches
      /\ In(toWrite) \subseteq Batches /\ In(ordering) \subseteq Batches
  BY DEF IInv, NoneLost
<1>3. Filling => Top \in In(local) /\ Top \in Batches
  <2> SUFFICES ASSUME Filling PROVE Top \in In(local)
    BY <1>2
  <2>1. local \in Seq(Batches) /\ local # <<>> /\ Once(local)
    BY DEF IInv, TypeOK, Hands, NoneTwice
  <2> QED
    BY <1>1, <2>1, Removed DEF Top
<1> QED
  BY <1>1, <1>2, <1>3 DEF Given

-----------------------------------------------------------------------------
(* Steps that leave every batch where it is. *)

LEMMA StaysIInv ==
  ASSUME IInv, TypeOK', Hands', Filling' => Filling,
         UNCHANGED <<local, toRead, wbatch, ordering, base, numbered, sequence>>,
         \/ UNCHANGED <<toFilter, toWrite>>
         \/ toFilter' = Append(toFilter, Null) /\ UNCHANGED toWrite
         \/ toWrite' = Append(toWrite, Null) /\ UNCHANGED toFilter
  PROVE  IInv'
<1>0. /\ toFilter' = toFilter \/ toFilter' = Append(toFilter, Null)
      /\ toWrite' = toWrite \/ toWrite' = Append(toWrite, Null)
  OBVIOUS
<1>1. Null \notin In(toFilter) /\ Null \notin In(toWrite) /\ Null \in Batches \cup {Null}
  BY DEF In
<1>2. /\ toFilter \in Seq(Batches \cup {Null}) /\ toWrite \in Seq(Batches \cup {Null})
      /\ Once(toFilter) /\ Once(toWrite)
  BY DEF IInv, TypeOK, NoneTwice
<1>3. In(toFilter') = In(toFilter) /\ Once(toFilter')
  <2>1. CASE toFilter' = toFilter
    BY <1>2, <2>1
  <2>2. CASE toFilter' = Append(toFilter, Null)
    <3>1. /\ Once(Append(toFilter, Null))
          /\ In(Append(toFilter, Null)) = In(toFilter) \cup ({Null} \ {Null})
      BY <1>1, <1>2, Appended
    <3> QED
      BY <2>2, <3>1, Zenon
  <2> QED
    BY <1>0, <2>1, <2>2
<1>4. In(toWrite') = In(toWrite) /\ Once(toWrite')
  <2>1. CASE toWrite' = toWrite
    BY <1>2, <2>1
  <2>2. CASE toWrite' = Append(toWrite, Null)
    <3>1. /\ Once(Append(toWrite, Null))
          /\ In(Append(toWrite, Null)) = In(toWrite) \cup ({Null} \ {Null})
      BY <1>1, <1>2, Appended
    <3> QED
      BY <2>2, <3>1, Zenon
  <2> QED
    BY <1>0, <2>1, <2>2
<1>5. /\ In(local') = In(local) /\ In(toRead') = In(toRead) /\ AtWork' = AtWork
      /\ In(ordering') = In(ordering)
  BY DEF AtWork
<1>6. NoneTwice' /\ Apart' /\ NoneLost'
  BY <1>3, <1>4, <1>5 DEF IInv, NoneTwice, OnceAtWork, Apart, NoneLost
<1>7. Given' \subseteq Given
  BY <1>3, <1>4, <1>5 DEF Given, Top
<1>8. Numbers'
  BY <1>7, NumbersKept DEF IInv
<1> QED
  BY <1>6, <1>8 DEF IInv

LEMMA MainStaysIInv ==
  ASSUME IInv,
         \/ BeginLength \/ AddNGram \/ EndOfSection \/ Finish
         \/ PoisonFilter \/ JoinFilter \/ PoisonOutput \/ JoinOutput
  PROVE  IInv'
<1>1. TypeOK /\ Hands
  BY DEF IInv
<1>2. CASE BeginLength
  <2>1. TypeOK'
    BY <1>1, <1>2, FilterAssumption, SMTT(30)
    DEF TypeOK, BeginLength, workerVars, outputVars, batchVars, MainStates
  <2>2. Hands' /\ (Filling' => Filling)
    BY <1>1, <1>2 DEF Hands, BeginLength, workerVars, outputVars, Filling, FrontThere
  <2> QED
    BY <1>2, <2>1, <2>2, StaysIInv DEF BeginLength, workerVars, outputVars, batchVars
<1>3. CASE AddNGram
  <2>1. mpc' \in {"lines", "full"} /\ read' = read + 1 /\ DOMAIN lines' = DOMAIN lines
    BY <1>3 DEF AddNGram
  <2>2. TypeOK'
    BY <1>1, <1>3, <2>1 DEF TypeOK, AddNGram, workerVars, outputVars, MainStates
  <2>3. Hands' /\ (Filling' => Filling)
    BY <1>1, <1>3, <2>1 DEF Hands, AddNGram, workerVars, outputVars, Filling, FrontThere
  <2> QED
    BY <1>3, <2>2, <2>3, StaysIInv DEF AddNGram, workerVars, outputVars
<1>4. CASE EndOfSection
  <2>1. mpc' \in {"section", "drain", "last"} /\ mpc = "lines"
    BY <1>4 DEF EndOfSection
  <2>2. TypeOK'
    BY <1>1, <1>4, <2>1 DEF TypeOK, EndOfSection, workerVars, outputVars, batchVars, MainStates
  <2>3. Hands' /\ (Filling' => Filling)
    BY <1>1, <1>4, <2>1 DEF Hands, EndOfSection, workerVars, outputVars, Filling, FrontThere
  <2> QED
    BY <1>4, <2>2, <2>3, StaysIInv DEF EndOfSection, workerVars, outputVars, batchVars
<1>5. CASE Finish \/ JoinFilter \/ JoinOutput
  <2>1. /\ mpc' \in {"close", "closeOutput", "end"} /\ mpc \notin {"none", "drain"}
        /\ UNCHANGED <<input, sec, read, local, sequence, toRead, workerVars, outputVars, batchVars,
                       poisons, toFilter, toWrite>>
    BY <1>5 DEF Finish, JoinFilter, JoinOutput, CloseStep
  <2>2. TypeOK'
    BY <1>1, <2>1 DEF TypeOK, workerVars, outputVars, batchVars, MainStates
  <2>3. Hands' /\ (Filling' => Filling)
    BY <1>1, <2>1 DEF Hands, workerVars, outputVars, Filling, FrontThere
  <2> QED
    BY <2>1, <2>2, <2>3, StaysIInv DEF workerVars, outputVars, batchVars
<1>6. CASE PoisonFilter \/ PoisonOutput
  <2>1. /\ mpc' \in {"close", "join", "joinOutput"} /\ mpc \notin {"none", "drain"}
        /\ UNCHANGED <<input, sec, read, local, sequence, toRead, workerVars, outputVars, batchVars>>
    BY <1>6 DEF PoisonFilter, PoisonOutput, CloseStep
  <2>2. \/ toFilter' = Append(toFilter, Null) /\ UNCHANGED toWrite
        \/ toWrite' = Append(toWrite, Null) /\ UNCHANGED toFilter
    BY <1>6 DEF PoisonFilter, PoisonOutput
  <2>3. toFilter' \in Seq(Batches \cup {Null}) /\ toWrite' \in Seq(Batches \cup {Null})
    <3>1. Null \in Batches \cup {Null}
      OBVIOUS
    <3>2. toFilter \in Seq(Batches \cup {Null}) /\ toWrite \in Seq(Batches \cup {Null})
      BY <1>1 DEF TypeOK
    <3>3. /\ Append(toFilter, Null) \in Seq(Batches \cup {Null})
          /\ Append(toWrite, Null) \in Seq(Batches \cup {Null})
      BY <3>1, <3>2, AppendProperties
    <3> QED
      BY <2>2, <3>2, <3>3
  <2>4. poisons' \in 0..Cardinality(Workers)
    <3>1. Cardinality(Workers) \in Nat
      BY FilterAssumption, FS_CardinalityType
    <3> QED
      BY <1>1, <1>6, <3>1 DEF PoisonFilter, PoisonOutput, TypeOK
  <2>5. TypeOK'
    BY <1>1, <2>1, <2>3, <2>4 DEF TypeOK, workerVars, outputVars, batchVars, MainStates
  <2>6. Hands' /\ (Filling' => Filling)
    BY <1>1, <2>1 DEF Hands, workerVars, outputVars, Filling, FrontThere
  <2> QED
    BY <2>1, <2>2, <2>5, <2>6, StaysIInv DEF workerVars, outputVars, batchVars
<1> QED
  BY <1>2, <1>3, <1>4, <1>5, <1>6

LEMMA PoolStaysIInv ==
  ASSUME IInv, (\E w \in Workers : CallFilter(w)) \/ FlushFront \/ FlushEnds \/ UNCHANGED vars
  PROVE  IInv'
<1>1. TypeOK /\ Hands
  BY DEF IInv
<1>2. ASSUME NEW w \in Workers, CallFilter(w) PROVE IInv'
  <2>1. TypeOK'
    BY <1>1, <1>2 DEF TypeOK, CallFilter, mainVars, outputVars
  <2>2. Hands' /\ (Filling' => Filling)
    BY <1>1, <1>2 DEF Hands, CallFilter, mainVars, outputVars, Filling, FrontThere, TypeOK
  <2> QED
    BY <1>2, <2>1, <2>2, StaysIInv DEF CallFilter, mainVars, outputVars
<1>3. CASE FlushFront \/ FlushEnds
  <2>1. /\ opc' \in {"take", "produce"} /\ (opc' = "produce" => FrontThere)
        /\ UNCHANGED <<mainVars, toRead, toFilter, toWrite, workerVars, ordering, base, numbered, lines>>
        /\ DOMAIN kept' = DOMAIN kept
    BY <1>3 DEF FlushFront, FlushEnds, batchVars
  <2>2. TypeOK'
    BY <1>1, <2>1 DEF TypeOK, mainVars, workerVars
  <2>3. Hands' /\ (Filling' => Filling)
    BY <1>1, <2>1 DEF Hands, mainVars, workerVars, Filling, FrontThere
  <2> QED
    BY <2>1, <2>2, <2>3, StaysIInv DEF mainVars, workerVars
<1>4. CASE UNCHANGED vars
  <2>1. TypeOK'
    BY <1>1, <1>4 DEF TypeOK, vars, mainVars, workerVars, outputVars, batchVars
  <2>2. Hands' /\ (Filling' => Filling)
    BY <1>1, <1>4 DEF Hands, vars, mainVars, workerVars, outputVars, Filling, FrontThere
  <2> QED
    BY <1>4, <2>1, <2>2, StaysIInv DEF vars, mainVars, workerVars, outputVars, batchVars
<1> QED
  BY <1>2, <1>3, <1>4

-----------------------------------------------------------------------------
(* Steps of the main thread that move a batch. *)

LEMMA SendIInv == ASSUME IInv, Send PROVE IInv'
<1>1. /\ TypeOK /\ Hands /\ NoneTwice /\ Apart /\ NoneLost /\ Numbers /\ Filling /\ local # <<>>
      /\ mpc \in {"full", "last"}
  BY DEF IInv, Send, Filling, Hands
<1>2. /\ local' = Tail(local) /\ toFilter' = Append(toFilter, Top)
      /\ UNCHANGED <<toRead, toWrite, wpc, wbatch, opc, ordering, base>>
      /\ UNCHANGED <<input, sec, read, poisons, kept, out>>
  BY DEF Send, workerVars, outputVars
<1>3. /\ Top \in Batches /\ Top \in In(local) /\ Top # Null /\ Top \notin In(toFilter)
      /\ local' \in Seq(Batches) /\ Once(local') /\ In(local') = In(local) \ {Top}
  BY <1>1, <1>2, Places, Removed DEF TypeOK, NoneTwice, Top, Apart
<1>4. /\ toFilter' \in Seq(Batches \cup {Null}) /\ Once(toFilter')
      /\ In(toFilter') = In(toFilter) \cup {Top}
  <2>1. toFilter \in Seq(Batches \cup {Null}) /\ Once(toFilter) /\ Top \in Batches \cup {Null}
    BY <1>1, <1>3 DEF TypeOK, NoneTwice
  <2>2. /\ Append(toFilter, Top) \in Seq(Batches \cup {Null}) /\ Once(Append(toFilter, Top))
        /\ In(Append(toFilter, Top)) = In(toFilter) \cup ({Top} \ {Null})
    BY <1>3, <2>1, Appended
  <2> QED
    BY <1>2, <1>3, <2>2, Zenon
<1>5. AtWork' = AtWork /\ In(toRead') = In(toRead) /\ In(toWrite') = In(toWrite) /\ In(ordering') = In(ordering)
  BY <1>2 DEF AtWork
<1>6. NoneTwice' /\ Apart' /\ NoneLost'
  <2>1. NoneTwice'
    BY <1>1, <1>2, <1>3, <1>4 DEF NoneTwice, OnceAtWork
  <2>2. Apart'
    BY <1>1, <1>3, <1>4, <1>5 DEF Apart
  <2>3. NoneLost'
    BY <1>1, <1>3, <1>4, <1>5 DEF NoneLost, Batches
  <2> QED
    BY <2>1, <2>2, <2>3
<1>7. Given \subseteq Batches /\ Given = In(toFilter) \cup AtWork \cup In(toWrite) \cup In(ordering) \cup {Top}
  BY <1>1, Places DEF Given
<1>8. CASE mpc' \in {"drain", "none"} /\ UNCHANGED <<sequence, numbered, lines>>
           /\ (mpc' = "none" => local' = <<>>)
  <2>1. TypeOK'
    BY <1>1, <1>2, <1>3, <1>4, <1>8 DEF TypeOK, MainStates
  <2>2. Hands'
    BY <1>1, <1>2, <1>8 DEF Hands, Filling, FrontThere
  <2>3. Given' \subseteq Given
    BY <1>4, <1>5, <1>7, <1>8 DEF Given, Filling
  <2>4. Numbers'
    BY <1>1, <1>2, <1>8, <2>3, NumbersKept
  <2> QED
    BY <1>6, <2>1, <2>2, <2>4 DEF IInv
<1>9. CASE mpc' = "lines" /\ local' # <<>> /\ NewInput(Head(local'))
  <2>1. Head(local') \in Batches /\ Head(local') \in In(local')
    BY <1>3, <1>9, Removed, Places
  <2>2. numbered' = [numbered EXCEPT ![Head(local')] = sequence] /\ sequence' = sequence + 1
        /\ DOMAIN lines' = DOMAIN lines
    BY <1>9 DEF NewInput
  <2>3. TypeOK'
    <3>1. sequence' \in Nat /\ numbered' \in [Batches -> Nat] /\ DOMAIN lines' = Batches
      BY <1>1, <2>1, <2>2 DEF TypeOK
    <3>2. mpc' \in MainStates
      BY <1>9 DEF MainStates
    <3> QED
      BY <1>1, <1>2, <1>3, <1>4, <3>1, <3>2 DEF TypeOK
  <2>4. Hands'
    BY <1>1, <1>2, <1>9 DEF Hands, Filling, FrontThere
  <2>5. Given' \subseteq Given \cup {Head(local')}
    BY <1>4, <1>5, <1>7, <1>9 DEF Given, Filling, Top
  <2>6. Head(local') \notin In(ordering)
    BY <1>1, <1>3, <2>1 DEF Apart
  <2>7. Numbers'
    BY <1>1, <1>2, <1>7, <2>1, <2>2, <2>5, <2>6, NumberGiven
  <2> QED
    BY <1>6, <2>3, <2>4, <2>7 DEF IInv
<1> QED
  BY <1>1, <1>8, <1>9 DEF Send

\* A batch that main has got back from the output worker.
LEMMA BackFacts ==
  ASSUME IInv, toRead # <<>>, toRead' = Tail(toRead), local' = <<Head(toRead)>> \o local,
         UNCHANGED <<toFilter, toWrite, workerVars, outputVars>>
  PROVE  /\ Head(toRead) \in Batches /\ local' \in Seq(Batches) /\ local' # <<>>
         /\ toRead' \in Seq(Batches)
         /\ NoneTwice' /\ Apart' /\ NoneLost'
         /\ In(toFilter') = In(toFilter) /\ AtWork' = AtWork
         /\ In(toWrite') = In(toWrite) /\ In(ordering') = In(ordering)
         /\ Head(toRead) \notin In(ordering)
<1> DEFINE b == Head(toRead)
<1>1. TypeOK /\ NoneTwice /\ Apart /\ NoneLost
  BY DEF IInv
<1>2. /\ b \in Batches /\ toRead' \in Seq(Batches) /\ Once(toRead')
      /\ In(toRead') = In(toRead) \ {b} /\ b # Null /\ b \in In(toRead)
  <2>1. toRead \in Seq(Batches) /\ Once(toRead)
    BY <1>1 DEF TypeOK, NoneTwice
  <2> QED
    BY <2>1, Removed, Places
<1>3. b \notin In(local) /\ b \notin In(ordering)
  BY <1>1, <1>2 DEF Apart
<1>4. /\ local' \in Seq(Batches) /\ Once(local') /\ local' # <<>>
      /\ In(local') = In(local) \cup {b}
  <2>1. local \in Seq(Batches) /\ Once(local)
    BY <1>1 DEF TypeOK, NoneTwice
  <2>2. /\ <<b>> \o local \in Seq(Batches) /\ Once(<<b>> \o local) /\ <<b>> \o local # <<>>
        /\ In(<<b>> \o local) = In(local) \cup ({b} \ {Null})
    BY <1>2, <1>3, <2>1, Pushed
  <2> QED
    BY <1>2, <2>2, Zenon
<1>5. AtWork' = AtWork /\ In(toFilter') = In(toFilter) /\ In(toWrite') = In(toWrite) /\ In(ordering') = In(ordering)
  BY DEF AtWork, workerVars, outputVars
<1>6. NoneTwice'
  BY <1>1, <1>2, <1>4 DEF NoneTwice, OnceAtWork, workerVars, outputVars
<1>7. Apart'
  BY <1>1, <1>2, <1>4, <1>5 DEF Apart
<1>8. NoneLost'
  BY <1>1, <1>2, <1>4, <1>5 DEF NoneLost, Batches
<1> QED
  BY <1>2, <1>3, <1>4, <1>5, <1>6, <1>7, <1>8

LEMMA MoveReadIInv == ASSUME IInv, MoveRead PROVE IInv'
<1> DEFINE b == Head(toRead)
<1>1. /\ TypeOK /\ Hands /\ Numbers /\ local = <<>> /\ mpc = "none" /\ mpc' = "lines"
      /\ toRead # <<>> /\ toRead' = Tail(toRead) /\ local' = <<b>>
      /\ numbered' = [numbered EXCEPT ![b] = sequence] /\ sequence' = sequence + 1
      /\ DOMAIN lines' = DOMAIN lines
      /\ UNCHANGED <<input, sec, read, poisons, toFilter, toWrite, workerVars, outputVars, kept, out>>
  BY DEF IInv, MoveRead, Hands, NewInput
<1>2. local' = <<b>> \o local
  <2>1. <<b>> \o <<>> = <<b>>
    OBVIOUS
  <2> QED
    BY <1>1, <2>1
<1>3. /\ b \in Batches /\ local' \in Seq(Batches) /\ local' # <<>> /\ toRead' \in Seq(Batches)
      /\ NoneTwice' /\ Apart' /\ NoneLost' /\ b \notin In(ordering)
      /\ In(toFilter') = In(toFilter) /\ AtWork' = AtWork
      /\ In(toWrite') = In(toWrite) /\ In(ordering') = In(ordering)
  BY <1>1, <1>2, BackFacts
<1>4. TypeOK'
  BY <1>1, <1>3 DEF TypeOK, MainStates, workerVars, outputVars
<1>5. Hands'
  BY <1>1, <1>3 DEF Hands, Filling, FrontThere, workerVars, outputVars
<1>6. Given' \subseteq Given \cup {b}
  <2>1. Top' = b
    BY <1>1 DEF Top
  <2> QED
    BY <1>3, <2>1 DEF Given
<1>7. Numbers'
  BY <1>1, <1>3, <1>6, NumberGiven, Places DEF outputVars
<1> QED
  BY <1>3, <1>4, <1>5, <1>7 DEF IInv

LEMMA DrainIInv == ASSUME IInv, Drain PROVE IInv'
<1> DEFINE b == Head(toRead)
<1>1. /\ TypeOK /\ Hands /\ Numbers /\ mpc = "drain"
      /\ toRead # <<>> /\ toRead' = Tail(toRead) /\ local' = <<b>> \o local
      /\ UNCHANGED <<input, mpc, sec, read, sequence, poisons, toFilter, toWrite,
                     workerVars, outputVars, batchVars, out>>
  BY DEF IInv, Drain
<1>2. /\ local' \in Seq(Batches) /\ local' # <<>> /\ toRead' \in Seq(Batches)
      /\ NoneTwice' /\ Apart' /\ NoneLost'
      /\ In(toFilter') = In(toFilter) /\ AtWork' = AtWork
      /\ In(toWrite') = In(toWrite) /\ In(ordering') = In(ordering)
  BY <1>1, BackFacts
<1>3. TypeOK'
  BY <1>1, <1>2 DEF TypeOK, MainStates, workerVars, outputVars, batchVars
<1>4. Hands'
  BY <1>1, <1>2 DEF Hands, Filling, FrontThere, workerVars, outputVars
<1>5. Given' \subseteq Given
  BY <1>1, <1>2 DEF Given, Filling
<1>6. Numbers'
  BY <1>1, <1>5, NumbersKept DEF outputVars, batchVars
<1> QED
  BY <1>2, <1>3, <1>4, <1>6 DEF IInv

LEMMA EndLengthIInv == ASSUME IInv, EndLength PROVE IInv'
<1>1. /\ TypeOK /\ Hands /\ NoneTwice /\ Apart /\ NoneLost /\ Numbers
      /\ mpc = "drain" /\ mpc' = "section" /\ Len(local) = QueueSize
      /\ numbered' = [numbered EXCEPT ![Top] = sequence] /\ sequence' = sequence + 1
      /\ DOMAIN lines' = DOMAIN lines
      /\ UNCHANGED <<input, sec, read, local, poisons, toRead, toFilter, toWrite,
                     workerVars, outputVars, kept>>
  BY DEF IInv, EndLength, NewInput
<1>2. local # <<>> /\ Top \in Batches /\ Top \in In(local)
  <2>1. local \in Seq(Batches) /\ Once(local)
    BY <1>1 DEF TypeOK, NoneTwice
  <2>2. local # <<>>
    BY <1>1, <2>1, Places, EmptySeq
  <2> QED
    BY <2>1, <2>2, Places, Removed DEF Top
<1>3. TypeOK'
  BY <1>1, <1>2 DEF TypeOK, MainStates, workerVars, outputVars
<1>4. Hands'
  BY <1>1, <1>2 DEF Hands, Filling, FrontThere, workerVars, outputVars
<1>5. NoneTwice' /\ Apart' /\ NoneLost'
  BY <1>1 DEF NoneTwice, Apart, NoneLost, OnceAtWork, AtWork, workerVars, outputVars
<1>6. Given' \subseteq Given \cup {Top}
  BY <1>1 DEF Given, AtWork, Top, workerVars, outputVars
<1>7. Top \notin In(ordering)
  BY <1>1, <1>2 DEF Apart
<1>8. Numbers'
  BY <1>1, <1>2, <1>6, <1>7, NumberGiven, Places DEF outputVars
<1> QED
  BY <1>3, <1>4, <1>5, <1>8 DEF IInv

-----------------------------------------------------------------------------
(* Steps of the pools that move a batch. *)

LEMMA TakeBatchIInv ==
  ASSUME IInv, NEW w \in Workers, TakeBatch(w)
  PROVE  IInv'
<1> DEFINE b == Head(toFilter)
<1>1. /\ TypeOK /\ Hands /\ NoneTwice /\ Apart /\ NoneLost /\ Numbers
      /\ wpc[w] = "take" /\ toFilter # <<>> /\ toFilter' = Tail(toFilter)
      /\ wbatch' = [wbatch EXCEPT ![w] = b]
      /\ wpc' = [wpc EXCEPT ![w] = IF b = Null THEN "done" ELSE "filter"]
      /\ UNCHANGED <<mainVars, toRead, toWrite, outputVars, batchVars, out>>
  BY DEF IInv, TakeBatch
<1>2. /\ b \in Batches \cup {Null} /\ toFilter' \in Seq(Batches \cup {Null}) /\ Once(toFilter')
      /\ In(toFilter') = In(toFilter) \ {b} /\ (b # Null => b \in In(toFilter))
  <2>1. toFilter \in Seq(Batches \cup {Null}) /\ Once(toFilter)
    BY <1>1 DEF TypeOK, NoneTwice
  <2> QED
    BY <1>1, <2>1, Removed
<1>3. wbatch[w] = Null /\ b \notin AtWork
  <2>1. wbatch[w] = Null
    BY <1>1 DEF Hands
  <2> QED
    BY <1>1, <1>2, <2>1 DEF Apart, AtWork
<1>4. /\ \A v \in Workers : wbatch'[v] = IF v = w THEN b ELSE wbatch[v]
      /\ \A v \in Workers : wpc'[v] = IF v # w THEN wpc[v] ELSE IF b = Null THEN "done" ELSE "filter"
      /\ wbatch' \in [Workers -> Batches \cup {Null}]
      /\ wpc' \in [Workers -> {"take", "filter", "produce", "done"}]
  <2>1. wbatch \in [Workers -> Batches \cup {Null}]
    BY <1>1 DEF TypeOK
  <2>2. wpc \in [Workers -> {"take", "filter", "produce", "done"}]
    BY <1>1 DEF TypeOK
  <2> QED
    BY <1>1, <1>2, <2>1, <2>2
<1>5. AtWork' = AtWork \cup ({b} \ {Null}) /\ OnceAtWork'
  <2>1. ASSUME NEW x \in AtWork' PROVE x \in AtWork \cup ({b} \ {Null})
    BY <1>4 DEF AtWork
  <2>2. ASSUME NEW x \in AtWork PROVE x \in AtWork'
    BY <1>3, <1>4 DEF AtWork
  <2>3. b # Null => b \in AtWork'
    BY <1>4 DEF AtWork
  <2>4. OnceAtWork'
    <3> SUFFICES ASSUME NEW u \in Workers, NEW v \in Workers, wbatch'[u] = wbatch'[v], wbatch'[v] # Null
                 PROVE  u = v
      BY DEF OnceAtWork
    <3>1. OnceAtWork
      BY <1>1 DEF NoneTwice
    <3>2. \A x \in Workers : wbatch[x] = b => b = Null
      BY <1>3 DEF AtWork
    <3> QED
      BY <1>4, <3>1, <3>2 DEF OnceAtWork
  <2> QED
    BY <2>1, <2>2, <2>3, <2>4
<1>6. /\ In(local') = In(local) /\ In(toRead') = In(toRead) /\ In(toWrite') = In(toWrite)
      /\ In(ordering') = In(ordering) /\ Top' = Top /\ (Filling' <=> Filling)
  BY <1>1 DEF mainVars, outputVars, Top, Filling
<1>7. NoneTwice'
  BY <1>1, <1>2, <1>5 DEF NoneTwice, mainVars, outputVars
<1>8. Apart'
  BY <1>1, <1>2, <1>5, <1>6 DEF Apart
<1>9. NoneLost'
  <2>1. Batches = In(local) \cup In(toRead) \cup In(toFilter) \cup AtWork \cup In(toWrite) \cup In(ordering)
    BY <1>1 DEF NoneLost
  <2>2. In(toFilter) \cup AtWork = In(toFilter') \cup AtWork'
    BY <1>2, <1>5 DEF In
  <2> QED
    BY <1>6, <2>1, <2>2 DEF NoneLost, Batches
<1>10. TypeOK'
  BY <1>1, <1>2, <1>4 DEF TypeOK, mainVars, outputVars, batchVars
<1>11. Hands'
  BY <1>1, <1>4 DEF Hands, Filling, FrontThere, mainVars, outputVars
<1>12. Given' \subseteq Given
  BY <1>2, <1>5, <1>6 DEF Given
<1>13. Numbers'
  BY <1>1, <1>12, NumbersKept DEF mainVars, outputVars, batchVars
<1> QED
  BY <1>7, <1>8, <1>9, <1>10, <1>11, <1>13 DEF IInv

LEMMA PassOnIInv ==
  ASSUME IInv, NEW w \in Workers, PassOn(w)
  PROVE  IInv'
<1> DEFINE b == wbatch[w]
<1>1. /\ TypeOK /\ Hands /\ NoneTwice /\ Apart /\ NoneLost /\ Numbers
      /\ wpc[w] = "produce" /\ toWrite' = Append(toWrite, b)
      /\ wbatch' = [wbatch EXCEPT ![w] = Null] /\ wpc' = [wpc EXCEPT ![w] = "take"]
      /\ UNCHANGED <<mainVars, toRead, toFilter, outputVars, batchVars, out>>
  BY DEF IInv, PassOn
<1>2. b \in Batches /\ b # Null /\ b \in AtWork /\ b \notin In(toWrite)
  <2>1. b # Null /\ b \in AtWork
    BY <1>1 DEF Hands, AtWork
  <2> QED
    BY <1>1, <2>1, Places DEF Apart
<1>3. /\ toWrite' \in Seq(Batches \cup {Null}) /\ Once(toWrite') /\ In(toWrite') = In(toWrite) \cup {b}
  <2>1. toWrite \in Seq(Batches \cup {Null}) /\ Once(toWrite) /\ b \in Batches \cup {Null}
    BY <1>1, <1>2 DEF TypeOK, NoneTwice
  <2>2. /\ Append(toWrite, b) \in Seq(Batches \cup {Null}) /\ Once(Append(toWrite, b))
        /\ In(Append(toWrite, b)) = In(toWrite) \cup ({b} \ {Null})
    BY <1>2, <2>1, Appended
  <2> QED
    BY <1>1, <1>2, <2>2, Zenon
<1>4. /\ \A v \in Workers : wbatch'[v] = IF v = w THEN Null ELSE wbatch[v]
      /\ \A v \in Workers : wpc'[v] = IF v = w THEN "take" ELSE wpc[v]
      /\ wbatch' \in [Workers -> Batches \cup {Null}]
      /\ wpc' \in [Workers -> {"take", "filter", "produce", "done"}]
  <2>1. wbatch \in [Workers -> Batches \cup {Null}]
    BY <1>1 DEF TypeOK
  <2>2. wpc \in [Workers -> {"take", "filter", "produce", "done"}]
    BY <1>1 DEF TypeOK
  <2> QED
    BY <1>1, <2>1, <2>2
<1>5. AtWork' = AtWork \ {b} /\ OnceAtWork'
  <2>1. OnceAtWork
    BY <1>1 DEF NoneTwice
  <2>2. ASSUME NEW x \in AtWork' PROVE x \in AtWork /\ x # b
    BY <1>2, <1>4, <2>1 DEF AtWork, OnceAtWork
  <2>3. ASSUME NEW x \in AtWork, x # b PROVE x \in AtWork'
    BY <1>4, <2>3 DEF AtWork
  <2>4. OnceAtWork'
    BY <1>4, <2>1 DEF OnceAtWork
  <2> QED
    BY <2>2, <2>3, <2>4
<1>6. /\ In(local') = In(local) /\ In(toRead') = In(toRead) /\ In(toFilter') = In(toFilter)
      /\ In(ordering') = In(ordering) /\ Top' = Top /\ (Filling' <=> Filling)
  BY <1>1 DEF mainVars, outputVars, Top, Filling
<1>7. NoneTwice'
  BY <1>1, <1>3, <1>5 DEF NoneTwice, mainVars, outputVars
<1>8. Apart'
  BY <1>1, <1>2, <1>3, <1>5, <1>6 DEF Apart
<1>9. NoneLost'
  BY <1>1, <1>2, <1>3, <1>5, <1>6 DEF NoneLost, Batches
<1>10. TypeOK'
  BY <1>1, <1>3, <1>4 DEF TypeOK, mainVars, outputVars, batchVars
<1>11. Hands'
  BY <1>1, <1>4 DEF Hands, Filling, FrontThere, mainVars, outputVars
<1>12. Given' \subseteq Given
  BY <1>2, <1>3, <1>5, <1>6 DEF Given
<1>13. Numbers'
  BY <1>1, <1>12, NumbersKept DEF mainVars, outputVars, batchVars
<1> QED
  BY <1>7, <1>8, <1>9, <1>10, <1>11, <1>13 DEF IInv

\* The place of a batch that comes to the output worker is free.
LEMMA Free ==
  ASSUME IInv, NEW b \in In(toWrite), NEW pos, pos = numbered[b] - base + 1
  PROVE  /\ b \in Batches /\ pos \in Nat /\ pos >= 1 /\ numbered[b] = base + pos - 1
         /\ pos <= Len(ordering) => ordering[pos] = Null
<1>1. TypeOK /\ Apart /\ Numbers /\ b \in Batches /\ b \in Given /\ Len(ordering) \in Nat
  BY Places, LenProperties DEF IInv, Given, TypeOK
<1>2. numbered[b] \in Nat /\ base \in Nat /\ base <= numbered[b]
  BY <1>1 DEF TypeOK, Numbers
<1>3. pos \in Nat /\ pos >= 1 /\ numbered[b] = base + pos - 1
  BY <1>2
<1>4. ASSUME pos <= Len(ordering), ordering[pos] # Null PROVE FALSE
  <2>1. pos \in 1..Len(ordering)
    BY <1>1, <1>3, <1>4
  <2>2. ordering[pos] \in In(ordering) /\ numbered[ordering[pos]] = base + pos - 1
    BY <1>1, <1>4, <2>1 DEF In, Numbers
  <2>3. ordering[pos] \in Given
    BY <2>2 DEF Given
  <2>4. ordering[pos] = b
    BY <1>1, <1>3, <2>2, <2>3 DEF Numbers
  <2> QED
    BY <1>1, <2>2, <2>4 DEF Apart
<1> QED
  BY <1>1, <1>3, <1>4

LEMMA PlacedProperties ==
  ASSUME IInv, NEW b \in In(toWrite)
  PROVE  /\ Placed(b) \in Seq(Batches \cup {Null}) /\ Once(Placed(b))
         /\ In(Placed(b)) = In(ordering) \cup {b}
         /\ \A n \in 1..Len(Placed(b)) :
              Placed(b)[n] # Null => \/ Placed(b)[n] = b /\ numbered[b] = base + n - 1
                                     \/ n \in 1..Len(ordering) /\ Placed(b)[n] = ordering[n]
<1> DEFINE pos == numbered[b] - base + 1
           m == IF pos > Len(ordering) THEN pos ELSE Len(ordering)
           p == Placed(b)
<1>1. /\ ordering \in Seq(Batches \cup {Null}) /\ Once(ordering) /\ b # Null /\ b \notin In(ordering)
      /\ Len(ordering) \in Nat /\ \A n \in 1..Len(ordering) : ordering[n] \in Batches \cup {Null}
  <2>1. ordering \in Seq(Batches \cup {Null}) /\ Once(ordering) /\ b # Null /\ b \notin In(ordering)
    BY DEF IInv, TypeOK, NoneTwice, Apart, In
  <2> QED
    BY <2>1, ElementOfSeq, LenProperties
<1>2. /\ b \in Batches /\ pos \in Nat /\ pos >= 1 /\ numbered[b] = base + pos - 1
      /\ pos <= Len(ordering) => ordering[pos] = Null
  BY Free
<1>3. m \in Nat /\ pos \in 1..m /\ \A n \in 1..Len(ordering) : n \in 1..m
  <2> HIDE DEF pos
  <2> QED
    BY <1>1, <1>2
<1>4. p = [n \in 1..m |-> CASE n = pos -> b
                            [] n # pos /\ n <= Len(ordering) -> ordering[n]
                            [] OTHER -> Null]
  BY DEF Placed
<1> HIDE DEF pos, m, p
<1>5. /\ p \in [1..m -> Batches \cup {Null}] /\ p[pos] = b
      /\ \A n \in 1..m : n # pos => p[n] = IF n <= Len(ordering) THEN ordering[n] ELSE Null
  BY <1>1, <1>2, <1>3, <1>4
<1>6. p \in Seq(Batches \cup {Null}) /\ Len(p) = m
  <2>1. p \in Seq(Batches \cup {Null})
    BY <1>3, <1>5, IsASeq
  <2>2. DOMAIN p = 1..m /\ DOMAIN p = 1..Len(p) /\ Len(p) \in Nat
    BY <1>5, <2>1, LenProperties
  <2> QED
    BY <1>3, <2>1, <2>2
<1>7. \A n \in 1..Len(p) : p[n] # Null =>
        (n = pos /\ p[n] = b) \/ (n # pos /\ n \in 1..Len(ordering) /\ p[n] = ordering[n])
  BY <1>1, <1>5, <1>6
<1>8. Once(p)
  <2> SUFFICES ASSUME NEW i \in 1..Len(p), NEW j \in 1..Len(p), p[i] = p[j], p[i] # Null
               PROVE  i = j
    BY DEF Once
  <2>1. \A n \in 1..Len(ordering) : ordering[n] # b
    BY <1>1 DEF In
  <2> QED
    BY <1>1, <1>7, <2>1 DEF Once
<1>9. In(p) = In(ordering) \cup {b}
  <2>1. ASSUME NEW x \in In(p) PROVE x \in In(ordering) \cup {b}
    BY <1>7 DEF In
  <2>2. b \in In(p)
    BY <1>1, <1>3, <1>5, <1>6 DEF In
  <2>3. ASSUME NEW x \in In(ordering) PROVE x \in In(p)
    <3>1. PICK n \in 1..Len(ordering) : x = ordering[n] /\ x # Null
      BY DEF In
    <3>2. n # pos
      BY <1>1, <1>2, <3>1
    <3>3. n \in 1..Len(p) /\ p[n] = x
      BY <1>1, <1>3, <1>5, <1>6, <3>1, <3>2
    <3> QED
      BY <3>1, <3>3 DEF In
  <2> QED
    BY <2>1, <2>2, <2>3
<1> QED
  BY <1>2, <1>6, <1>7, <1>8, <1>9 DEF p

LEMMA TakeFilteredIInv == ASSUME IInv, TakeFiltered PROVE IInv'
<1> DEFINE b == Head(toWrite)
<1>1. /\ TypeOK /\ Hands /\ NoneTwice /\ Apart /\ NoneLost /\ Numbers
      /\ opc = "take" /\ toWrite # <<>> /\ toWrite' = Tail(toWrite)
      /\ b = Null => opc' = "done" /\ ordering' = ordering
      /\ b # Null => opc' = "flush" /\ ordering' = Placed(b)
      /\ UNCHANGED <<mainVars, toRead, toFilter, workerVars, base, batchVars, out>>
  BY DEF IInv, TakeFiltered
<1>2. /\ b \in Batches \cup {Null} /\ toWrite' \in Seq(Batches \cup {Null}) /\ Once(toWrite')
      /\ In(toWrite') = In(toWrite) \ {b} /\ (b # Null => b \in In(toWrite))
  <2>1. toWrite \in Seq(Batches \cup {Null}) /\ Once(toWrite)
    BY <1>1 DEF TypeOK, NoneTwice
  <2> QED
    BY <1>1, <2>1, Removed
<1>3. /\ ordering' \in Seq(Batches \cup {Null}) /\ Once(ordering')
      /\ In(ordering') = In(ordering) \cup ({b} \ {Null})
      /\ \A n \in 1..Len(ordering') :
           ordering'[n] # Null => \/ ordering'[n] = b /\ numbered[b] = base + n - 1
                                  \/ n \in 1..Len(ordering) /\ ordering'[n] = ordering[n]
  <2>1. CASE b = Null
    BY <1>1, <2>1 DEF TypeOK, NoneTwice
  <2>2. CASE b # Null
    <3>1. /\ Placed(b) \in Seq(Batches \cup {Null}) /\ Once(Placed(b))
          /\ In(Placed(b)) = In(ordering) \cup {b}
          /\ \A n \in 1..Len(Placed(b)) :
               Placed(b)[n] # Null => \/ Placed(b)[n] = b /\ numbered[b] = base + n - 1
                                      \/ n \in 1..Len(ordering) /\ Placed(b)[n] = ordering[n]
      BY <1>2, <2>2, PlacedProperties
    <3>2. ordering' = Placed(b)
      BY <1>1, <2>2
    <3> QED
      BY <2>2, <3>1, <3>2, Zenon
  <2> QED
    BY <2>1, <2>2
<1>4. /\ In(local') = In(local) /\ In(toRead') = In(toRead) /\ In(toFilter') = In(toFilter)
      /\ AtWork' = AtWork /\ Top' = Top /\ (Filling' <=> Filling)
  BY <1>1 DEF mainVars, workerVars, Top, Filling, AtWork
<1>5. NoneTwice'
  BY <1>1, <1>2, <1>3 DEF NoneTwice, OnceAtWork, mainVars, workerVars
<1>6. Apart'
  BY <1>1, <1>2, <1>3, <1>4 DEF Apart
<1>7. NoneLost'
  <2>1. Batches = In(local) \cup In(toRead) \cup In(toFilter) \cup AtWork \cup In(toWrite) \cup In(ordering)
    BY <1>1 DEF NoneLost
  <2>2. In(toWrite) \cup In(ordering) = In(toWrite') \cup In(ordering')
    BY <1>2, <1>3 DEF In
  <2> QED
    BY <1>4, <2>1, <2>2 DEF NoneLost, Batches
<1>8. TypeOK'
  BY <1>1, <1>2, <1>3 DEF TypeOK, mainVars, workerVars, batchVars
<1>9. Hands'
  BY <1>1 DEF Hands, Filling, FrontThere, mainVars, workerVars
<1>10. Given' \subseteq Given
  BY <1>2, <1>3, <1>4 DEF Given
<1>11. Numbers'
  <2>1. /\ base' = base /\ sequence' = sequence /\ numbered' = numbered
        /\ \A c \in Given' : base <= numbered[c] /\ numbered[c] < sequence
        /\ \A c, d \in Given' : numbered[c] = numbered[d] => c = d
    BY <1>1, <1>10 DEF Numbers, mainVars, batchVars
  <2>2. ASSUME NEW n \in 1..Len(ordering'), ordering'[n] # Null
        PROVE  numbered[ordering'[n]] = base + n - 1
    BY <1>1, <1>3, <2>2 DEF Numbers
  <2> QED
    BY <1>1, <2>1, <2>2 DEF Numbers
<1> QED
  BY <1>5, <1>6, <1>7, <1>8, <1>9, <1>11 DEF IInv

LEMMA ReturnFrontIInv == ASSUME IInv, ReturnFront PROVE IInv'
<1> DEFINE b == Head(ordering)
<1>1. /\ TypeOK /\ Hands /\ NoneTwice /\ Apart /\ NoneLost /\ Numbers
      /\ opc = "produce" /\ opc' = "flush" /\ ordering # <<>> /\ b # Null
      /\ toRead' = Append(toRead, b) /\ ordering' = Tail(ordering) /\ base' = base + 1
      /\ UNCHANGED <<mainVars, toFilter, toWrite, workerVars, batchVars, out>>
  BY DEF IInv, ReturnFront, Hands, FrontThere
<1>2. /\ ordering' \in Seq(Batches \cup {Null}) /\ Once(ordering')
      /\ In(ordering') = In(ordering) \ {b} /\ b \in In(ordering) /\ b \in Batches
      /\ Len(ordering) \in Nat /\ Len(ordering) >= 1 /\ Len(ordering') = Len(ordering) - 1
      /\ b = ordering[1] /\ \A n \in 1..Len(ordering') : ordering'[n] = ordering[n + 1]
  <2>1. ordering \in Seq(Batches \cup {Null}) /\ Once(ordering)
    BY <1>1 DEF TypeOK, NoneTwice
  <2>2. /\ Tail(ordering) \in Seq(Batches \cup {Null}) /\ Once(Tail(ordering))
        /\ In(Tail(ordering)) = In(ordering) \ {b} /\ b \in In(ordering)
    BY <1>1, <2>1, Removed
  <2>3. Len(ordering) \in Nat /\ Len(ordering) # 0
    BY <1>1, <2>1, EmptySeq, LenProperties
  <2>4. /\ Len(Tail(ordering)) = Len(ordering) - 1 /\ b = ordering[1]
        /\ \A n \in 1..Len(Tail(ordering)) : Tail(ordering)[n] = ordering[n + 1]
    BY <1>1, <2>1, <2>3, HeadTailProperties
  <2> QED
    BY <1>1, <2>2, <2>3, <2>4, Places
<1>3. toRead' \in Seq(Batches) /\ Once(toRead') /\ In(toRead') = In(toRead) \cup {b}
  <2>1. toRead \in Seq(Batches) /\ Once(toRead) /\ b \notin In(toRead)
    BY <1>1, <1>2 DEF TypeOK, NoneTwice, Apart
  <2>2. /\ Append(toRead, b) \in Seq(Batches) /\ Once(Append(toRead, b))
        /\ In(Append(toRead, b)) = In(toRead) \cup ({b} \ {Null})
    BY <1>2, <2>1, Appended
  <2> QED
    BY <1>1, <2>2, Zenon
<1>4. /\ In(local') = In(local) /\ In(toWrite') = In(toWrite) /\ In(toFilter') = In(toFilter)
      /\ AtWork' = AtWork /\ Top' = Top /\ (Filling' <=> Filling)
  BY <1>1 DEF mainVars, workerVars, Top, Filling, AtWork
<1>5. NoneTwice'
  BY <1>1, <1>2, <1>3 DEF NoneTwice, OnceAtWork, mainVars, workerVars
<1>6. Apart'
  BY <1>1, <1>2, <1>3, <1>4 DEF Apart
<1>7. NoneLost'
  <2>1. Batches = In(local) \cup In(toRead) \cup In(toFilter) \cup AtWork \cup In(toWrite) \cup In(ordering)
    BY <1>1 DEF NoneLost
  <2>2. In(toRead) \cup In(ordering) = In(toRead') \cup In(ordering')
    BY <1>2, <1>3
  <2> QED
    BY <1>4, <2>1, <2>2 DEF NoneLost, Batches
<1>8. TypeOK'
  BY <1>1, <1>2, <1>3, SMTT(30) DEF TypeOK, mainVars, workerVars, batchVars
<1>9. Hands'
  BY <1>1 DEF Hands, Filling, FrontThere, mainVars, workerVars
<1>10. b \notin Given' /\ Given' \subseteq Given /\ b \in Given
  <2>1. Filling => Top # b
    BY <1>1, <1>2, Places DEF Apart
  <2> QED
    BY <1>1, <1>2, <1>4, <2>1 DEF Given, Apart
<1>11. Numbers'
  <2>1. /\ sequence' = sequence /\ numbered' = numbered /\ numbered[b] = base
        /\ base \in Nat /\ sequence \in Nat
        /\ \A c \in Given : c \in Batches /\ numbered[c] \in Nat
    <3>1. 1 \in 1..Len(ordering)
      BY <1>2
    <3>2. numbered[b] = base + 1 - 1
      BY <1>1, <1>2, <3>1 DEF Numbers
    <3> QED
      BY <1>1, <3>2, Places DEF TypeOK, mainVars, batchVars
  <2>2. base' <= sequence'
    BY <1>1, <1>10, <2>1 DEF Numbers
  <2>3. \A c \in Given' : base' <= numbered[c] /\ numbered[c] < sequence
    <3> SUFFICES ASSUME NEW c \in Given' PROVE base + 1 <= numbered[c] /\ numbered[c] < sequence
      BY <1>1
    <3>1. c \in Given /\ c # b
      BY <1>10
    <3>2. base <= numbered[c] /\ numbered[c] < sequence /\ numbered[c] # base
      BY <1>1, <1>10, <2>1, <3>1 DEF Numbers
    <3> QED
      BY <2>1, <3>1, <3>2
  <2>4. \A c, d \in Given' : numbered[c] = numbered[d] => c = d
    BY <1>1, <1>10 DEF Numbers
  <2>5. ASSUME NEW n \in 1..Len(ordering'), ordering'[n] # Null
        PROVE  numbered[ordering'[n]] = base' + n - 1
    <3>1. n + 1 \in 1..Len(ordering) /\ ordering'[n] = ordering[n + 1]
      BY <1>2
    <3>2. numbered[ordering[n + 1]] = base + (n + 1) - 1
      BY <1>1, <2>5, <3>1 DEF Numbers
    <3> QED
      BY <1>1, <2>1, <3>1, <3>2
  <2> QED
    BY <2>1, <2>2, <2>3, <2>4, <2>5 DEF Numbers
<1> QED
  BY <1>5, <1>6, <1>7, <1>8, <1>9, <1>11 DEF IInv

-----------------------------------------------------------------------------
LEMMA InitIInv == Init => IInv
<1> SUFFICES ASSUME Init PROVE IInv
  OBVIOUS
<1>1. QueueSize \in Nat \ {0} /\ Null = 0 /\ Batches = 1..QueueSize
  BY FilterAssumption DEF Null, Batches
<1>2. /\ local \in Seq(Batches) /\ Len(local) = QueueSize
      /\ \A n \in 1..QueueSize : local[n] = QueueSize + 1 - n
  <2>1. local \in [1..QueueSize -> Batches] /\ \A n \in 1..QueueSize : local[n] = QueueSize + 1 - n
    BY <1>1 DEF Init
  <2>2. local \in Seq(Batches)
    BY <1>1, <2>1, IsASeq
  <2>3. DOMAIN local = 1..QueueSize /\ DOMAIN local = 1..Len(local) /\ Len(local) \in Nat
    BY <2>1, <2>2, LenProperties
  <2> QED
    BY <1>1, <2>1, <2>2, <2>3
<1>3. /\ In(toRead) = {} /\ In(toFilter) = {} /\ In(toWrite) = {} /\ In(ordering) = {}
      /\ Once(toRead) /\ Once(toFilter) /\ Once(toWrite) /\ Once(ordering)
      /\ Len(ordering) = 0
  <2>1. Len(<<>>) = 0 /\ 1..0 = {}
    BY EmptySeq
  <2>2. toRead = <<>> /\ toFilter = <<>> /\ toWrite = <<>> /\ ordering = <<>>
    BY DEF Init
  <2> QED
    BY <2>1, <2>2 DEF In, Once
<1>4. AtWork = {} /\ OnceAtWork
  BY DEF Init, AtWork, OnceAtWork
<1>5. In(local) = Batches /\ Once(local)
  <2>1. ASSUME NEW b \in Batches PROVE b \in In(local)
    <3>1. QueueSize + 1 - b \in 1..QueueSize /\ QueueSize + 1 - (QueueSize + 1 - b) = b /\ b # 0
      BY <1>1
    <3> QED
      BY <1>1, <1>2, <3>1 DEF In
  <2>2. In(local) \subseteq Batches
    BY <1>2, ElementOfSeq DEF In
  <2>3. Once(local)
    BY <1>1, <1>2 DEF Once
  <2> QED
    BY <2>1, <2>2, <2>3
<1>6. local # <<>> /\ Top = QueueSize /\ Top \in Batches
  <2>1. local # <<>>
    BY <1>1, <1>2, EmptySeq
  <2> QED
    BY <1>1, <1>2, <2>1 DEF Top
<1>7. TypeOK
  <2>1. wpc \in [Workers -> {"take", "filter", "produce", "done"}]
    BY DEF Init
  <2>2. wbatch \in [Workers -> Batches \cup {Null}]
    BY DEF Init
  <2>3. /\ toRead \in Seq(Batches) /\ toFilter \in Seq(Batches \cup {Null})
        /\ toWrite \in Seq(Batches \cup {Null}) /\ ordering \in Seq(Batches \cup {Null})
    BY EmptySeq DEF Init
  <2>4. /\ numbered \in [Batches -> Nat] /\ DOMAIN lines = Batches /\ DOMAIN kept = Batches
    BY DEF Init
  <2>5. sec \in 0..Len(input.sizes) /\ input \in Inputs
    BY FilterAssumption, LenProperties DEF Init
  <2>6. poisons \in 0..Cardinality(Workers)
    BY FilterAssumption, FS_CardinalityType DEF Init
  <2>7. mpc \in MainStates /\ opc \in {"take", "flush", "produce", "done"}
    BY DEF Init, MainStates
  <2>8. read \in Nat /\ sequence \in Nat /\ base \in Nat
    BY DEF Init
  <2> QED
    BY <1>2, <2>1, <2>2, <2>3, <2>4, <2>5, <2>6, <2>7, <2>8 DEF TypeOK
<1>8. Hands
  BY <1>6 DEF Hands, Init
<1>9. Apart /\ NoneLost /\ NoneTwice
  BY <1>3, <1>4, <1>5 DEF Apart, NoneLost, NoneTwice
<1>10. Numbers
  <2>1. Given = {Top}
    BY <1>3, <1>4 DEF Given, Filling, Init
  <2>2. base = 0 /\ sequence = 1 /\ numbered[Top] = 0
    BY <1>6 DEF Init
  <2>3. \A n \in 1..Len(ordering) : FALSE
    BY <1>3
  <2> QED
    BY <2>1, <2>2, <2>3 DEF Numbers
<1> QED
  BY <1>7, <1>8, <1>9, <1>10 DEF IInv

LEMMA NextIInv == IInv /\ [Next]_vars => IInv'
<1> SUFFICES ASSUME IInv, [Next]_vars PROVE IInv'
  OBVIOUS
<1>1. CASE MainStep
  BY <1>1, MainStaysIInv, SendIInv, MoveReadIInv, DrainIInv, EndLengthIInv DEF MainStep
<1>2. CASE OutputStep
  BY <1>2, PoolStaysIInv, TakeFilteredIInv, ReturnFrontIInv DEF OutputStep
<1>3. ASSUME NEW w \in Workers, WorkerStep(w) PROVE IInv'
  BY <1>3, PoolStaysIInv, TakeBatchIInv, PassOnIInv DEF WorkerStep
<1>4. CASE Ended \/ UNCHANGED vars
  BY <1>4, PoolStaysIInv DEF Ended
<1> QED
  BY <1>1, <1>2, <1>3, <1>4 DEF Next

THEOREM Invariance == Spec => []IInv
BY InitIInv, NextIInv, PTL DEF Spec

\* The types of the filter's state, for any number of threads and batches.
THEOREM TypeCorrect == Spec => []TypeOK
<1>1. IInv => TypeOK
  BY DEF IInv
<1> QED
  BY <1>1, Invariance, PTL

\* Every batch is in exactly one place, whatever the sections of the file.
THEOREM BatchesInOneHand == Spec => []OneHolder
<1>1. ASSUME IInv PROVE OneHolder
  <2>0. NoneTwice /\ Apart /\ NoneLost /\ TypeOK
    BY <1>1 DEF IInv
  <2> SUFFICES ASSUME NEW b \in Batches PROVE \E h \in Holders(b) : Holders(b) = {h}
    BY DEF OneHolder
  <2>1. b # Null
    BY <1>1, Places
  <2>2. /\ DOMAIN local = 1..Len(local) /\ DOMAIN toRead = 1..Len(toRead)
        /\ DOMAIN toFilter = 1..Len(toFilter) /\ DOMAIN toWrite = 1..Len(toWrite)
        /\ DOMAIN ordering = 1..Len(ordering) /\ DOMAIN wbatch = Workers
    BY <2>0, LenProperties DEF TypeOK
  <2> DEFINE Alone(name, s) == \E h : At(name, s, b) = {h}
  <2>3. ASSUME NEW s, NEW name, DOMAIN s = 1..Len(s), Once(s)
        PROVE  /\ b \in In(s) => Alone(name, s)
               /\ b \notin In(s) => At(name, s, b) = {}
    <3>1. ASSUME b \in In(s) PROVE Alone(name, s)
      <4>1. PICK n \in 1..Len(s) : s[n] = b
        BY <3>1 DEF In
      <4>2. \A m \in 1..Len(s) : s[m] = b => m = n
        BY <2>1, <2>3, <4>1 DEF Once
      <4>3. At(name, s, b) = {<<name, n>>}
        BY <2>3, <4>1, <4>2 DEF At
      <4> QED
        BY <4>3
    <3>2. ASSUME b \notin In(s) PROVE At(name, s, b) = {}
      BY <2>1, <2>3, <3>2 DEF In, At
    <3> QED
      BY <3>1, <3>2
  <2>4. /\ b \in AtWork => Alone("worker", wbatch)
        /\ b \notin AtWork => At("worker", wbatch, b) = {}
    <3>1. ASSUME b \in AtWork PROVE Alone("worker", wbatch)
      <4>1. PICK n \in Workers : wbatch[n] = b
        BY <3>1 DEF AtWork
      <4>2. \A m \in Workers : wbatch[m] = b => m = n
        BY <2>0, <2>1, <4>1 DEF NoneTwice, OnceAtWork
      <4>3. At("worker", wbatch, b) = {<<"worker", n>>}
        BY <2>2, <4>1, <4>2 DEF At
      <4> QED
        BY <4>3
    <3>2. ASSUME b \notin AtWork PROVE At("worker", wbatch, b) = {}
      BY <2>1, <2>2, <3>2 DEF AtWork, At
    <3> QED
      BY <3>1, <3>2
  <2>5. /\ b \in In(local) => Alone("local", local)
        /\ b \notin In(local) => At("local", local, b) = {}
        /\ b \in In(toRead) => Alone("toRead", toRead)
        /\ b \notin In(toRead) => At("toRead", toRead, b) = {}
        /\ b \in In(toFilter) => Alone("toFilter", toFilter)
        /\ b \notin In(toFilter) => At("toFilter", toFilter, b) = {}
        /\ b \in In(toWrite) => Alone("toWrite", toWrite)
        /\ b \notin In(toWrite) => At("toWrite", toWrite, b) = {}
        /\ b \in In(ordering) => Alone("ordering", ordering)
        /\ b \notin In(ordering) => At("ordering", ordering, b) = {}
    BY <2>0, <2>2, <2>3 DEF NoneTwice
  <2>6. \E h : Holders(b) = {h}
    <3> HIDE DEF Alone
    <3>1. \/ b \in In(local) \/ b \in In(toRead) \/ b \in In(toFilter) \/ b \in AtWork
          \/ b \in In(toWrite) \/ b \in In(ordering)
      BY <2>0 DEF NoneLost
    <3>2. CASE b \in In(local)
      <4>1. Holders(b) = At("local", local, b)
        BY <2>0, <2>4, <2>5, <3>2 DEF Holders, Apart
      <4> QED
        BY <2>5, <3>2, <4>1 DEF Alone
    <3>3. CASE b \in In(toRead)
      <4>1. Holders(b) = At("toRead", toRead, b)
        BY <2>0, <2>4, <2>5, <3>3 DEF Holders, Apart
      <4> QED
        BY <2>5, <3>3, <4>1 DEF Alone
    <3>4. CASE b \in In(toFilter)
      <4>1. Holders(b) = At("toFilter", toFilter, b)
        BY <2>0, <2>4, <2>5, <3>4 DEF Holders, Apart
      <4> QED
        BY <2>5, <3>4, <4>1 DEF Alone
    <3>5. CASE b \in AtWork
      <4>1. Holders(b) = At("worker", wbatch, b)
        BY <2>0, <2>4, <2>5, <3>5 DEF Holders, Apart
      <4> QED
        BY <2>4, <3>5, <4>1 DEF Alone
    <3>6. CASE b \in In(toWrite)
      <4>1. Holders(b) = At("toWrite", toWrite, b)
        BY <2>0, <2>4, <2>5, <3>6 DEF Holders, Apart
      <4> QED
        BY <2>5, <3>6, <4>1 DEF Alone
    <3>7. CASE b \in In(ordering)
      <4>1. Holders(b) = At("ordering", ordering, b)
        BY <2>0, <2>4, <2>5, <3>7 DEF Holders, Apart
      <4> QED
        BY <2>5, <3>7, <4>1 DEF Alone
    <3> QED
      BY <3>1, <3>2, <3>3, <3>4, <3>5, <3>6, <3>7
  <2> QED
    BY <2>6
<1> QED
  BY <1>1, Invariance, PTL

\* The assertion of the output worker holds, and no batch waits in the place of
\* another.
THEOREM OrderingHasPlace == Spec => []PlaceIsFree
<1>1. ASSUME IInv PROVE PlaceIsFree
  <2> SUFFICES ASSUME toWrite # <<>>, Head(toWrite) # Null,
                      NEW pos, pos = numbered[Head(toWrite)] - base + 1
               PROVE  pos >= 1 /\ (pos <= Len(ordering) => ordering[pos] = Null)
    BY DEF PlaceIsFree
  <2>1. Head(toWrite) \in In(toWrite)
    <3>1. toWrite \in Seq(Batches \cup {Null}) /\ Once(toWrite)
      BY <1>1 DEF IInv, TypeOK, NoneTwice
    <3> QED
      BY <3>1, Removed
  <2> QED
    BY <1>1, <2>1, Free
<1> QED
  BY <1>1, Invariance, PTL

-----------------------------------------------------------------------------
(* Lines in the order of the file.                                          *)

Rows == Nat \X Nat
Elements(t) == {t[n] : n \in 1..Len(t)}
InOrder(t) == \A m, n \in 1..Len(t) : m < n => Sequential!Precedes(t[m], t[n])
AllBefore(t, u) == \A x \in Elements(t), y \in Elements(u) : Sequential!Precedes(x, y)

LEMMA OrderOfRows ==
  ASSUME NEW x \in Rows, NEW y \in Rows
  PROVE  /\ ~Sequential!Precedes(x, x)
         /\ Sequential!Precedes(x, y) => ~Sequential!Precedes(y, x) /\ x # y
         /\ Sequential!Precedes(x, y) \/ Sequential!Precedes(y, x) \/ x = y
         /\ \A z \in Rows :
              Sequential!Precedes(x, y) /\ Sequential!Precedes(y, z) => Sequential!Precedes(x, z)
<1>1. \A v \in Rows : v[1] \in Nat /\ v[2] \in Nat /\ v = <<v[1], v[2]>>
  BY DEF Rows
<1>2. ~Sequential!Precedes(x, x)
  BY <1>1 DEF Sequential!Precedes
<1>3. Sequential!Precedes(x, y) => ~Sequential!Precedes(y, x)
  BY <1>1 DEF Sequential!Precedes
<1>4. Sequential!Precedes(x, y) \/ Sequential!Precedes(y, x) \/ (x[1] = y[1] /\ x[2] = y[2])
  BY <1>1 DEF Sequential!Precedes
<1>5. x[1] = y[1] /\ x[2] = y[2] => x = y
  BY <1>1, Zenon
<1>6. ASSUME NEW z \in Rows, Sequential!Precedes(x, y), Sequential!Precedes(y, z)
      PROVE  Sequential!Precedes(x, z)
  BY <1>1, <1>6 DEF Sequential!Precedes
<1> QED
  BY <1>2, <1>3, <1>4, <1>5, <1>6

LEMMA ElementsOf ==
  ASSUME NEW S, NEW t \in Seq(S)
  PROVE  /\ Elements(t) \subseteq S
         /\ \A n \in 1..Len(t) : t[n] \in Elements(t)
         /\ Elements(t) = {} <=> t = <<>>
<1>1. Elements(t) \subseteq S
  BY ElementOfSeq DEF Elements
<1>2. \A n \in 1..Len(t) : t[n] \in Elements(t)
  BY DEF Elements
<1>3. ASSUME t # <<>> PROVE Elements(t) # {}
  <2>1. 1 \in 1..Len(t)
    BY <1>3, EmptySeq
  <2> QED
    BY <1>2, <2>1
<1>4. ASSUME t = <<>> PROVE Elements(t) = {}
  BY <1>4 DEF Elements
<1> QED
  BY <1>1, <1>2, <1>3, <1>4

LEMMA EmptyInOrder == Elements(<<>>) = {} /\ InOrder(<<>>)
BY DEF Elements, InOrder

\* One text after the other.
LEMMA Joined ==
  ASSUME NEW t \in Seq(Rows), NEW u \in Seq(Rows), InOrder(t), InOrder(u), AllBefore(t, u)
  PROVE  /\ t \o u \in Seq(Rows) /\ InOrder(t \o u)
         /\ Elements(t \o u) = Elements(t) \cup Elements(u)
<1> DEFINE v == t \o u
<1>1. /\ v \in Seq(Rows) /\ Len(t) \in Nat /\ Len(u) \in Nat /\ Len(v) = Len(t) + Len(u)
      /\ \A n \in 1..Len(v) : v[n] = IF n <= Len(t) THEN t[n] ELSE u[n - Len(t)]
  BY ConcatProperties, LenProperties
<1> HIDE DEF v
<1>2. \A n \in 1..Len(v) : \/ n \in 1..Len(t) /\ v[n] = t[n]
                           \/ n > Len(t) /\ n - Len(t) \in 1..Len(u) /\ v[n] = u[n - Len(t)]
  BY <1>1
<1>3. \A n \in 1..Len(t) : n \in 1..Len(v) /\ v[n] = t[n]
  BY <1>1
<1>4. \A n \in 1..Len(u) : n + Len(t) \in 1..Len(v) /\ v[n + Len(t)] = u[n]
  BY <1>1
<1>5. InOrder(v)
  <2> SUFFICES ASSUME NEW m \in 1..Len(v), NEW n \in 1..Len(v), m < n
               PROVE  Sequential!Precedes(v[m], v[n])
    BY DEF InOrder
  <2>1. CASE m \in 1..Len(t) /\ v[m] = t[m] /\ n \in 1..Len(t) /\ v[n] = t[n]
    BY <2>1 DEF InOrder
  <2>2. CASE /\ m \in 1..Len(t) /\ v[m] = t[m]
             /\ n > Len(t) /\ n - Len(t) \in 1..Len(u) /\ v[n] = u[n - Len(t)]
    BY <2>2 DEF AllBefore, Elements
  <2>3. CASE /\ m > Len(t) /\ m - Len(t) \in 1..Len(u) /\ v[m] = u[m - Len(t)]
             /\ n > Len(t) /\ n - Len(t) \in 1..Len(u) /\ v[n] = u[n - Len(t)]
    <3>1. m - Len(t) < n - Len(t)
      BY <1>1
    <3> QED
      BY <2>3, <3>1 DEF InOrder
  <2>4. ~(m > Len(t) /\ n \in 1..Len(t))
    BY <1>1
  <2> QED
    BY <1>2, <2>1, <2>2, <2>3, <2>4
<1>6. ASSUME NEW x \in Elements(v) PROVE x \in Elements(t) \cup Elements(u)
  BY <1>2 DEF Elements
<1>7. ASSUME NEW x \in Elements(t) PROVE x \in Elements(v)
  BY <1>3 DEF Elements
<1>8. ASSUME NEW x \in Elements(u) PROVE x \in Elements(v)
  BY <1>4 DEF Elements
<1> QED
  BY <1>1, <1>5, <1>6, <1>7, <1>8 DEF v

LEMMA LineAdded ==
  ASSUME NEW t \in Seq(Rows), NEW x \in Rows, InOrder(t),
         \A y \in Elements(t) : Sequential!Precedes(y, x)
  PROVE  /\ Append(t, x) \in Seq(Rows) /\ InOrder(Append(t, x))
         /\ Elements(Append(t, x)) = Elements(t) \cup {x}
         /\ Append(t, x) = t \o <<x>>
<1>1. <<x>> \in Seq(Rows) /\ Len(<<x>>) = 1 /\ <<x>>[1] = x
  OBVIOUS
<1>2. Elements(<<x>>) = {x} /\ InOrder(<<x>>)
  BY <1>1 DEF Elements, InOrder
<1>3. AllBefore(t, <<x>>)
  BY <1>2 DEF AllBefore
<1>4. Append(t, x) = t \o <<x>>
  OBVIOUS
<1> QED
  BY <1>1, <1>2, <1>3, <1>4, Joined

LEMMA LeastNumber ==
  ASSUME NEW T, T \subseteq Nat, T # {}
  PROVE  \E m \in Nat : m \in T /\ \A k \in T : m <= k
<1> DEFINE R == {p \in Nat \X Nat : p[1] < p[2]}
<1>1. IsWellFoundedOn(R, Nat)
  BY NatLessThanWellFounded DEF OpToRel
<1>2. PICK m \in T : \A k \in T : ~(<<k, m>> \in R)
  <2> HIDE DEF R
  <2> QED
    BY <1>1, WFMin
<1>3. ASSUME NEW k \in T PROVE m <= k
  <2>1. m \in Nat /\ k \in Nat /\ <<k, m>> \notin R
    BY <1>2
  <2> QED
    BY <2>1
<1> QED
  BY <1>2, <1>3

-----------------------------------------------------------------------------
(* What passes of a batch.  The recursive function of Passing is the one    *)
(* that meets its equation, since up to any place there is one that does.   *)

\* f is what has passed after each of the first k n-grams of s.
PassStep(s, f, n) ==
  IF n = 0 THEN <<>> ELSE IF Passes(s[n]) THEN Append(f[n - 1], s[n]) ELSE f[n - 1]
PassesUpTo(s, f, k) == f = [n \in 0..k |-> PassStep(s, f, n)]

LEMMA PassesUpToExists ==
  ASSUME NEW s, NEW l \in Nat
  PROVE  \E f : PassesUpTo(s, f, l)
<1> DEFINE Bad == {k \in Nat : ~\E f : PassesUpTo(s, f, k)}
<1>1. SUFFICES ASSUME Bad # {} PROVE FALSE
  OBVIOUS
<1>2. PICK m \in Nat : m \in Bad /\ \A k \in Bad : m <= k
  <2>1. Bad \subseteq Nat
    OBVIOUS
  <2> HIDE DEF Bad
  <2> QED
    BY <1>1, <2>1, LeastNumber
<1>3. CASE m = 0
  <2> DEFINE f == [n \in 0..0 |-> <<>>]
  <2>1. f = [n \in 0..0 |-> PassStep(s, f, n)]
    <3>1. \A n \in 0..0 : f[n] = <<>> /\ PassStep(s, f, n) = <<>>
      BY DEF PassStep
    <3>2. f = [n \in 0..0 |-> f[n]]
      OBVIOUS
    <3> HIDE DEF f
    <3> QED
      BY <3>1, <3>2
  <2> QED
    BY <1>2, <1>3, <2>1 DEF PassesUpTo
<1>4. CASE m # 0
  <2>1. m - 1 \in Nat /\ m - 1 \notin Bad
    <3>1. m - 1 \in Nat /\ ~(m <= m - 1)
      BY <1>4
    <3> HIDE DEF Bad
    <3> QED
      BY <1>2, <3>1
  <2>2. PICK g : PassesUpTo(s, g, m - 1)
    BY <2>1
  <2> DEFINE f == [n \in 0..m |-> PassStep(s, g, n)]
  <2>3. ASSUME NEW n \in 0..(m - 1) PROVE f[n] = g[n]
    <3>1. n \in 0..m
      OBVIOUS
    <3>2. g[n] = PassStep(s, g, n)
      BY <2>2 DEF PassesUpTo
    <3> QED
      BY <3>1, <3>2
  <2>4. ASSUME NEW n \in 0..m PROVE f[n] = PassStep(s, f, n)
    <3>1. f[n] = PassStep(s, g, n)
      OBVIOUS
    <3>2. n # 0 => f[n - 1] = g[n - 1]
      <4>1. n # 0 => n - 1 \in 0..(m - 1)
        OBVIOUS
      <4> HIDE DEF f
      <4> QED
        BY <2>3, <4>1
    <3> HIDE DEF f
    <3> QED
      BY <3>1, <3>2 DEF PassStep
  <2>5. f = [n \in 0..m |-> PassStep(s, f, n)]
    <3>1. f = [n \in 0..m |-> f[n]]
      OBVIOUS
    <3> HIDE DEF f
    <3> QED
      BY <2>4, <3>1
  <2> QED
    BY <1>2, <2>5 DEF PassesUpTo
<1> QED
  BY <1>3, <1>4

LEMMA PassingIsFunction ==
  ASSUME NEW S, NEW s \in Seq(S)
  PROVE  \E f : PassesUpTo(s, f, Len(s)) /\ Passing(s) = f[Len(s)]
<1> DEFINE f == CHOOSE g : PassesUpTo(s, g, Len(s))
<1>1. Len(s) \in Nat
  BY LenProperties
<1>2. PassesUpTo(s, f, Len(s))
  BY <1>1, PassesUpToExists
<1>3. Passing(s) = f[Len(s)]
  BY DEF Passing, PassesUpTo, PassStep
<1> QED
  BY <1>2, <1>3

\* What passes of a text in order is in order, and nothing else is added.
LEMMA PassingKeepsOrder ==
  ASSUME NEW s \in Seq(Rows), InOrder(s)
  PROVE  /\ Passing(s) \in Seq(Rows) /\ InOrder(Passing(s))
         /\ Elements(Passing(s)) = {x \in Elements(s) : Passes(x)}
<1>1. PICK f : PassesUpTo(s, f, Len(s)) /\ Passing(s) = f[Len(s)]
  BY PassingIsFunction
<1>2. Len(s) \in Nat /\ \A n \in 1..Len(s) : s[n] \in Rows
  BY LenProperties, ElementOfSeq
<1>3. /\ f[0] = <<>>
      /\ \A n \in 1..Len(s) : f[n] = IF Passes(s[n]) THEN Append(f[n - 1], s[n]) ELSE f[n - 1]
  <2>1. \A n \in 0..Len(s) : f[n] = PassStep(s, f, n)
    BY <1>1 DEF PassesUpTo
  <2>2. 0 \in 0..Len(s) /\ \A n \in 1..Len(s) : n \in 0..Len(s) /\ n # 0
    BY <1>2
  <2> QED
    BY <2>1, <2>2 DEF PassStep
<1> DEFINE Ones(k) == {x \in Rows : \E n \in 1..k : s[n] = x /\ Passes(x)}
           Good(k) == f[k] \in Seq(Rows) /\ InOrder(f[k]) /\ Elements(f[k]) = Ones(k)
           Bad == {k \in 0..Len(s) : ~Good(k)}
<1>4. Bad = {}
  <2>1. SUFFICES ASSUME Bad # {} PROVE FALSE
    OBVIOUS
  <2>2. PICK m \in Nat : m \in Bad /\ \A k \in Bad : m <= k
    <3>1. Bad \subseteq Nat
      BY <1>2
    <3> HIDE DEF Bad
    <3> QED
      BY <2>1, <3>1, LeastNumber
  <2>3. m \in 0..Len(s) /\ ~Good(m)
    BY <2>2
  <2>4. CASE m = 0
    <3>1. Ones(0) = {}
      OBVIOUS
    <3>2. f[0] \in Seq(Rows) /\ InOrder(f[0]) /\ Elements(f[0]) = {}
      BY <1>3, EmptyInOrder, EmptySeq
    <3> QED
      BY <2>3, <2>4, <3>1, <3>2
  <2>5. CASE m # 0
    <3>1. m - 1 \in 0..Len(s) /\ m \in 1..Len(s) /\ m - 1 \notin Bad
      <4>1. m - 1 \in 0..Len(s) /\ m \in 1..Len(s) /\ ~(m <= m - 1)
        BY <1>2, <2>3, <2>5
      <4> HIDE DEF Bad
      <4> QED
        BY <2>2, <4>1
    <3>2. f[m - 1] \in Seq(Rows) /\ InOrder(f[m - 1]) /\ Elements(f[m - 1]) = Ones(m - 1)
      BY <3>1
    <3>3. Ones(m) = Ones(m - 1) \cup (IF Passes(s[m]) THEN {s[m]} ELSE {})
      <4>1. \A n \in 1..m : n \in 1..(m - 1) \/ n = m
        OBVIOUS
      <4>2. \A n \in 1..(m - 1) : n \in 1..m
        OBVIOUS
      <4>3. m \in 1..m /\ s[m] \in Rows
        BY <1>2, <2>5, <3>1
      <4>4. ASSUME NEW x \in Ones(m) PROVE x \in Ones(m - 1) \cup (IF Passes(s[m]) THEN {s[m]} ELSE {})
        BY <4>1
      <4>5. ASSUME NEW x \in Ones(m - 1) PROVE x \in Ones(m)
        BY <4>2
      <4>6. Passes(s[m]) => s[m] \in Ones(m)
        BY <4>3
      <4> HIDE DEF Ones
      <4> QED
        BY <4>4, <4>5, <4>6
    <3>4. CASE ~Passes(s[m])
      <4>1. f[m] = f[m - 1] /\ Ones(m) = Ones(m - 1)
        <5> HIDE DEF Ones
        <5> QED
          BY <1>3, <3>1, <3>3, <3>4
      <4> HIDE DEF Ones
      <4> QED
        BY <2>3, <3>2, <4>1
    <3>5. CASE Passes(s[m])
      <4>1. f[m] = Append(f[m - 1], s[m]) /\ Ones(m) = Ones(m - 1) \cup {s[m]}
        <5> HIDE DEF Ones
        <5> QED
          BY <1>3, <3>1, <3>3, <3>5
      <4>2. \A x \in Ones(m - 1) : Sequential!Precedes(x, s[m])
        <5>1. \A n \in 1..(m - 1) : n \in 1..Len(s) /\ n < m
          BY <1>2, <3>1
        <5> QED
          BY <3>1, <5>1 DEF InOrder
      <4>3. s[m] \in Rows
        BY <1>2, <3>1
      <4> HIDE DEF Ones
      <4>4. /\ Append(f[m - 1], s[m]) \in Seq(Rows) /\ InOrder(Append(f[m - 1], s[m]))
            /\ Elements(Append(f[m - 1], s[m])) = Elements(f[m - 1]) \cup {s[m]}
        BY <3>2, <4>2, <4>3, LineAdded
      <4> QED
        BY <2>3, <3>2, <4>1, <4>4
    <3> QED
      BY <3>4, <3>5
  <2> QED
    BY <2>4, <2>5
<1>5. Good(Len(s))
  <2>1. Len(s) \in 0..Len(s)
    BY <1>2
  <2> HIDE DEF Good
  <2> QED
    BY <1>4, <2>1
<1>6. Ones(Len(s)) = {x \in Elements(s) : Passes(x)}
  BY <1>2 DEF Elements
<1> QED
  BY <1>1, <1>5, <1>6

-----------------------------------------------------------------------------
(* The beginnings of the filtered file: what is in order and leaves no line *)
(* out.                                                                     *)

\* The module instantiated and this one count alike.
LEMMA SameNumber == ASSUME NEW S PROVE Sequential!Cardinality(S) = Cardinality(S)
BY DEF Sequential!Cardinality, Cardinality

LEMMA LinesOfFile ==
  ASSUME NEW file \in Inputs
  PROVE  /\ Sequential!Lines(file) \subseteq Rows /\ IsFiniteSet(Sequential!Lines(file))
         /\ Len(file.sizes) \in Nat /\ file.arpa \in BOOLEAN
         /\ \A s \in 1..Len(file.sizes) : file.sizes[s] \in Nat
         /\ \A x \in Rows :
              x \in Sequential!Lines(file) <=>
                /\ x[1] \in 1..Len(file.sizes) /\ x[2] \in 0..(file.sizes[x[1]] + 1)
                /\ IF x[2] \in 1..file.sizes[x[1]] THEN Passes(x) ELSE file.arpa
<1>1. /\ Len(file.sizes) \in Nat /\ file.arpa \in BOOLEAN
      /\ \A s \in 1..Len(file.sizes) : file.sizes[s] \in Nat
  BY FilterAssumption, LenProperties, ElementOfSeq
<1>2. ASSUME NEW s \in 1..Len(file.sizes)
      PROVE  /\ IsFiniteSet(Sequential!Section(file, s))
             /\ \A x \in Sequential!Section(file, s) : x \in Rows /\ x[1] = s
             /\ \A x \in Rows : x \in Sequential!Section(file, s) <=>
                  /\ x[1] = s /\ x[2] \in 0..(file.sizes[s] + 1)
                  /\ IF x[2] \in 1..file.sizes[s] THEN Passes(x) ELSE file.arpa
  <2> DEFINE W == Sequential!Written(file, s)
             f == [n \in W |-> <<s, n>>]
  <2>1. file.sizes[s] \in Nat /\ s \in Nat
    BY <1>1
  <2>2. /\ W \subseteq 0..(file.sizes[s] + 1)
        /\ \A n \in 0..(file.sizes[s] + 1) :
             n \in W <=> IF n \in 1..file.sizes[s] THEN Passes(<<s, n>>) ELSE file.arpa
    BY DEF Sequential!Written
  <2>3. IsFiniteSet(W)
    <3>1. ASSUME NEW n \in Nat PROVE IsFiniteSet(0..(n + 1))
      BY <3>1, FS_Interval
    <3>2. IsFiniteSet(0..(file.sizes[s] + 1))
      BY <2>1, <3>1
    <3> HIDE DEF W
    <3> QED
      BY <2>2, <3>2, FS_Subset
  <2>4. Sequential!Section(file, s) = {<<s, n>> : n \in W}
    BY DEF Sequential!Section
  <2> HIDE DEF W
  <2>5. f \in Surjection(W, Sequential!Section(file, s))
    BY <2>4 DEF Surjection
  <2>6. IsFiniteSet(Sequential!Section(file, s))
    BY <2>3, <2>5, FS_Surjection
  <2>7. \A x \in Sequential!Section(file, s) : x \in Rows /\ x[1] = s /\ x[2] \in W
    BY <2>1, <2>2, <2>4 DEF Rows
  <2>8. ASSUME NEW x \in Rows
        PROVE  x \in Sequential!Section(file, s) <=>
                  /\ x[1] = s /\ x[2] \in 0..(file.sizes[s] + 1)
                  /\ IF x[2] \in 1..file.sizes[s] THEN Passes(x) ELSE file.arpa
    <3>1. x = <<x[1], x[2]>>
      BY DEF Rows
    <3>2. x[1] = s => x = <<s, x[2]>>
      BY <3>1
    <3>3. x \in Sequential!Section(file, s) <=> x[1] = s /\ x[2] \in W
      BY <2>4, <2>7, <3>2
    <3> QED
      BY <2>2, <3>2, <3>3
  <2> QED
    BY <2>6, <2>7, <2>8
<1> DEFINE Sections == {Sequential!Section(file, s) : s \in 1..Len(file.sizes)}
<1>3. Sequential!Lines(file) = UNION Sections
  BY DEF Sequential!Lines
<1>4. IsFiniteSet(Sections)
  <2> DEFINE f == [s \in 1..Len(file.sizes) |-> Sequential!Section(file, s)]
  <2>1. f \in Surjection(1..Len(file.sizes), Sections)
    BY DEF Surjection
  <2>2. IsFiniteSet(1..Len(file.sizes))
    BY <1>1, FS_Interval
  <2> HIDE DEF f, Sections
  <2> QED
    BY <2>1, <2>2, FS_Surjection
<1>5. IsFiniteSet(Sequential!Lines(file))
  <2>1. \A T \in Sections : IsFiniteSet(T)
    BY <1>2
  <2> HIDE DEF Sections
  <2> QED
    BY <1>3, <1>4, <2>1, FS_UNION
<1>6. \A x : x \in Sequential!Lines(file) <=>
               \E s \in 1..Len(file.sizes) : x \in Sequential!Section(file, s)
  BY <1>3
<1> QED
  BY <1>1, <1>2, <1>5, <1>6

LEMMA BeginningOfFile ==
  ASSUME NEW file \in Inputs, NEW t \in Seq(Rows), InOrder(t),
         Elements(t) \subseteq Sequential!Lines(file),
         \A y \in Elements(t), x \in Sequential!Lines(file) :
           Sequential!Precedes(x, y) => x \in Elements(t)
  PROVE  /\ Cardinality(Sequential!Lines(file)) \in Nat
         /\ Len(t) <= Cardinality(Sequential!Lines(file))
         /\ \A k \in 1..Len(t) : Sequential!LineAt(file, k) = t[k]
<1> DEFINE L == Sequential!Lines(file)
           B(x) == Sequential!LinesBefore(file, x)
<1>1. L \subseteq Rows /\ IsFiniteSet(L)
  BY LinesOfFile
<1>2. \A x \in L : B(x) = {y \in L : Sequential!Precedes(y, x)}
  BY DEF Sequential!LinesBefore
<1>3. Len(t) \in Nat /\ \A n \in 1..Len(t) : t[n] \in Rows /\ t[n] \in Elements(t) /\ t[n] \in L
  BY LenProperties, ElementOfSeq, ElementsOf
<1>4. \A m, n \in 1..Len(t) : t[m] = t[n] => m = n
  <2> SUFFICES ASSUME NEW m \in 1..Len(t), NEW n \in 1..Len(t), t[m] = t[n], m < n PROVE FALSE
    BY <1>3
  <2>1. Sequential!Precedes(t[m], t[n])
    BY DEF InOrder
  <2> QED
    BY <1>3, <2>1, OrderOfRows
<1>5. ASSUME NEW k \in 0..Len(t)
      PROVE  LET F == {t[n] : n \in 1..k} IN IsFiniteSet(F) /\ Cardinality(F) = k
  <2> DEFINE F == {t[n] : n \in 1..k}
             f == [n \in 1..k |-> t[n]]
  <2>1. k \in Nat /\ \A n \in 1..k : n \in 1..Len(t)
    BY <1>3
  <2>2. f \in Surjection(1..k, F)
    BY DEF Surjection
  <2>3. f \in Injection(1..k, F)
    BY <1>4, <2>1 DEF Injection, IsInjective
  <2>4. IsFiniteSet(1..k) /\ Cardinality(1..k) = k
    BY <2>1, FS_Interval
  <2> HIDE DEF f, F
  <2>5. IsFiniteSet(F) /\ Cardinality(F) = Cardinality(1..k)
    BY <2>2, <2>3, <2>4, FS_Surjection
  <2> QED
    BY <2>4, <2>5 DEF F
<1>6. ASSUME NEW k \in 1..Len(t)
      PROVE  B(t[k]) = {t[n] : n \in 1..(k - 1)}
  <2>1. t[k] \in L /\ t[k] \in Elements(t) /\ k \in Nat
    BY <1>3
  <2>2. ASSUME NEW n \in 1..(k - 1) PROVE t[n] \in B(t[k])
    <3>1. n \in 1..Len(t) /\ n < k
      BY <1>3
    <3>2. Sequential!Precedes(t[n], t[k])
      BY <3>1 DEF InOrder
    <3> QED
      BY <1>2, <1>3, <2>1, <3>1, <3>2
  <2>3. ASSUME NEW x \in B(t[k]) PROVE \E n \in 1..(k - 1) : x = t[n]
    <3>1. x \in L /\ Sequential!Precedes(x, t[k])
      BY <1>2, <2>1
    <3>2. PICK n \in 1..Len(t) : x = t[n]
      BY <2>1, <3>1 DEF Elements
    <3>3. ~(k < n)
      <4>1. ASSUME k < n PROVE FALSE
        <5>1. Sequential!Precedes(t[k], t[n])
          BY <4>1 DEF InOrder
        <5> QED
          BY <1>3, <3>1, <3>2, <5>1, OrderOfRows
      <4> QED
        BY <4>1
    <3>4. k # n
      BY <1>3, <3>1, <3>2, OrderOfRows
    <3>5. n \in 1..(k - 1)
      BY <1>3, <3>3, <3>4
    <3> QED
      BY <3>2, <3>5
  <2> HIDE DEF B
  <2> QED
    BY <2>2, <2>3
<1>7. ASSUME NEW x \in L, NEW y \in L, Cardinality(B(x)) = Cardinality(B(y)) PROVE x = y
  <2>1. ASSUME NEW v \in L, NEW w \in L, Cardinality(B(v)) = Cardinality(B(w)),
               Sequential!Precedes(v, w)
        PROVE  FALSE
    <3>1. B(v) \subseteq B(w) /\ IsFiniteSet(B(w))
      <4>1. B(v) \subseteq B(w)
        BY <1>1, <1>2, <2>1, OrderOfRows
      <4>2. B(w) \subseteq L
        BY <1>2
      <4> HIDE DEF B, L
      <4> QED
        BY <1>1, <4>1, <4>2, FS_Subset
    <3>2. v \in B(w) /\ v \notin B(v)
      BY <1>1, <1>2, <2>1, OrderOfRows
    <3>3. B(v) = B(w)
      <4> HIDE DEF B, L
      <4> QED
        BY <2>1, <3>1, FS_Subset
    <3> QED
      BY <3>2, <3>3
  <2> HIDE DEF B
  <2> QED
    BY <1>1, <1>7, <2>1, OrderOfRows
<1>8. ASSUME NEW k \in 1..Len(t) PROVE Sequential!LineAt(file, k) = t[k]
  <2>1. t[k] \in L /\ Cardinality(B(t[k])) = k - 1
    <3>1. k - 1 \in 0..Len(t)
      BY <1>3
    <3>2. Cardinality({t[n] : n \in 1..(k - 1)}) = k - 1
      BY <1>5, <3>1
    <3> HIDE DEF B
    <3> QED
      BY <1>3, <1>6, <3>2
  <2>2. Sequential!LineAt(file, k) = CHOOSE x \in L : Cardinality(B(x)) = k - 1
    BY SameNumber, Zenon DEF Sequential!LineAt
  <2> HIDE DEF L, B
  <2>3. /\ (CHOOSE x \in L : Cardinality(B(x)) = k - 1) \in L
        /\ Cardinality(B(CHOOSE x \in L : Cardinality(B(x)) = k - 1)) = k - 1
    BY <2>1
  <2> QED
    BY <1>7, <2>1, <2>2, <2>3
<1>9. Cardinality(L) \in Nat /\ Len(t) <= Cardinality(L)
  <2>1. Len(t) \in 0..Len(t)
    BY <1>3
  <2>2. Cardinality({t[n] : n \in 1..Len(t)}) = Len(t)
    BY <1>5, <2>1
  <2>3. {t[n] : n \in 1..Len(t)} \subseteq L
    BY <1>3
  <2> HIDE DEF L
  <2> QED
    BY <1>1, <2>2, <2>3, FS_Subset, FS_CardinalityType
<1> QED
  BY <1>8, <1>9

\* What is in order, from the beginning on, and longer than before, is written
\* by a step of the specification.
LEMMA LongerBeginning ==
  ASSUME input \in Inputs, UNCHANGED input, out' # out,
         NEW more \in Seq(Rows), out \in Seq(Rows), out' = out \o more,
         InOrder(out'), Elements(out') \subseteq Sequential!Lines(input),
         \A y \in Elements(out'), x \in Sequential!Lines(input) :
           Sequential!Precedes(x, y) => x \in Elements(out')
  PROVE  Sequential!WriteSome
<1> DEFINE c == Cardinality(Sequential!Lines(input))
           all == Sequential!Filtered(input)
<1>1. /\ Len(out) \in Nat /\ Len(more) \in Nat /\ out' \in Seq(Rows)
      /\ Len(out') = Len(out) + Len(more)
  BY ConcatProperties, LenProperties
<1>2. c \in Nat /\ Len(out') <= c /\ \A k \in 1..Len(out') : Sequential!LineAt(input, k) = out'[k]
  BY <1>1, BeginningOfFile
<1>3. Len(more) # 0
  <2>1. ASSUME more = <<>> PROVE FALSE
    BY <2>1, ConcatEmptySeq
  <2> QED
    BY <2>1, EmptySeq
<1>4. all = [k \in 1..c |-> Sequential!LineAt(input, k)]
  BY SameNumber, Zenon DEF Sequential!Filtered
<1> HIDE DEF all, c
<1>5. Len(all) = c
  BY <1>2, <1>4
<1>6. Len(out') \in (Len(out) + 1)..Len(all)
  BY <1>1, <1>2, <1>3, <1>5
<1>7. out' = SubSeq(all, 1, Len(out'))
  <2>1. \A i \in 1..Len(out') : all[i] = out'[i] /\ all[i] \in Rows
    <3>1. \A i \in 1..Len(out') : i \in 1..c /\ out'[i] \in Rows
      BY <1>1, <1>2, ElementOfSeq
    <3> QED
      BY <1>2, <1>4, <3>1
  <2>2. /\ SubSeq(all, 1, Len(out')) \in Seq(Rows)
        /\ Len(SubSeq(all, 1, Len(out'))) = Len(out')
        /\ \A i \in 1..Len(out') : SubSeq(all, 1, Len(out'))[i] = all[i]
    BY <1>1, <2>1, SubSeqProperties, Z3
  <2> QED
    BY <1>1, <2>1, <2>2, SeqEqual
<1> QED
  BY <1>6, <1>7 DEF Sequential!WriteSome, all

-----------------------------------------------------------------------------
(* The invariant of the texts: of what has been read, every line that is to *)
(* be written is written or in a batch, and the batches, by their numbers,  *)
(* go on where the output ends.                                             *)

\* The batches the filter has dealt with: what is left of them is in kept.
ThroughFilter ==
  {wbatch[w] : w \in {v \in Workers : wpc[v] = "produce"}} \cup In(toWrite) \cup In(ordering)
Text(b) == IF b \in ThroughFilter THEN kept[b] ELSE lines[b]

\* Line x of the output is due: main has read the input as far.
InSection == mpc \in {"lines", "full", "last", "none", "drain"}
Passed(x) == x[1] < sec \/ (x[1] = sec /\ (InSection => x[2] <= read))
IsNGram(x) == x[1] \in 1..Len(input.sizes) /\ x[2] \in 1..input.sizes[x[1]]

TextType ==
  out \in Seq(Rows) /\ lines \in [Batches -> Seq(Rows)] /\ kept \in [Batches -> Seq(Rows)]

Reading ==
  /\ InSection => sec >= 1 /\ read <= input.sizes[sec]
  /\ mpc \in {"last", "drain"} => input.arpa /\ read = input.sizes[sec]
  /\ Filling => numbered[Top] = sequence - 1
  /\ mpc = "section" /\ input.arpa => In(local) = Batches /\ lines[Top] = <<>>

Buffers ==
  /\ \A b \in Batches \ ThroughFilter : kept[b] = <<>>
  /\ opc = "produce" => kept[Head(ordering)] = <<>>

Ordered ==
  /\ InOrder(out)
  /\ \A b \in Given : InOrder(Text(b)) /\ AllBefore(out, Text(b))
  /\ \A b, c \in Given : numbered[b] < numbered[c] => AllBefore(Text(b), Text(c))

FromInput ==
  /\ \A x \in Elements(out) : x \in Sequential!Lines(input) /\ Passed(x)
  /\ \A b \in Given : \A x \in Elements(Text(b)) : IsNGram(x) /\ Passed(x)
  /\ \A b \in ThroughFilter : \A x \in Elements(kept[b]) : Passes(x)

Complete ==
  \A x \in Sequential!Lines(input) :
    Passed(x) => x \in Elements(out) \/ \E b \in Given : x \in Elements(Text(b))

TextInv == TextType /\ Reading /\ Buffers /\ Ordered /\ FromInput /\ Complete

-----------------------------------------------------------------------------
(* Where the batches are that have a text.                                  *)

LEMMA TextPlaces ==
  ASSUME IInv, TextType
  PROVE  /\ ThroughFilter \subseteq Given
         /\ ThroughFilter \cap (In(local) \cup In(toRead) \cup In(toFilter)) = {}
         /\ \A w \in Workers : wpc[w] \in {"take", "filter"} => wbatch[w] \notin ThroughFilter
         /\ \A b \in Batches : Text(b) \in Seq(Rows) /\ Elements(Text(b)) \subseteq Rows
         /\ Elements(out) \subseteq Rows
<1>1. /\ TypeOK /\ Hands /\ Apart /\ NoneTwice /\ Given \subseteq Batches
  BY Places DEF IInv
<1>2. ASSUME NEW w \in Workers, wpc[w] = "produce" PROVE wbatch[w] \in AtWork
  BY <1>1, <1>2 DEF Hands, AtWork
<1>3. ThroughFilter \subseteq AtWork \cup In(toWrite) \cup In(ordering)
  BY <1>2 DEF ThroughFilter
<1>4. ThroughFilter \subseteq Given
  BY <1>3 DEF Given
<1>5. ThroughFilter \cap (In(local) \cup In(toRead) \cup In(toFilter)) = {}
  BY <1>1, <1>3 DEF Apart
<1>6. ASSUME NEW w \in Workers, wpc[w] \in {"take", "filter"}, wbatch[w] \in ThroughFilter PROVE FALSE
  <2>1. wbatch[w] \in Batches
    BY <1>1, <1>4, <1>6
  <2>2. wbatch[w] # Null
    BY <2>1, Places
  <2>3. wbatch[w] \in AtWork
    BY <2>2 DEF AtWork
  <2>4. PICK v \in Workers : wpc[v] = "produce" /\ wbatch[v] = wbatch[w]
    BY <1>1, <1>6, <2>3 DEF Apart, ThroughFilter
  <2>5. v = w
    BY <1>1, <2>2, <2>4 DEF NoneTwice, OnceAtWork
  <2> QED
    BY <1>6, <2>4, <2>5
<1>7. \A b \in Batches : Text(b) \in Seq(Rows)
  BY DEF Text, TextType
<1>8. \A t \in Seq(Rows) : Elements(t) \subseteq Rows
  BY ElementsOf
<1> QED
  BY <1>4, <1>5, <1>6, <1>7, <1>8 DEF TextType

LEMMA EmptyText ==
  /\ Elements(<<>>) = {} /\ InOrder(<<>>)
  /\ \A t : AllBefore(t, <<>>) /\ AllBefore(<<>>, t)
BY EmptyInOrder DEF AllBefore

\* A step that moves batches without changing what is in them, and may start a
\* batch with nothing in it.
LEMMA TextsStay ==
  ASSUME IInv, TextType, Ordered, FromInput, Complete, UNCHANGED <<input, out>>,
         \A b \in Given' : \/ b \in Given /\ Text(b)' = Text(b) /\ numbered'[b] = numbered[b]
                           \/ Text(b)' = <<>>,
         \A b \in Given : Text(b) = <<>> \/ (b \in Given' /\ Text(b)' = Text(b)),
         \A x \in Rows : Passed(x) => Passed(x)',
         \A x \in Sequential!Lines(input) : Passed(x)' => Passed(x),
         \A b \in ThroughFilter' : b \in ThroughFilter /\ kept'[b] = kept[b]
  PROVE  Ordered' /\ FromInput' /\ Complete'
<1> DEFINE Same(b) == b \in Given /\ Text(b)' = Text(b) /\ numbered'[b] = numbered[b]
           Empty(b) == Text(b)' = <<>>
<1>0. /\ \A b \in Given' : Same(b) \/ Empty(b)
      /\ \A b : Same(b) => b \in Given /\ Text(b)' = Text(b) /\ numbered'[b] = numbered[b]
      /\ \A b : Empty(b) => Text(b)' = <<>>
  OBVIOUS
<1> HIDE DEF Same, Empty
<1>1. Ordered'
  <2>1. InOrder(out')
    BY DEF Ordered
  <2>2. ASSUME NEW b \in Given' PROVE InOrder(Text(b)') /\ AllBefore(out', Text(b)')
    <3>1. CASE Same(b)
      BY <1>0, <3>1 DEF Ordered
    <3>2. CASE Empty(b)
      BY <1>0, <3>2, EmptyText
    <3> QED
      BY <1>0, <3>1, <3>2
  <2>3. ASSUME NEW b \in Given', NEW c \in Given', numbered'[b] < numbered'[c]
        PROVE  AllBefore(Text(b)', Text(c)')
    <3>1. CASE Empty(b) \/ Empty(c)
      BY <1>0, <3>1, EmptyText
    <3>2. CASE Same(b) /\ Same(c)
      BY <1>0, <2>3, <3>2 DEF Ordered
    <3> QED
      BY <1>0, <3>1, <3>2
  <2> QED
    BY <2>1, <2>2, <2>3 DEF Ordered, InOrder, AllBefore, Elements
<1>2. FromInput'
  <2>1. \A x \in Elements(out') : x \in Sequential!Lines(input') /\ Passed(x)'
    <3>1. Elements(out) \subseteq Rows
      BY TextPlaces
    <3> QED
      BY <3>1 DEF FromInput
  <2>2. ASSUME NEW b \in Given', NEW x \in Elements(Text(b)') PROVE IsNGram(x)' /\ Passed(x)'
    <3>1. CASE Same(b)
      <4>1. IsNGram(x) /\ Passed(x)
        BY <1>0, <3>1, <2>2 DEF FromInput
      <4>2. x \in Rows
        <5>1. b \in Batches /\ x \in Elements(Text(b))
          BY <1>0, <2>2, <3>1, Places
        <5> QED
          BY <5>1, TextPlaces
      <4> QED
        BY <4>1, <4>2 DEF IsNGram
    <3>2. CASE Empty(b)
      BY <1>0, <3>2, EmptyText
    <3> QED
      BY <1>0, <3>1, <3>2
  <2>3. ASSUME NEW b \in ThroughFilter', NEW x \in Elements(kept'[b]) PROVE Passes(x)
    BY DEF FromInput
  <2> QED
    BY <2>1, <2>2, <2>3 DEF FromInput
<1>3. Complete'
  <2> SUFFICES ASSUME NEW x \in Sequential!Lines(input), Passed(x)', x \notin Elements(out)
               PROVE  \E b \in Given' : x \in Elements(Text(b)')
    BY DEF Complete
  <2>1. PICK b \in Given : x \in Elements(Text(b))
    BY DEF Complete
  <2>2. Text(b) # <<>>
    BY <2>1, EmptyText
  <2> QED
    BY <2>1, <2>2
<1> QED
  BY <1>1, <1>2, <1>3

-----------------------------------------------------------------------------
(* Steps that move batches.                                                 *)

LEMMA BatchesMove ==
  ASSUME IInv, TextInv, Reading', UNCHANGED <<input, out, numbered, lines, kept>>,
         opc' = "produce" => opc = "produce" /\ UNCHANGED ordering,
         Given' \subseteq Given, \A b \in Given \ Given' : Text(b) = <<>>,
         ThroughFilter' \subseteq ThroughFilter,
         \A b \in ThroughFilter \ ThroughFilter' : b \notin Given' /\ kept[b] = <<>>,
         \A x \in Rows : Passed(x) => Passed(x)',
         \A x \in Sequential!Lines(input) : Passed(x)' => Passed(x)
  PROVE  TextInv'
<1>1. /\ TextType /\ Buffers /\ Ordered /\ FromInput /\ Complete
      /\ Given \subseteq Batches
  BY Places DEF TextInv
<1>2. TextType' /\ Buffers'
  BY <1>1 DEF TextType, Buffers
<1>3. \A b \in Given' : Text(b)' = Text(b)
  BY DEF Text
<1>4. Ordered' /\ FromInput' /\ Complete'
  BY <1>1, <1>3, TextsStay
<1> QED
  BY <1>2, <1>4 DEF TextInv

LEMMA BatchStarts ==
  ASSUME IInv, TextInv, Reading', NEW c \in Batches, c \notin Given, NewInput(c),
         UNCHANGED <<input, out, kept, sec, read, opc, ordering>>, InSection, InSection',
         Given' = Given \cup {c}, ThroughFilter' = ThroughFilter
  PROVE  TextInv'
<1>1. /\ TextType /\ Buffers /\ Ordered /\ FromInput /\ Complete /\ TypeOK
      /\ Given \subseteq Batches /\ ThroughFilter \subseteq Given
  BY Places, TextPlaces DEF TextInv, IInv
<1>2. /\ lines' \in [Batches -> Seq(Rows)] /\ lines'[c] = <<>> /\ numbered' \in [Batches -> Nat]
      /\ \A b \in Batches : b # c => lines'[b] = lines[b] /\ numbered'[b] = numbered[b]
  <2>1. lines \in [Batches -> Seq(Rows)] /\ numbered \in [Batches -> Nat] /\ sequence \in Nat
    BY <1>1 DEF TextType, TypeOK
  <2>2. lines' = [lines EXCEPT ![c] = <<>>] /\ numbered' = [numbered EXCEPT ![c] = sequence]
    BY DEF NewInput
  <2>3. <<>> \in Seq(Rows)
    BY EmptySeq
  <2> QED
    BY <2>1, <2>2, <2>3
<1>3. TextType' /\ Buffers'
  BY <1>1, <1>2 DEF TextType, Buffers
<1>4. c \notin ThroughFilter /\ \A b \in Given : b # c
  BY <1>1
<1>5. Text(c)' = <<>>
  BY <1>2, <1>4 DEF Text
<1>6. \A b \in Given : Text(b)' = Text(b) /\ numbered'[b] = numbered[b]
  BY <1>1, <1>2, <1>4 DEF Text
<1>7. \A x : Passed(x)' <=> Passed(x)
  BY DEF Passed
<1>8. Ordered' /\ FromInput' /\ Complete'
  BY <1>1, <1>5, <1>6, <1>7, TextsStay
<1> QED
  BY <1>3, <1>8 DEF TextInv

\* Steps that leave all batches where they are.
LEMMA NothingMoves ==
  ASSUME IInv, TextInv, Reading', UNCHANGED <<input, out, numbered, lines, kept>>,
         UNCHANGED <<local, wbatch, wpc, ordering>>,
         \/ UNCHANGED <<toFilter, toWrite>>
         \/ toFilter' = Append(toFilter, Null) /\ UNCHANGED toWrite
         \/ toWrite' = Append(toWrite, Null) /\ UNCHANGED toFilter,
         opc' = "produce" => opc = "produce",
         Filling' => Filling, Filling => Filling' \/ lines[Top] = <<>>,
         \A x \in Rows : Passed(x) => Passed(x)',
         \A x \in Sequential!Lines(input) : Passed(x)' => Passed(x)
  PROVE  TextInv'
<1>1. TypeOK /\ NoneTwice /\ TextType /\ (Filling => Top \in Batches /\ Top \in In(local))
  BY Places DEF IInv, TextInv
<1>2. In(toFilter') = In(toFilter) /\ In(toWrite') = In(toWrite)
  <2>1. Null \notin In(toFilter) /\ Null \notin In(toWrite) /\ Null \in Batches \cup {Null}
    BY DEF In
  <2>2. /\ toFilter \in Seq(Batches \cup {Null}) /\ toWrite \in Seq(Batches \cup {Null})
        /\ Once(toFilter) /\ Once(toWrite)
    BY <1>1 DEF TypeOK, NoneTwice
  <2>3. /\ In(Append(toFilter, Null)) = In(toFilter) \cup ({Null} \ {Null})
        /\ In(Append(toWrite, Null)) = In(toWrite) \cup ({Null} \ {Null})
    BY <2>1, <2>2, Appended
  <2>4. {Null} \ {Null} = {}
    OBVIOUS
  <2>5. In(Append(toFilter, Null)) = In(toFilter) /\ In(Append(toWrite, Null)) = In(toWrite)
    BY <2>3, <2>4
  <2>6. /\ toFilter' = toFilter \/ toFilter' = Append(toFilter, Null)
        /\ toWrite' = toWrite \/ toWrite' = Append(toWrite, Null)
    OBVIOUS
  <2> QED
    BY <2>5, <2>6, Zenon
<1>3. In(ordering') = In(ordering) /\ AtWork' = AtWork /\ Top' = Top
  BY DEF AtWork, Top
<1>4. ThroughFilter' = ThroughFilter
  BY <1>2, <1>3 DEF ThroughFilter
<1>5. Given' \subseteq Given
  BY <1>2, <1>3 DEF Given
<1>6. ASSUME NEW b \in Given \ Given' PROVE Text(b) = <<>>
  <2>1. b = Top /\ Filling /\ ~Filling'
    BY <1>2, <1>3, <1>6 DEF Given
  <2>2. Top \notin ThroughFilter
    BY <1>1, <2>1, TextPlaces
  <2> QED
    BY <2>1, <2>2 DEF Text
<1> QED
  BY <1>4, <1>5, <1>6, BatchesMove

LEMMA MainKeepsTexts ==
  ASSUME IInv, IInv', TextInv,
         EndOfSection \/ Finish \/ PoisonFilter \/ JoinFilter \/ PoisonOutput \/ JoinOutput
  PROVE  TextInv'
<1>1. TextType /\ Reading /\ TypeOK /\ TypeOK' /\ Hands
  BY DEF IInv, TextInv
<1>2. CASE EndOfSection
  <2>1. /\ mpc = "lines" /\ read = input.sizes[sec]
        /\ mpc' = CASE ~input.arpa -> "section"
                    [] input.arpa /\ lines[Top] = <<>> -> "drain"
                    [] OTHER -> "last"
        /\ UNCHANGED <<input, sec, read, local, sequence, toFilter, toWrite, wpc, wbatch, opc,
                       ordering, base, numbered, lines, kept, out>>
    BY <1>2 DEF EndOfSection, workerVars, outputVars, batchVars
  <2>2. /\ input \in Inputs /\ sec \in 1..Len(input.sizes) /\ input.sizes[sec] \in Nat
        /\ input.arpa \in BOOLEAN
    <3>1. input \in Inputs /\ sec \in 0..Len(input.sizes) /\ sec >= 1
      BY <1>1, <2>1 DEF TypeOK, Reading, InSection
    <3>2. Len(input.sizes) \in Nat /\ \A s \in 1..Len(input.sizes) : input.sizes[s] \in Nat
      BY <3>1, LinesOfFile
    <3>3. sec \in 1..Len(input.sizes)
      BY <3>1, <3>2
    <3> QED
      BY <3>1, <3>2, <3>3, LinesOfFile
  <2>3. \/ mpc' = "section" /\ ~input.arpa
        \/ mpc' = "drain" /\ input.arpa /\ lines[Top] = <<>>
        \/ mpc' = "last" /\ input.arpa
    BY <2>1, <2>2
  <2>4. Reading'
    BY <1>1, <2>1, <2>2, <2>3 DEF Reading, InSection, Filling, Top
  <2>5. \A x \in Rows : Passed(x) => Passed(x)'
    BY <2>1, <2>3 DEF Passed, InSection
  <2>6. ASSUME NEW x \in Sequential!Lines(input), Passed(x)' PROVE Passed(x)
    <3>1. /\ x \in Rows /\ x[2] \in 0..(input.sizes[x[1]] + 1)
          /\ IF x[2] \in 1..input.sizes[x[1]] THEN Passes(x) ELSE input.arpa
      BY <2>2, LinesOfFile
    <3>2. CASE mpc' = "section"
      <4>1. x[1] = sec => x[2] <= read
        BY <2>1, <2>2, <2>3, <3>1, <3>2
      <4> QED
        BY <2>1, <2>6, <4>1 DEF Passed
    <3>3. CASE mpc' # "section"
      BY <2>1, <2>3, <2>6, <3>3 DEF Passed, InSection
    <3> QED
      BY <3>2, <3>3
  <2>7. Filling /\ (Filling' \/ lines[Top] = <<>>)
    BY <2>1, <2>3 DEF Filling
  <2> QED
    BY <2>1, <2>4, <2>5, <2>6, <2>7, NothingMoves
<1>3. CASE Finish \/ PoisonFilter \/ JoinFilter \/ PoisonOutput \/ JoinOutput
  <2>1. /\ mpc \in {"section", "close", "join", "closeOutput", "joinOutput"}
        /\ mpc' \in {"close", "join", "closeOutput", "joinOutput", "end"}
        /\ UNCHANGED <<input, sec, read, local, sequence, wpc, wbatch, opc,
                       ordering, base, numbered, lines, kept, out>>
        /\ \/ UNCHANGED <<toFilter, toWrite>>
           \/ toFilter' = Append(toFilter, Null) /\ UNCHANGED toWrite
           \/ toWrite' = Append(toWrite, Null) /\ UNCHANGED toFilter
    BY <1>3 DEF Finish, PoisonFilter, JoinFilter, PoisonOutput, JoinOutput, CloseStep,
                workerVars, outputVars, batchVars
  <2>2. Reading'
    BY <1>1, <2>1 DEF Reading, InSection, Filling, Top
  <2>3. \A x : Passed(x)' <=> Passed(x)
    BY <2>1 DEF Passed, InSection
  <2>4. Filling' /\ Filling
    BY <2>1 DEF Filling
  <2> QED
    BY <2>1, <2>2, <2>3, <2>4, NothingMoves
<1> QED
  BY <1>2, <1>3

LEMMA OutputKeepsTexts ==
  ASSUME IInv, IInv', TextInv, FlushEnds \/ UNCHANGED vars
  PROVE  TextInv'
<1>1. /\ UNCHANGED <<input, mpc, sec, read, local, sequence, wpc, wbatch, toFilter, toWrite,
                     ordering, numbered, lines, kept, out>>
      /\ opc' = "produce" => opc = "produce"
  BY DEF FlushEnds, vars, mainVars, workerVars, outputVars, batchVars
<1>2. Reading'
  BY <1>1 DEF TextInv, Reading, InSection, Filling, Top
<1>3. \A x : Passed(x)' <=> Passed(x)
  BY <1>1 DEF Passed, InSection
<1>4. Filling' <=> Filling
  BY <1>1 DEF Filling
<1> QED
  BY <1>1, <1>2, <1>3, <1>4, NothingMoves

LEMMA SendKeepsTexts ==
  ASSUME IInv, IInv', TextInv, Send
  PROVE  TextInv'
<1>1. /\ TypeOK /\ NoneTwice /\ Apart /\ Hands /\ Numbers /\ TextType /\ Reading
      /\ Filling /\ mpc \in {"full", "last"} /\ Top \in Batches /\ Top \in In(local) /\ local # <<>>
  <2>1. Filling /\ mpc \in {"full", "last"}
    BY DEF Send, Filling
  <2> QED
    BY <2>1, Places DEF IInv, TextInv, Hands
<1>2. /\ local' = Tail(local) /\ toFilter' = Append(toFilter, Top)
      /\ UNCHANGED <<toRead, toWrite, wpc, wbatch, opc, ordering, base>>
      /\ UNCHANGED <<input, sec, read, poisons, kept, out>>
  BY DEF Send, workerVars, outputVars
<1>3. In(toFilter') = In(toFilter) \cup {Top}
  <2>1. toFilter \in Seq(Batches \cup {Null}) /\ Once(toFilter) /\ Top \in Batches \cup {Null}
        /\ Top \notin In(toFilter) /\ Top # Null
    BY <1>1, Places DEF TypeOK, NoneTwice, Apart
  <2>2. In(Append(toFilter, Top)) = In(toFilter) \cup ({Top} \ {Null})
    BY <2>1, Appended
  <2> QED
    BY <1>2, <2>1, <2>2, Zenon
<1>4. /\ In(toWrite') = In(toWrite) /\ In(ordering') = In(ordering) /\ AtWork' = AtWork
      /\ ThroughFilter' = ThroughFilter
  BY <1>2 DEF AtWork, ThroughFilter
<1>5. Given = In(toFilter) \cup AtWork \cup In(toWrite) \cup In(ordering) \cup {Top}
  BY <1>1 DEF Given
<1>6. CASE mpc' \in {"drain", "none"} /\ UNCHANGED <<sequence, numbered, lines>>
  <2>1. Reading'
    BY <1>1, <1>2, <1>6 DEF Reading, InSection, Filling, Send
  <2>2. Given' = Given
    BY <1>3, <1>4, <1>5, <1>6 DEF Given, Filling
  <2>3. \A x : Passed(x)' <=> Passed(x)
    BY <1>1, <1>2, <1>6 DEF Passed, InSection
  <2> QED
    BY <1>2, <1>4, <1>6, <2>1, <2>2, <2>3, BatchesMove
<1>7. CASE mpc = "full" /\ mpc' = "lines" /\ local' # <<>> /\ NewInput(Head(local'))
  <2> DEFINE c == Head(local')
  <2>1. c = Top' /\ Filling'
    BY <1>7 DEF Top, Filling
  <2>2. c \in Batches /\ c \in In(local') /\ In(local') = In(local) \ {Top}
    <3>1. local \in Seq(Batches) /\ Once(local)
      BY <1>1 DEF TypeOK, NoneTwice
    <3>2. /\ Tail(local) \in Seq(Batches) /\ Once(Tail(local)) /\ In(Tail(local)) = In(local) \ {Top}
      BY <1>1, <3>1, Removed DEF Top
    <3>3. c \in Batches /\ (c # Null => c \in In(local'))
      BY <1>2, <1>7, <3>2, Removed
    <3> QED
      BY <1>2, <3>2, <3>3, Places
  <2> HIDE DEF c
  <2>3. c \notin Given
    BY <1>1, <1>5, <2>2 DEF Apart
  <2>4. Given' = Given \cup {c}
    BY <1>3, <1>4, <1>5, <2>1 DEF Given
  <2>5. numbered'[c] = sequence /\ sequence' = sequence + 1 /\ sequence \in Nat
    BY <1>1, <1>7, <2>2 DEF NewInput, TypeOK, c
  <2>6. Reading'
    <3>1. numbered'[Top'] = sequence' - 1
      BY <2>1, <2>5
    <3> QED
      BY <1>1, <1>2, <1>7, <3>1 DEF Reading, InSection
  <2>7. InSection /\ InSection'
    BY <1>1, <1>7 DEF InSection
  <2>8. NewInput(c)
    BY <1>7 DEF c
  <2> QED
    BY <1>2, <1>4, <2>2, <2>3, <2>4, <2>6, <2>7, <2>8, BatchStarts
<1> QED
  BY <1>1, <1>6, <1>7 DEF Send

LEMMA MoveReadKeepsTexts ==
  ASSUME IInv, IInv', TextInv, MoveRead
  PROVE  TextInv'
<1> DEFINE c == Head(toRead)
<1>1. /\ TypeOK /\ NoneTwice /\ Apart /\ Reading /\ mpc = "none" /\ mpc' = "lines"
      /\ toRead # <<>> /\ local' = <<c>> /\ NewInput(c)
      /\ UNCHANGED <<input, sec, read, poisons, toFilter, toWrite, wpc, wbatch, opc, ordering, base,
                     kept, out>>
  BY DEF IInv, TextInv, MoveRead, workerVars, outputVars
<1>2. c \in Batches /\ c \in In(toRead)
  <2>1. toRead \in Seq(Batches) /\ Once(toRead)
    BY <1>1 DEF TypeOK, NoneTwice
  <2> QED
    BY <1>1, <2>1, Removed, Places
<1>3. Top' = c /\ Filling' /\ ~Filling
  BY <1>1 DEF Top, Filling
<1> HIDE DEF c
<1>4. /\ In(toFilter') = In(toFilter) /\ In(toWrite') = In(toWrite) /\ In(ordering') = In(ordering)
      /\ AtWork' = AtWork /\ ThroughFilter' = ThroughFilter
  BY <1>1 DEF AtWork, ThroughFilter
<1>5. c \notin Given /\ Given' = Given \cup {c}
  BY <1>1, <1>2, <1>3, <1>4 DEF Given, Apart
<1>6. numbered'[c] = sequence /\ sequence' = sequence + 1 /\ sequence \in Nat
  BY <1>1, <1>2 DEF NewInput, TypeOK
<1>7. Reading'
  <2>1. numbered'[Top'] = sequence' - 1
    BY <1>3, <1>6
  <2> QED
    BY <1>1, <2>1 DEF Reading, InSection
<1>8. InSection /\ InSection'
  BY <1>1 DEF InSection
<1> QED
  BY <1>1, <1>2, <1>4, <1>5, <1>7, <1>8, BatchStarts

LEMMA DrainKeepsTexts ==
  ASSUME IInv, IInv', TextInv, Drain
  PROVE  TextInv'
<1>1. /\ Reading /\ mpc = "drain"
      /\ UNCHANGED <<input, mpc, sec, read, sequence, toFilter, toWrite, wpc, wbatch, opc, ordering,
                     numbered, lines, kept, out>>
  BY DEF TextInv, Drain, workerVars, outputVars, batchVars
<1>2. Reading'
  BY <1>1 DEF Reading, InSection, Filling
<1>3. Given' = Given /\ ThroughFilter' = ThroughFilter
  BY <1>1 DEF Given, ThroughFilter, Filling, AtWork
<1>4. \A x : Passed(x)' <=> Passed(x)
  BY <1>1 DEF Passed, InSection
<1> QED
  BY <1>1, <1>2, <1>3, <1>4, BatchesMove

\* What the pools' threads leave alone.
LEMMA ReadingStays ==
  ASSUME Reading, UNCHANGED <<input, mpc, sec, read, local, sequence, numbered, lines>>
  PROVE  Reading' /\ Top' = Top /\ (Filling' <=> Filling) /\ \A x : Passed(x)' <=> Passed(x)
BY DEF Reading, InSection, Filling, Top, Passed

LEMMA TakeBatchKeepsTexts ==
  ASSUME IInv, IInv', TextInv, NEW w \in Workers, TakeBatch(w)
  PROVE  TextInv'
<1> DEFINE b == Head(toFilter)
<1>1. /\ TypeOK /\ NoneTwice /\ Hands /\ wpc[w] = "take" /\ toFilter # <<>> /\ toFilter' = Tail(toFilter)
      /\ wbatch' = [wbatch EXCEPT ![w] = b]
      /\ wpc' = [wpc EXCEPT ![w] = IF b = Null THEN "done" ELSE "filter"]
      /\ UNCHANGED <<input, mpc, sec, read, local, sequence, toRead, toWrite, opc, ordering, base,
                     numbered, lines, kept, out>>
  BY DEF IInv, TakeBatch, mainVars, outputVars, batchVars
<1>2. In(toFilter') = In(toFilter) \ {b} /\ (b # Null => b \in In(toFilter))
  <2>1. toFilter \in Seq(Batches \cup {Null}) /\ Once(toFilter)
    BY <1>1 DEF TypeOK, NoneTwice
  <2> QED
    BY <1>1, <2>1, Removed
<1>3. Reading' /\ Top' = Top /\ (Filling' <=> Filling) /\ \A x : Passed(x)' <=> Passed(x)
  BY <1>1, ReadingStays DEF TextInv
<1>4. wbatch[w] = Null
  BY <1>1 DEF Hands
<1>5. /\ \A v \in Workers : v # w => wbatch'[v] = wbatch[v] /\ wpc'[v] = wpc[v]
      /\ wbatch'[w] = b /\ wpc'[w] \in {"done", "filter"}
  BY <1>1 DEF TypeOK
<1> HIDE DEF b
<1>6. AtWork' = AtWork \cup ({b} \ {Null})
  <2>1. ASSUME NEW x \in AtWork' PROVE x \in AtWork \cup ({b} \ {Null})
    BY <1>5 DEF AtWork
  <2>2. ASSUME NEW x \in AtWork PROVE x \in AtWork'
    BY <1>4, <1>5 DEF AtWork
  <2>3. b # Null => b \in AtWork'
    BY <1>5 DEF AtWork
  <2> QED
    BY <2>1, <2>2, <2>3
<1>7. ThroughFilter' = ThroughFilter
  <2>1. ASSUME NEW v \in Workers PROVE wpc'[v] = "produce" <=> wpc[v] = "produce"
    BY <1>1, <1>5
  <2>2. {v \in Workers : wpc'[v] = "produce"} = {v \in Workers : wpc[v] = "produce"}
    BY <2>1
  <2>3. \A v \in {u \in Workers : wpc[u] = "produce"} : wbatch'[v] = wbatch[v]
    BY <1>1, <1>5
  <2>4. In(toWrite') = In(toWrite) /\ In(ordering') = In(ordering)
    BY <1>1
  <2> QED
    BY <2>2, <2>3, <2>4 DEF ThroughFilter
<1>8. Given' = Given
  <2>1. In(toFilter') \cup AtWork' = In(toFilter) \cup AtWork
    <3>1. b = Null => b \notin In(toFilter)
      BY DEF In
    <3> QED
      BY <1>2, <1>6, <3>1
  <2>2. In(toWrite') = In(toWrite) /\ In(ordering') = In(ordering)
    BY <1>1
  <2> QED
    BY <1>3, <2>1, <2>2 DEF Given
<1> QED
  BY <1>1, <1>3, <1>7, <1>8, BatchesMove

LEMMA PassOnKeepsTexts ==
  ASSUME IInv, IInv', TextInv, NEW w \in Workers, PassOn(w)
  PROVE  TextInv'
<1> DEFINE b == wbatch[w]
<1>1. /\ TypeOK /\ NoneTwice /\ Hands /\ Apart /\ wpc[w] = "produce" /\ toWrite' = Append(toWrite, b)
      /\ wbatch' = [wbatch EXCEPT ![w] = Null] /\ wpc' = [wpc EXCEPT ![w] = "take"]
      /\ UNCHANGED <<input, mpc, sec, read, local, sequence, toRead, toFilter, opc, ordering, base,
                     numbered, lines, kept, out>>
  BY DEF IInv, PassOn, mainVars, outputVars, batchVars
<1>2. b \in Batches /\ b # Null /\ b \in AtWork /\ b \notin In(toWrite)
  <2>1. b # Null /\ b \in AtWork
    BY <1>1 DEF Hands, AtWork
  <2> QED
    BY <1>1, <2>1, Places DEF Apart
<1>3. In(toWrite') = In(toWrite) \cup {b}
  <2>1. toWrite \in Seq(Batches \cup {Null}) /\ Once(toWrite) /\ b \in Batches \cup {Null}
    BY <1>1, <1>2 DEF TypeOK, NoneTwice
  <2>2. In(Append(toWrite, b)) = In(toWrite) \cup ({b} \ {Null})
    BY <1>2, <2>1, Appended
  <2> QED
    BY <1>1, <1>2, <2>2, Zenon
<1>4. Reading' /\ Top' = Top /\ (Filling' <=> Filling) /\ \A x : Passed(x)' <=> Passed(x)
  BY <1>1, ReadingStays DEF TextInv
<1>5. /\ \A v \in Workers : v # w => wbatch'[v] = wbatch[v] /\ wpc'[v] = wpc[v]
      /\ wbatch'[w] = Null /\ wpc'[w] = "take" /\ wbatch[w] = b
  BY <1>1 DEF TypeOK
<1>6. b \in ThroughFilter
  BY <1>1, <1>5 DEF ThroughFilter
<1> HIDE DEF b
<1>7. In(toFilter') = In(toFilter) /\ In(ordering') = In(ordering)
  BY <1>1
<1>8. ThroughFilter' = ThroughFilter
  <2>1. ASSUME NEW v \in Workers, wpc'[v] = "produce" PROVE wpc[v] = "produce" /\ wbatch'[v] = wbatch[v]
    BY <1>5, <2>1
  <2>2. ASSUME NEW x \in ThroughFilter' PROVE x \in ThroughFilter
    BY <1>3, <1>6, <1>7, <2>1 DEF ThroughFilter
  <2>3. ASSUME NEW v \in Workers, wpc[v] = "produce" PROVE wbatch[v] = b \/ (wpc'[v] = "produce" /\ wbatch'[v] = wbatch[v])
    BY <1>5, <2>3
  <2>4. ASSUME NEW x \in ThroughFilter PROVE x \in ThroughFilter'
    BY <1>3, <1>7, <2>3 DEF ThroughFilter
  <2> QED
    BY <2>2, <2>4
<1>9. Given' = Given
  <2>1. ASSUME NEW x \in AtWork' PROVE x \in AtWork
    BY <1>5 DEF AtWork
  <2>2. ASSUME NEW x \in AtWork PROVE x \in AtWork' \/ x = b
    BY <1>5 DEF AtWork
  <2> QED
    BY <1>2, <1>3, <1>4, <1>7, <2>1, <2>2 DEF Given
<1> QED
  BY <1>1, <1>4, <1>8, <1>9, BatchesMove

LEMMA TakeFilteredKeepsTexts ==
  ASSUME IInv, IInv', TextInv, TakeFiltered
  PROVE  TextInv'
<1> DEFINE b == Head(toWrite)
<1>1. /\ TypeOK /\ NoneTwice /\ toWrite # <<>> /\ toWrite' = Tail(toWrite)
      /\ b = Null => opc' = "done" /\ ordering' = ordering
      /\ b # Null => opc' = "flush" /\ ordering' = Placed(b)
      /\ UNCHANGED <<input, mpc, sec, read, local, sequence, toRead, toFilter, wpc, wbatch, base,
                     numbered, lines, kept, out>>
  BY DEF IInv, TakeFiltered, mainVars, workerVars, batchVars
<1>2. In(toWrite') = In(toWrite) \ {b} /\ (b # Null => b \in In(toWrite))
  <2>1. toWrite \in Seq(Batches \cup {Null}) /\ Once(toWrite)
    BY <1>1 DEF TypeOK, NoneTwice
  <2> QED
    BY <1>1, <2>1, Removed
<1>3. In(ordering') = In(ordering) \cup ({b} \ {Null})
  <2>1. CASE b = Null
    BY <1>1, <2>1
  <2>2. CASE b # Null
    <3>1. In(Placed(b)) = In(ordering) \cup {b} /\ ordering' = Placed(b)
      BY <1>1, <1>2, <2>2, PlacedProperties
    <3> QED
      BY <2>2, <3>1, Zenon
  <2> QED
    BY <2>1, <2>2
<1>4. Reading' /\ Top' = Top /\ (Filling' <=> Filling) /\ \A x : Passed(x)' <=> Passed(x)
  BY <1>1, ReadingStays DEF TextInv
<1>5. opc' # "produce"
  BY <1>1
<1> HIDE DEF b
<1>6. In(toWrite') \cup In(ordering') = In(toWrite) \cup In(ordering)
  <2>1. b = Null => b \notin In(toWrite)
    BY DEF In
  <2> QED
    BY <1>2, <1>3, <2>1
<1>7. AtWork' = AtWork /\ In(toFilter') = In(toFilter)
  BY <1>1 DEF AtWork
<1>8. Given' = Given
  BY <1>4, <1>6, <1>7 DEF Given
<1>9. ThroughFilter' = ThroughFilter
  BY <1>1, <1>6 DEF ThroughFilter
<1> QED
  BY <1>1, <1>4, <1>5, <1>8, <1>9, BatchesMove

LEMMA ReturnFrontKeepsTexts ==
  ASSUME IInv, IInv', TextInv, ReturnFront
  PROVE  TextInv'
<1> DEFINE b == Head(ordering)
<1>1. /\ TypeOK /\ NoneTwice /\ Hands /\ Apart /\ opc = "produce" /\ opc' = "flush"
      /\ ordering # <<>> /\ b # Null /\ ordering' = Tail(ordering)
      /\ UNCHANGED <<input, mpc, sec, read, local, sequence, toFilter, toWrite, wpc, wbatch,
                     numbered, lines, kept, out>>
  BY DEF IInv, ReturnFront, Hands, FrontThere, mainVars, workerVars, batchVars
<1>2. In(ordering') = In(ordering) \ {b} /\ b \in In(ordering)
  <2>1. ordering \in Seq(Batches \cup {Null}) /\ Once(ordering)
    BY <1>1 DEF TypeOK, NoneTwice
  <2> QED
    BY <1>1, <2>1, Removed
<1>3. Reading' /\ Top' = Top /\ (Filling' <=> Filling) /\ \A x : Passed(x)' <=> Passed(x)
  BY <1>1, ReadingStays DEF TextInv
<1>4. kept[b] = <<>>
  BY <1>1 DEF TextInv, Buffers
<1>5. opc' # "produce"
  BY <1>1
<1> HIDE DEF b
<1>6. AtWork' = AtWork /\ In(toFilter') = In(toFilter) /\ In(toWrite') = In(toWrite)
  BY <1>1 DEF AtWork
<1>7. ThroughFilter' \subseteq ThroughFilter /\ ThroughFilter \subseteq ThroughFilter' \cup {b}
  BY <1>1, <1>2, <1>6 DEF ThroughFilter
<1>8. b \notin Given' /\ Given' \subseteq Given /\ Given \subseteq Given' \cup {b}
  <2>1. Filling => Top # b
    BY <1>1, <1>2, Places DEF Apart
  <2> QED
    BY <1>1, <1>2, <1>3, <1>6, <2>1 DEF Given, Apart
<1>9. Text(b) = <<>>
  <2>1. b \in ThroughFilter
    BY <1>2 DEF ThroughFilter
  <2> QED
    BY <1>4, <2>1 DEF Text
<1>10. /\ \A c \in Given \ Given' : Text(c) = <<>>
       /\ \A c \in ThroughFilter \ ThroughFilter' : c \notin Given' /\ kept[c] = <<>>
  BY <1>4, <1>7, <1>8, <1>9
<1> QED
  BY <1>1, <1>3, <1>5, <1>7, <1>8, <1>10, BatchesMove

-----------------------------------------------------------------------------
(* Steps that change what is in the batches or on the output.               *)

\* Where main is in the input.
LEMMA PlaceInInput ==
  ASSUME IInv, TextInv
  PROVE  /\ input \in Inputs /\ input.arpa \in BOOLEAN /\ sec \in Nat /\ read \in Nat
         /\ Len(input.sizes) \in Nat /\ sec <= Len(input.sizes)
         /\ \A s \in 1..Len(input.sizes) : input.sizes[s] \in Nat
         /\ InSection => sec \in 1..Len(input.sizes) /\ read <= input.sizes[sec]
         /\ \A x \in Rows : x[1] \in Nat /\ x[2] \in Nat
<1>1. input \in Inputs /\ sec \in 0..Len(input.sizes) /\ read \in Nat
  BY DEF IInv, TypeOK
<1>2. /\ input.arpa \in BOOLEAN /\ Len(input.sizes) \in Nat
      /\ \A s \in 1..Len(input.sizes) : input.sizes[s] \in Nat
  BY <1>1, LinesOfFile
<1>3. InSection => sec >= 1 /\ read <= input.sizes[sec]
  BY DEF TextInv, Reading
<1>4. \A x \in Rows : x[1] \in Nat /\ x[2] \in Nat
  BY DEF Rows
<1> QED
  BY <1>1, <1>2, <1>3, <1>4

\* Main writes a line when every batch is empty and with it.
LEMMA LineWritten ==
  ASSUME IInv, IInv', TextInv, Reading', UNCHANGED <<input, kept, opc, ordering>>,
         TextType', ThroughFilter' = {}, ThroughFilter = {},
         \A b \in Given : Text(b) = <<>>, \A b \in Given' : Text(b)' = <<>>,
         NEW x \in Rows, x \in Sequential!Lines(input), out' = Append(out, x),
         \A y \in Rows : Passed(y) => Sequential!Precedes(y, x),
         \A y \in Sequential!Lines(input) : Passed(y)' <=> Passed(y) \/ y = x
  PROVE  TextInv'
<1>1. /\ TextType /\ Buffers /\ Ordered /\ FromInput /\ Complete /\ Elements(out) \subseteq Rows
  BY TextPlaces DEF TextInv
<1>2. /\ out' \in Seq(Rows) /\ InOrder(out') /\ Elements(out') = Elements(out) \cup {x}
  <2>1. out \in Seq(Rows) /\ InOrder(out) /\ \A y \in Elements(out) : Sequential!Precedes(y, x)
    BY <1>1 DEF TextType, Ordered, FromInput
  <2> QED
    BY <2>1, LineAdded
<1>3. Buffers'
  BY <1>1 DEF Buffers
<1>4. Ordered'
  <2>1. \A b \in Given' : InOrder(Text(b)') /\ AllBefore(out', Text(b)')
    BY EmptyText
  <2>2. \A b, c \in Given' : AllBefore(Text(b)', Text(c)')
    BY EmptyText
  <2> QED
    BY <1>2, <2>1, <2>2 DEF Ordered, InOrder, AllBefore, Elements
<1>5. FromInput'
  <2>1. \A y \in Elements(out') : y \in Sequential!Lines(input) /\ Passed(y)'
    BY <1>1, <1>2 DEF FromInput
  <2>2. \A b \in Given' : Elements(Text(b)') = {}
    BY EmptyText
  <2> QED
    BY <2>1, <2>2 DEF FromInput
<1>6. Complete'
  <2> SUFFICES ASSUME NEW y \in Sequential!Lines(input), Passed(y)' PROVE y \in Elements(out')
    BY DEF Complete
  <2>1. CASE y = x
    BY <1>2, <2>1
  <2>2. CASE Passed(y)
    <3>1. y \in Elements(out) \/ \E b \in Given : y \in Elements(Text(b))
      BY <1>1, <2>2 DEF Complete
    <3> QED
      BY <1>2, <3>1, EmptyText
  <2> QED
    BY <2>1, <2>2
<1> QED
  BY <1>2, <1>3, <1>4, <1>5, <1>6 DEF TextInv

LEMMA BeginLengthKeepsTexts ==
  ASSUME IInv, IInv', TextInv, BeginLength
  PROVE  TextInv' /\ \E more \in Seq(Rows) : out' = out \o more
<1>1. /\ mpc = "section" /\ sec < Len(input.sizes) /\ sec' = sec + 1 /\ read' = 0 /\ mpc' = "lines"
      /\ out' = IF input.arpa THEN Append(out, <<sec + 1, 0>>) ELSE out
      /\ UNCHANGED <<input, local, sequence, toFilter, toWrite, wpc, wbatch, opc, ordering, base,
                     numbered, lines, kept>>
  BY DEF BeginLength, workerVars, outputVars, batchVars
<1>2. /\ input \in Inputs /\ input.arpa \in BOOLEAN /\ sec \in Nat /\ Len(input.sizes) \in Nat
      /\ sec + 1 \in 1..Len(input.sizes) /\ input.sizes[sec + 1] \in Nat
      /\ \A x \in Rows : x[1] \in Nat /\ x[2] \in Nat
      /\ TextType /\ Reading /\ Top \in Batches /\ Top \in In(local) /\ Filling
  <2>1. sec + 1 \in 1..Len(input.sizes)
    BY <1>1, PlaceInInput
  <2>2. Filling
    BY <1>1 DEF Filling
  <2> QED
    BY <2>1, <2>2, PlaceInInput, Places DEF TextInv
<1>3. Reading'
  BY <1>1, <1>2 DEF Reading, InSection, Filling, Top
<1>4. \A x \in Rows : /\ Passed(x) <=> x[1] <= sec
                      /\ Passed(x)' <=> x[1] <= sec \/ (x[1] = sec + 1 /\ x[2] = 0)
  BY <1>1, <1>2 DEF Passed, InSection
<1>5. Sequential!Lines(input) \subseteq Rows
  BY <1>2, LinesOfFile
<1>6. CASE ~input.arpa
  <2>1. ASSUME NEW x \in Sequential!Lines(input), Passed(x)' PROVE Passed(x)
    <3>1. /\ x \in Rows /\ x[1] \in 1..Len(input.sizes)
          /\ IF x[2] \in 1..input.sizes[x[1]] THEN Passes(x) ELSE input.arpa
      BY <1>2, <1>5, LinesOfFile
    <3>2. x[2] # 0
      BY <1>6, <3>1
    <3> QED
      BY <1>4, <2>1, <3>1, <3>2
  <2>2. \A x \in Rows : Passed(x) => Passed(x)'
    BY <1>4
  <2>3. Filling' /\ out' = out
    BY <1>1, <1>6 DEF Filling
  <2>4. TextInv'
    BY <1>1, <1>2, <1>3, <2>1, <2>2, <2>3, NothingMoves
  <2>5. out' = out \o <<>> /\ <<>> \in Seq(Rows)
    BY <1>2, <2>3, ConcatEmptySeq, EmptySeq DEF TextType
  <2> QED
    BY <2>4, <2>5
<1>7. CASE input.arpa
  <2> DEFINE x == <<sec + 1, 0>>
  <2>1. x \in Rows /\ x[1] = sec + 1 /\ x[2] = 0
    BY <1>2 DEF Rows
  <2> HIDE DEF x
  <2>2. x \in Sequential!Lines(input)
    BY <1>2, <1>7, <2>1, LinesOfFile
  <2>3. out' = Append(out, x)
    BY <1>1, <1>7 DEF x
  <2>4. /\ In(toFilter) = {} /\ AtWork = {} /\ In(toWrite) = {} /\ In(ordering) = {}
    <3>1. In(local) = Batches /\ Apart /\ NoneLost
      BY <1>1, <1>2, <1>7 DEF Reading, IInv
    <3>2. /\ In(toFilter) \subseteq Batches /\ AtWork \subseteq Batches
          /\ In(toWrite) \subseteq Batches /\ In(ordering) \subseteq Batches
      BY Places
    <3> QED
      BY <3>1, <3>2 DEF Apart
  <2>5. ThroughFilter = {} /\ ThroughFilter' = {}
    <3>1. ThroughFilter = {}
      BY <2>4, TextPlaces, Places, <1>2 DEF Given, Reading
    <3> QED
      BY <1>1, <3>1 DEF ThroughFilter
  <2>6. Given = {Top} /\ Given' = {Top}
    <3>1. Given = {Top}
      BY <1>2, <2>4 DEF Given
    <3>2. Given' = {Top}
      BY <1>1, <2>4 DEF Given, AtWork, Filling, Top
    <3> QED
      BY <3>1, <3>2
  <2>7. Text(Top) = <<>>
    BY <1>1, <1>2, <1>7, <2>5 DEF Text, Reading
  <2>8. \A b \in Given : Text(b) = <<>>
    BY <2>6, <2>7
  <2>9. \A b \in Given' : Text(b)' = <<>>
    <3>1. ASSUME NEW b \in Given' PROVE Text(b)' = <<>>
      <4>1. b = Top
        BY <2>6
      <4> QED
        BY <1>1, <1>2, <1>7, <2>5, <4>1 DEF Text, Reading
    <3> QED
      BY <3>1
  <2>10. \A y \in Rows : Passed(y) => Sequential!Precedes(y, x)
    BY <1>2, <1>4, <2>1 DEF Sequential!Precedes
  <2>11. \A y \in Sequential!Lines(input) : Passed(y)' <=> Passed(y) \/ y = x
    <3>1. \A y \in Rows : y[1] = sec + 1 /\ y[2] = 0 => y = x
      <4> USE DEF Rows, x
      <4> QED
        OBVIOUS
    <3> QED
      BY <1>4, <1>5, <2>1, <3>1
  <2>12. out' \in Seq(Rows) /\ out' = out \o <<x>> /\ <<x>> \in Seq(Rows)
    <3>1. out \in Seq(Rows) /\ x \in Rows
      BY <1>2, <2>1 DEF TextType
    <3> QED
      BY <2>3, <3>1
  <2>13. TextType'
    BY <1>1, <1>2, <2>12 DEF TextType
  <2>14. TextInv'
    BY <1>1, <1>3, <2>1, <2>2, <2>3, <2>5, <2>8, <2>9, <2>10, <2>11, <2>13, LineWritten
  <2> QED
    BY <2>12, <2>14
<1> QED
  BY <1>2, <1>6, <1>7

\* When Flush has all the batches, none is anywhere else.
LEMMA AllBack ==
  ASSUME IInv, Len(local) = QueueSize
  PROVE  In(local) = Batches
<1>1. local \in Seq(Batches) /\ Once(local) /\ QueueSize \in Nat /\ Batches = 1..QueueSize
  BY Places DEF IInv, TypeOK, NoneTwice, Batches
<1>2. local \in [1..QueueSize -> Batches]
  BY <1>1, LenProperties
<1>3. \A n \in 1..QueueSize : local[n] \in Batches /\ local[n] # Null
  BY <1>2, Places
<1>4. local \in Injection(1..QueueSize, Batches)
  BY <1>1, <1>2, <1>3 DEF Once, Injection, IsInjective
<1>5. IsFiniteSet(Batches) /\ Cardinality(1..QueueSize) = Cardinality(Batches)
  BY <1>1, FS_Interval
<1>6. local \in Surjection(1..QueueSize, Batches)
  BY <1>4, <1>5, FS_Injection
<1>7. \A b \in Batches : \E n \in 1..Len(local) : local[n] = b /\ b # Null
  BY <1>3, <1>6 DEF Surjection
<1> QED
  BY <1>7, Places DEF In

LEMMA EndLengthKeepsTexts ==
  ASSUME IInv, IInv', TextInv, EndLength
  PROVE  TextInv' /\ \E more \in Seq(Rows) : out' = out \o more
<1> DEFINE x == <<sec, read + 1>>
<1>1. /\ mpc = "drain" /\ Len(local) = QueueSize /\ mpc' = "section" /\ NewInput(Top)
      /\ out' = Append(out, x)
      /\ UNCHANGED <<input, sec, read, local, toRead, toFilter, toWrite, wpc, wbatch, opc, ordering,
                     base, kept>>
  BY DEF EndLength, workerVars, outputVars
<1>2. /\ input \in Inputs /\ input.arpa \in BOOLEAN /\ read \in Nat /\ Len(input.sizes) \in Nat
      /\ sec \in 1..Len(input.sizes) /\ read \in Nat /\ read = input.sizes[sec] /\ input.arpa
      /\ \A y \in Rows : y[1] \in Nat /\ y[2] \in Nat
      /\ TextType /\ Reading /\ TypeOK
  <2>1. InSection
    BY <1>1 DEF InSection
  <2>2. input.arpa /\ read = input.sizes[sec]
    BY <1>1 DEF TextInv, Reading
  <2> QED
    BY <2>1, <2>2, PlaceInInput DEF TextInv, IInv
<1>3. x \in Rows /\ x[1] = sec /\ x[2] = read + 1
  BY <1>2 DEF Rows
<1>4. \A y \in Rows : y[1] = sec /\ y[2] = read + 1 => y = x
  BY DEF Rows
<1> HIDE DEF x
<1>5. In(local) = Batches /\ In(local') = Batches
  BY <1>1, AllBack
<1>6. /\ In(toFilter) = {} /\ AtWork = {} /\ In(toWrite) = {} /\ In(ordering) = {}
  <2>1. Apart
    BY DEF IInv
  <2>2. /\ In(toFilter) \subseteq Batches /\ AtWork \subseteq Batches
        /\ In(toWrite) \subseteq Batches /\ In(ordering) \subseteq Batches
    BY Places
  <2> QED
    BY <1>5, <2>1, <2>2 DEF Apart
<1>7. Given = {} /\ Given' = {Top'} /\ Top' = Top /\ Filling'
  BY <1>1, <1>6 DEF Given, Filling, AtWork, Top
<1>8. Top \in Batches
  <2>1. local \in Seq(Batches) /\ Once(local) /\ Len(local) # 0
    BY <1>1, <1>2, Places DEF IInv, NoneTwice, TypeOK
  <2> QED
    BY <2>1, Removed, EmptySeq DEF Top
<1>9. ThroughFilter = {} /\ ThroughFilter' = {}
  <2>1. ThroughFilter = {}
    BY <1>2, <1>7, TextPlaces
  <2> QED
    BY <1>1, <2>1 DEF ThroughFilter
<1>10. /\ lines' \in [Batches -> Seq(Rows)] /\ lines'[Top] = <<>>
       /\ numbered'[Top] = sequence /\ sequence' = sequence + 1 /\ sequence \in Nat
  <2>1. lines \in [Batches -> Seq(Rows)] /\ numbered \in [Batches -> Nat] /\ sequence \in Nat
        /\ <<>> \in Seq(Rows)
    BY <1>2, EmptySeq DEF TextType, TypeOK
  <2>2. /\ lines' = [lines EXCEPT ![Top] = <<>>] /\ numbered' = [numbered EXCEPT ![Top] = sequence]
        /\ sequence' = sequence + 1
    BY <1>1 DEF NewInput
  <2> QED
    BY <1>8, <2>1, <2>2
<1>11. Reading'
  <2>1. numbered'[Top'] = sequence' - 1 /\ lines'[Top'] = <<>>
    BY <1>7, <1>10
  <2> QED
    BY <1>1, <1>5, <2>1 DEF Reading, InSection, Batches
<1>12. \A b \in Given' : Text(b)' = <<>>
  BY <1>7, <1>9, <1>10 DEF Text
<1>13. \A b \in Given : Text(b) = <<>>
  BY <1>7
<1>14. x \in Sequential!Lines(input) /\ Sequential!Lines(input) \subseteq Rows
  BY <1>2, <1>3, LinesOfFile
<1>15. \A y \in Rows : /\ Passed(y) <=> y[1] < sec \/ (y[1] = sec /\ y[2] <= read)
                       /\ Passed(y)' <=> y[1] <= sec
  BY <1>1, <1>2 DEF Passed, InSection
<1>16. \A y \in Rows : Passed(y) => Sequential!Precedes(y, x)
  BY <1>2, <1>3, <1>15 DEF Sequential!Precedes
<1>17. ASSUME NEW y \in Sequential!Lines(input) PROVE Passed(y)' <=> Passed(y) \/ y = x
  <2>1. y \in Rows /\ y[2] \in 0..(input.sizes[y[1]] + 1)
    BY <1>2, <1>14, LinesOfFile
  <2>2. y[1] = sec => y[2] <= read \/ y[2] = read + 1
    BY <1>2, <2>1
  <2> QED
    BY <1>2, <1>3, <1>4, <1>15, <2>1, <2>2
<1>18. out' \in Seq(Rows) /\ out' = out \o <<x>> /\ <<x>> \in Seq(Rows)
  BY <1>1, <1>2, <1>3 DEF TextType
<1>19. TextType'
  BY <1>1, <1>2, <1>10, <1>18 DEF TextType
<1>20. TextInv'
  BY <1>1, <1>3, <1>9, <1>11, <1>12, <1>13, <1>14, <1>16, <1>17, <1>19, LineWritten
<1> QED
  BY <1>18, <1>20

LEMMA AddNGramKeepsTexts ==
  ASSUME IInv, IInv', TextInv, AddNGram
  PROVE  TextInv'
<1> DEFINE New(c) == IF c \in ThroughFilter' THEN kept'[c] ELSE lines'[c]
<1>0. PICK x : x = <<sec, read + 1>>
  OBVIOUS
<1>1. /\ mpc = "lines" /\ mpc' \in {"lines", "full"} /\ read < input.sizes[sec] /\ read' = read + 1
      /\ lines' = [lines EXCEPT ![Top] = Append(@, x)]
      /\ UNCHANGED <<input, sec, local, sequence, toRead, toFilter, toWrite, wpc, wbatch, opc,
                     ordering, base, numbered, kept, out>>
  BY <1>0 DEF AddNGram, workerVars, outputVars
<1>2. /\ TextType /\ Reading /\ Buffers /\ Ordered /\ FromInput /\ Complete /\ TypeOK /\ Numbers
      /\ Filling /\ Filling' /\ Top \in Batches /\ Top \in In(local) /\ Given \subseteq Batches
      /\ Elements(out) \subseteq Rows
      /\ \A b \in Batches : Text(b) \in Seq(Rows) /\ Elements(Text(b)) \subseteq Rows
  <2>1. Filling /\ Filling'
    BY <1>1 DEF Filling
  <2> QED
    BY <2>1, Places, TextPlaces DEF IInv, TextInv
<1>3. /\ input \in Inputs /\ read \in Nat /\ sec \in Nat /\ sec \in 1..Len(input.sizes)
      /\ input.sizes[sec] \in Nat /\ \A y \in Rows : y[1] \in Nat /\ y[2] \in Nat
  <2>1. InSection
    BY <1>1 DEF InSection
  <2> QED
    BY <2>1, PlaceInInput
<1>4. x \in Rows /\ x[1] = sec /\ x[2] = read + 1
  BY <1>0, <1>3 DEF Rows
<1>5. \A y \in Rows : y[1] = sec /\ y[2] = read + 1 => y = x
  BY <1>0 DEF Rows
<1>6. lines \in [Batches -> Seq(Rows)] /\ kept \in [Batches -> Seq(Rows)] /\ out \in Seq(Rows)
  BY <1>2 DEF TextType
<1>7. \A b \in Batches : lines'[b] = IF b = Top THEN Append(lines[b], x) ELSE lines[b]
  BY <1>1, <1>6
<1>8. lines' \in [Batches -> Seq(Rows)]
  <2>1. Append(lines[Top], x) \in Seq(Rows)
    BY <1>2, <1>4, <1>6, AppendProperties
  <2> QED
    BY <1>1, <1>6, <2>1
<1> HIDE DEF New
<1>9. Top' = Top /\ Given' = Given /\ ThroughFilter' = ThroughFilter /\ Top \notin ThroughFilter
      /\ Top \in Given
  <2>1. Top' = Top /\ ThroughFilter' = ThroughFilter
    BY <1>1 DEF Top, ThroughFilter
  <2>2. Given' = Given
    BY <1>1, <1>2, <2>1 DEF Given, AtWork
  <2>3. Top \notin ThroughFilter
    BY <1>2, TextPlaces
  <2> QED
    BY <1>2, <2>1, <2>2, <2>3 DEF Given
<1>10. /\ Text(Top) = lines[Top] /\ lines[Top] \in Seq(Rows)
       /\ \A b \in Batches : New(b) = IF b = Top THEN Append(lines[Top], x) ELSE Text(b)
  BY <1>1, <1>2, <1>6, <1>7, <1>9 DEF Text, New
<1>11. /\ \A y \in Rows : Passed(y) => Sequential!Precedes(y, x) /\ Passed(y)'
       /\ Passed(x)' /\ \A y \in Rows : Passed(y)' => Passed(y) \/ y = x
  <2>1. \A y \in Rows : /\ Passed(y) <=> y[1] < sec \/ (y[1] = sec /\ y[2] <= read)
                        /\ Passed(y)' <=> y[1] < sec \/ (y[1] = sec /\ y[2] <= read + 1)
    BY <1>1 DEF Passed, InSection
  <2> QED
    BY <1>3, <1>4, <1>5, <2>1 DEF Sequential!Precedes
<1>12. \A b \in Given : \A y \in Elements(Text(b)) : y \in Rows /\ Passed(y) /\ Sequential!Precedes(y, x)
  BY <1>2, <1>11 DEF FromInput
<1>13. /\ InOrder(Append(lines[Top], x))
       /\ Elements(Append(lines[Top], x)) = Elements(lines[Top]) \cup {x}
  <2>1. InOrder(lines[Top]) /\ \A y \in Elements(lines[Top]) : Sequential!Precedes(y, x)
    BY <1>2, <1>9, <1>10, <1>12 DEF Ordered
  <2> QED
    BY <1>4, <1>10, <2>1, LineAdded
<1>14. Elements(New(Top)) = Elements(Text(Top)) \cup {x}
  BY <1>2, <1>10, <1>13
<1>15. Reading'
  BY <1>1, <1>2, <1>3, <1>9 DEF Reading, InSection
<1>16. TextType' /\ Buffers'
  BY <1>1, <1>2, <1>6, <1>8, <1>9 DEF TextType, Buffers
<1>17. Ordered'
  <2>1. ASSUME NEW b \in Given PROVE InOrder(New(b)) /\ AllBefore(out, New(b))
    <3>1. CASE b # Top
      BY <1>2, <1>10, <3>1 DEF Ordered
    <3>2. CASE b = Top
      <4>1. AllBefore(out, Text(Top)) /\ \A y \in Elements(out) : Sequential!Precedes(y, x)
        BY <1>2, <1>9, <1>11 DEF Ordered, FromInput
      <4>2. AllBefore(out, New(Top))
        BY <1>14, <4>1 DEF AllBefore
      <4> QED
        BY <1>2, <1>10, <1>13, <3>2, <4>2
    <3> QED
      BY <3>1, <3>2
  <2>2. ASSUME NEW b \in Given, NEW c \in Given, numbered[b] < numbered[c]
        PROVE  AllBefore(New(b), New(c))
    <3>1. b # Top
      <4>1. numbered[Top] = sequence - 1 /\ numbered[c] < sequence /\ sequence \in Nat
            /\ numbered[c] \in Nat
        BY <1>2 DEF Reading, Numbers, TypeOK
      <4> QED
        BY <2>2, <4>1
    <3>2. AllBefore(Text(b), Text(c))
      BY <1>2, <2>2 DEF Ordered
    <3>3. CASE c # Top
      BY <1>2, <1>10, <3>1, <3>2, <3>3
    <3>4. CASE c = Top
      <4>1. AllBefore(Text(b), New(Top))
        BY <1>12, <1>14, <3>2, <3>4 DEF AllBefore
      <4> QED
        BY <1>2, <1>10, <3>1, <3>4, <4>1
    <3> QED
      BY <3>3, <3>4
  <2>3. out' = out /\ numbered' = numbered
    BY <1>1
  <2> QED
    BY <1>2, <1>9, <2>1, <2>2, <2>3 DEF Ordered, Text, New
<1>18. FromInput'
  <2>1. ASSUME NEW y \in Elements(out) PROVE y \in Sequential!Lines(input) /\ Passed(y)'
    BY <1>2, <1>11, <2>1 DEF FromInput
  <2>2. IsNGram(x)'
    BY <1>1, <1>3, <1>4 DEF IsNGram
  <2>3. ASSUME NEW b \in Given, NEW y \in Elements(New(b)) PROVE IsNGram(y)' /\ Passed(y)'
    <3>1. CASE y = x
      BY <1>11, <2>2, <3>1
    <3>2. CASE y \in Elements(Text(b))
      <4>1. IsNGram(y) /\ Passed(y) /\ y \in Rows
        BY <1>2, <1>12, <3>2 DEF FromInput
      <4> QED
        BY <1>1, <1>11, <4>1 DEF IsNGram
    <3>3. y \in Elements(Text(b)) \/ y = x
      BY <1>2, <1>10, <1>14, <2>3
    <3> QED
      BY <3>1, <3>2, <3>3
  <2>4. \A b \in ThroughFilter : \A y \in Elements(kept[b]) : Passes(y)
    BY <1>2 DEF FromInput
  <2>5. out' = out /\ input' = input /\ kept' = kept
    BY <1>1
  <2> QED
    BY <1>9, <2>1, <2>3, <2>4, <2>5 DEF FromInput, Text, New
<1>19. Complete'
  <2>1. ASSUME NEW y \in Sequential!Lines(input), Passed(y)'
        PROVE  y \in Elements(out) \/ \E b \in Given : y \in Elements(New(b))
    <3>1. y \in Rows
      BY <1>3, LinesOfFile
    <3>2. CASE y = x
      BY <1>9, <1>14, <3>2
    <3>3. CASE Passed(y)
      <4>1. \A b \in Given : Elements(Text(b)) \subseteq Elements(New(b))
        BY <1>2, <1>10, <1>14
      <4> QED
        BY <1>2, <3>3, <4>1 DEF Complete
    <3> QED
      BY <1>11, <2>1, <3>1, <3>2, <3>3
  <2>2. out' = out /\ input' = input
    BY <1>1
  <2> QED
    BY <1>9, <2>1, <2>2 DEF Complete, Text, New
<1> QED
  BY <1>15, <1>16, <1>17, <1>18, <1>19 DEF TextInv

LEMMA CallFilterKeepsTexts ==
  ASSUME IInv, IInv', TextInv, NEW w \in Workers, CallFilter(w)
  PROVE  TextInv'
<1> DEFINE b == wbatch[w]
           New(c) == IF c \in ThroughFilter' THEN kept'[c] ELSE lines'[c]
<1>1. /\ wpc[w] = "filter" /\ kept' = [kept EXCEPT ![b] = @ \o Passing(lines[b])]
      /\ wpc' = [wpc EXCEPT ![w] = "produce"]
      /\ UNCHANGED <<input, mpc, sec, read, local, sequence, toRead, toFilter, toWrite, wbatch,
                     opc, ordering, base, numbered, lines, out>>
  BY DEF CallFilter, mainVars, outputVars
<1>2. /\ TextType /\ Reading /\ Buffers /\ Ordered /\ FromInput /\ Complete /\ TypeOK /\ Hands
      /\ Apart /\ Given \subseteq Batches /\ input \in Inputs
      /\ \A c \in Batches : Text(c) \in Seq(Rows) /\ Elements(Text(c)) \subseteq Rows
  BY Places, TextPlaces DEF IInv, TextInv, TypeOK
<1>3. b \in AtWork /\ b \in Given /\ b \in Batches /\ b \notin ThroughFilter
  <2>1. b # Null /\ b \in AtWork
    BY <1>1, <1>2 DEF Hands, AtWork
  <2> QED
    BY <1>1, <1>2, <2>1, TextPlaces DEF Given
<1>4. Text(b) = lines[b] /\ lines[b] \in Seq(Rows) /\ InOrder(lines[b]) /\ kept[b] = <<>>
  BY <1>2, <1>3 DEF Text, Ordered, Buffers, TextType
<1>5. /\ Passing(lines[b]) \in Seq(Rows) /\ InOrder(Passing(lines[b]))
      /\ Elements(Passing(lines[b])) = {x \in Elements(lines[b]) : Passes(x)}
  BY <1>4, PassingKeepsOrder
<1>6. \A v \in Workers : wpc'[v] = IF v = w THEN "produce" ELSE wpc[v]
  BY <1>1, <1>2 DEF TypeOK
<1>7. ThroughFilter' = ThroughFilter \cup {b}
  <2>1. ASSUME NEW x \in ThroughFilter' PROVE x \in ThroughFilter \cup {b}
    BY <1>1, <1>6, <2>1 DEF ThroughFilter
  <2>2. ASSUME NEW x \in ThroughFilter PROVE x \in ThroughFilter'
    BY <1>1, <1>6, <2>2 DEF ThroughFilter
  <2>3. b \in ThroughFilter'
    BY <1>1, <1>6 DEF ThroughFilter
  <2> QED
    BY <2>1, <2>2, <2>3
<1>8. Given' = Given
  BY <1>1 DEF Given, AtWork, Filling, Top
<1> HIDE DEF b, New
<1>9. /\ kept' \in [Batches -> Seq(Rows)] /\ kept'[b] = Passing(lines[b])
      /\ \A c \in Batches : c # b => kept'[c] = kept[c]
  <2>1. kept \in [Batches -> Seq(Rows)]
    BY <1>2 DEF TextType
  <2>2. kept[b] \o Passing(lines[b]) = Passing(lines[b])
    BY <1>4, <1>5, ConcatEmptySeq
  <2>3. kept' = [kept EXCEPT ![b] = Passing(lines[b])]
    BY <1>1, <1>3, <2>1, <2>2
  <2> QED
    BY <1>3, <1>5, <2>1, <2>3
<1>10. New(b) = Passing(lines[b]) /\ \A c \in Batches : c # b => New(c) = Text(c)
  BY <1>1, <1>7, <1>9 DEF Text, New
<1>11. /\ Elements(New(b)) = {x \in Elements(Text(b)) : Passes(x)}
       /\ \A c \in Given : Elements(New(c)) \subseteq Elements(Text(c))
  BY <1>2, <1>4, <1>5, <1>10
<1>12. Reading' /\ \A x : Passed(x)' <=> Passed(x)
  BY <1>1, <1>2, ReadingStays
<1>13. TextType' /\ Buffers'
  <2>1. TextType'
    BY <1>1, <1>2, <1>9 DEF TextType
  <2>2. opc = "produce" => Head(ordering) \in In(ordering)
    <3>1. ordering \in Seq(Batches \cup {Null}) /\ Once(ordering)
      BY <1>2 DEF TypeOK, IInv, NoneTwice
    <3> QED
      BY <1>2, <3>1, Removed DEF Hands, FrontThere
  <2>3. opc = "produce" => Head(ordering) # b /\ Head(ordering) \in Batches
    BY <1>2, <1>3, <2>2, Places DEF Apart
  <2>4. Buffers'
    BY <1>1, <1>2, <1>7, <1>9, <2>3 DEF Buffers
  <2> QED
    BY <2>1, <2>4
<1>14. Ordered'
  <2>1. ASSUME NEW c \in Given PROVE InOrder(New(c)) /\ AllBefore(out, New(c))
    <3>1. InOrder(New(c))
      BY <1>2, <1>5, <1>10 DEF Ordered
    <3>2. AllBefore(out, Text(c))
      BY <1>2 DEF Ordered
    <3> QED
      BY <1>11, <3>1, <3>2 DEF AllBefore
  <2>2. ASSUME NEW c \in Given, NEW d \in Given, numbered[c] < numbered[d]
        PROVE  AllBefore(New(c), New(d))
    <3>1. AllBefore(Text(c), Text(d))
      BY <1>2, <2>2 DEF Ordered
    <3> QED
      BY <1>11, <3>1 DEF AllBefore
  <2>3. out' = out /\ numbered' = numbered
    BY <1>1
  <2> QED
    BY <1>2, <1>8, <2>1, <2>2, <2>3 DEF Ordered, Text, New
<1>15. FromInput'
  <2>1. \A x \in Elements(out) : x \in Sequential!Lines(input) /\ Passed(x)'
    BY <1>2, <1>12 DEF FromInput
  <2>2. ASSUME NEW c \in Given, NEW x \in Elements(New(c)) PROVE IsNGram(x)' /\ Passed(x)'
    <3>1. IsNGram(x) /\ Passed(x)
      BY <1>2, <1>11 DEF FromInput
    <3> QED
      BY <1>1, <1>12, <3>1 DEF IsNGram
  <2>3. ASSUME NEW c \in ThroughFilter', NEW x \in Elements(kept'[c]) PROVE Passes(x)
    <3>1. CASE c = b
      BY <1>5, <1>9, <2>3, <3>1
    <3>2. CASE c # b
      <4>1. c \in ThroughFilter /\ c \in Batches
        BY <1>2, <1>7, <3>2, TextPlaces
      <4> QED
        BY <1>2, <1>9, <2>3, <3>2, <4>1 DEF FromInput
    <3> QED
      BY <3>1, <3>2
  <2>4. out' = out /\ input' = input
    BY <1>1
  <2> QED
    BY <1>8, <2>1, <2>2, <2>3, <2>4 DEF FromInput, Text, New
<1>16. Complete'
  <2>1. ASSUME NEW x \in Sequential!Lines(input), Passed(x), x \notin Elements(out)
        PROVE  \E c \in Given : x \in Elements(New(c))
    <3>1. PICK c \in Given : x \in Elements(Text(c))
      BY <1>2, <2>1 DEF Complete
    <3>2. CASE c # b
      BY <1>2, <1>10, <3>1, <3>2
    <3>3. CASE c = b
      <4>1. IsNGram(x) /\ x \in Rows
        BY <1>2, <3>1 DEF FromInput
      <4>2. Passes(x)
        BY <1>2, <2>1, <4>1, LinesOfFile DEF IsNGram
      <4> QED
        BY <1>11, <3>1, <3>3, <4>2
    <3> QED
      BY <3>2, <3>3
  <2>2. out' = out /\ input' = input
    BY <1>1
  <2> QED
    BY <1>8, <1>12, <2>1, <2>2 DEF Complete, Text, New
<1> QED
  BY <1>12, <1>13, <1>14, <1>15, <1>16 DEF TextInv

LEMMA FlushFrontKeepsTexts ==
  ASSUME IInv, IInv', TextInv, FlushFront
  PROVE  TextInv' /\ \E more \in Seq(Rows) : out' = out \o more
<1> DEFINE b == Head(ordering)
           New(c) == IF c \in ThroughFilter' THEN kept'[c] ELSE lines'[c]
<1>1. /\ FrontThere /\ out' = out \o kept[b] /\ kept' = [kept EXCEPT ![b] = <<>>]
      /\ UNCHANGED <<input, mpc, sec, read, local, sequence, toRead, toFilter, toWrite, wpc, wbatch,
                     ordering, base, numbered, lines>>
  BY DEF FlushFront, mainVars, workerVars
<1>2. /\ TextType /\ Reading /\ Buffers /\ Ordered /\ FromInput /\ Complete /\ TypeOK /\ Numbers
      /\ Given \subseteq Batches /\ input \in Inputs
      /\ \A c \in Batches : Text(c) \in Seq(Rows) /\ Elements(Text(c)) \subseteq Rows
      /\ out \in Seq(Rows)
  BY Places, TextPlaces DEF IInv, TextInv, TypeOK, TextType
<1>3. b \in In(ordering) /\ b \in ThroughFilter /\ b \in Given /\ b \in Batches /\ numbered[b] = base
  <2>1. ordering \in Seq(Batches \cup {Null}) /\ Once(ordering) /\ ordering # <<>> /\ b # Null
    BY <1>1, <1>2 DEF TypeOK, IInv, NoneTwice, FrontThere
  <2>2. b \in In(ordering)
    BY <2>1, Removed
  <2>3. Len(ordering) \in Nat \ {0} /\ b = ordering[1]
    BY <2>1, EmptySeq
  <2>4. numbered[b] = base + 1 - 1
    BY <1>2, <2>1, <2>3 DEF Numbers
  <2> QED
    BY <1>2, <2>2, <2>4 DEF ThroughFilter, Given, TypeOK
<1>4. Text(b) = kept[b] /\ kept[b] \in Seq(Rows)
  BY <1>2, <1>3 DEF Text, TextType
<1>5. /\ b = Head(ordering') /\ ThroughFilter' = ThroughFilter /\ Given' = Given
  BY <1>1 DEF ThroughFilter, Given, AtWork, Filling, Top
<1> HIDE DEF b, New
<1>6. /\ kept' \in [Batches -> Seq(Rows)] /\ kept'[b] = <<>>
      /\ \A c \in Batches : c # b => kept'[c] = kept[c]
  <2>1. kept \in [Batches -> Seq(Rows)] /\ <<>> \in Seq(Rows)
    BY <1>2, EmptySeq DEF TextType
  <2> QED
    BY <1>1, <1>3, <2>1
<1>7. New(b) = <<>> /\ \A c \in Batches : c # b => New(c) = Text(c)
  BY <1>1, <1>3, <1>5, <1>6 DEF Text, New
<1>8. /\ out' \in Seq(Rows) /\ InOrder(out') /\ Elements(out') = Elements(out) \cup Elements(Text(b))
  <2>1. InOrder(out) /\ InOrder(kept[b]) /\ AllBefore(out, kept[b])
    BY <1>2, <1>3, <1>4 DEF Ordered
  <2> QED
    BY <1>1, <1>2, <1>4, <2>1, Joined
<1>9. Reading' /\ \A x : Passed(x)' <=> Passed(x)
  BY <1>1, <1>2, ReadingStays
<1>10. TextType' /\ Buffers'
  <2>1. TextType'
    BY <1>1, <1>2, <1>6, <1>8 DEF TextType
  <2>2. Buffers'
    BY <1>2, <1>3, <1>5, <1>6 DEF Buffers, Batches
  <2> QED
    BY <2>1, <2>2
<1>11. Ordered'
  <2>1. ASSUME NEW c \in Given PROVE InOrder(New(c)) /\ AllBefore(out', New(c))
    <3>1. CASE c = b
      BY <1>7, <3>1, EmptyText
    <3>2. CASE c # b
      <4>1. New(c) = Text(c)
        BY <1>2, <1>7, <3>2
      <4>2. InOrder(Text(c)) /\ AllBefore(out, Text(c))
        BY <1>2 DEF Ordered
      <4>3. numbered[b] < numbered[c]
        <5>1. numbered[c] # base /\ numbered[c] >= base /\ numbered[c] \in Nat /\ base \in Nat
          BY <1>2, <1>3, <3>2 DEF Numbers, TypeOK
        <5> QED
          BY <1>3, <5>1
      <4>4. AllBefore(Text(b), Text(c))
        BY <1>2, <1>3, <4>3 DEF Ordered
      <4>5. AllBefore(out', Text(c))
        BY <1>8, <4>2, <4>4 DEF AllBefore
      <4> QED
        BY <4>1, <4>2, <4>5
    <3> QED
      BY <3>1, <3>2
  <2>2. ASSUME NEW c \in Given, NEW d \in Given, numbered[c] < numbered[d]
        PROVE  AllBefore(New(c), New(d))
    <3>1. CASE c = b \/ d = b
      BY <1>7, <3>1, EmptyText
    <3>2. CASE c # b /\ d # b
      <4>1. AllBefore(Text(c), Text(d)) /\ New(c) = Text(c) /\ New(d) = Text(d)
        BY <1>2, <1>7, <2>2, <3>2 DEF Ordered
      <4> QED
        BY <4>1
    <3> QED
      BY <3>1, <3>2
  <2>3. numbered' = numbered
    BY <1>1
  <2> QED
    BY <1>5, <1>8, <2>1, <2>2, <2>3 DEF Ordered, Text, New
<1>12. FromInput'
  <2>1. ASSUME NEW x \in Elements(out') PROVE x \in Sequential!Lines(input) /\ Passed(x)'
    <3>1. CASE x \in Elements(out)
      BY <1>2, <1>9, <3>1 DEF FromInput
    <3>2. CASE x \in Elements(Text(b))
      <4>1. IsNGram(x) /\ Passed(x) /\ Passes(x) /\ x \in Rows
        BY <1>2, <1>3, <1>4, <3>2 DEF FromInput
      <4>2. /\ x[1] \in 1..Len(input.sizes) /\ x[2] \in 1..input.sizes[x[1]]
            /\ input.sizes[x[1]] \in Nat
        BY <1>2, <4>1, LinesOfFile DEF IsNGram
      <4>3. x[2] \in 0..(input.sizes[x[1]] + 1)
        BY <4>2
      <4> QED
        BY <1>2, <1>9, <4>1, <4>2, <4>3, LinesOfFile
    <3> QED
      BY <1>8, <2>1, <3>1, <3>2
  <2>2. ASSUME NEW c \in Given, NEW x \in Elements(New(c)) PROVE IsNGram(x)' /\ Passed(x)'
    <3>1. c # b /\ x \in Elements(Text(c))
      BY <1>2, <1>7, <2>2, EmptyText
    <3>2. IsNGram(x) /\ Passed(x)
      BY <1>2, <3>1 DEF FromInput
    <3> QED
      BY <1>1, <1>9, <3>2 DEF IsNGram
  <2>3. ASSUME NEW c \in ThroughFilter, NEW x \in Elements(kept'[c]) PROVE Passes(x)
    <3>1. c \in Batches
      BY <1>2, TextPlaces
    <3>2. c # b
      BY <1>6, <2>3, EmptyText
    <3> QED
      BY <1>2, <1>6, <2>3, <3>1, <3>2 DEF FromInput
  <2>4. input' = input
    BY <1>1
  <2> QED
    BY <1>5, <2>1, <2>2, <2>3, <2>4 DEF FromInput, Text, New
<1>13. Complete'
  <2>1. ASSUME NEW x \in Sequential!Lines(input), Passed(x), x \notin Elements(out')
        PROVE  \E c \in Given : x \in Elements(New(c))
    <3>1. PICK c \in Given : x \in Elements(Text(c))
      BY <1>2, <1>8, <2>1 DEF Complete
    <3>2. c # b
      BY <1>8, <2>1, <3>1
    <3> QED
      BY <1>2, <1>7, <3>1, <3>2
  <2>2. input' = input
    BY <1>1
  <2> QED
    BY <1>5, <1>9, <2>1, <2>2 DEF Complete, Text, New
<1> QED
  BY <1>1, <1>4, <1>9, <1>10, <1>11, <1>12, <1>13 DEF TextInv, b

LEMMA InitTexts == IInv /\ Init => TextInv
<1> SUFFICES ASSUME IInv, Init PROVE TextInv
  OBVIOUS
<1>1. /\ mpc = "section" /\ sec = 0 /\ read = 0 /\ sequence = 1 /\ opc = "take" /\ out = <<>>
      /\ toFilter = <<>> /\ toRead = <<>> /\ toWrite = <<>> /\ ordering = <<>>
      /\ wpc = [w \in Workers |-> "take"] /\ wbatch = [w \in Workers |-> Null]
      /\ numbered = [b \in Batches |-> 0]
      /\ lines = [b \in Batches |-> <<>>] /\ kept = [b \in Batches |-> <<>>]
  BY DEF Init
<1>2. /\ In(toFilter) = {} /\ In(toWrite) = {} /\ In(ordering) = {} /\ In(toRead) = {} /\ AtWork = {}
  BY <1>1 DEF In, AtWork
<1>3. Filling /\ Top \in Batches /\ ThroughFilter = {} /\ Given = {Top} /\ In(local) = Batches
  <2>1. Filling
    BY <1>1 DEF Filling
  <2>2. ThroughFilter = {}
    BY <1>1, <1>2 DEF ThroughFilter
  <2> QED
    BY <1>2, <2>1, <2>2, Places DEF Given, IInv, NoneLost
<1>4. \A b \in Batches : lines[b] = <<>> /\ kept[b] = <<>> /\ Text(b) = <<>> /\ numbered[b] = 0
  BY <1>1 DEF Text
<1>5. TextType
  <2>1. <<>> \in Seq(Rows)
    BY EmptySeq
  <2> QED
    BY <1>1, <2>1 DEF TextType
<1>6. Reading
  BY <1>1, <1>3, <1>4 DEF Reading, InSection
<1>7. Buffers
  BY <1>1, <1>4 DEF Buffers
<1>8. Ordered
  BY <1>1, <1>3, <1>4, EmptyText DEF Ordered
<1>9. FromInput
  BY <1>1, <1>3, <1>4, EmptyText DEF FromInput
<1>10. Complete
  <2>1. ASSUME NEW x \in Sequential!Lines(input) PROVE ~Passed(x)
    <3>1. input \in Inputs
      BY DEF Init
    <3>2. x \in Rows /\ x[1] \in 1..Len(input.sizes) /\ Len(input.sizes) \in Nat
      BY <3>1, LinesOfFile
    <3> QED
      BY <1>1, <3>2 DEF Passed
  <2> QED
    BY <2>1 DEF Complete
<1> QED
  BY <1>5, <1>6, <1>7, <1>8, <1>9, <1>10 DEF TextInv

\* The output only grows.
LEMMA StepKeepsTexts ==
  ASSUME IInv, IInv', TextInv, [Next]_vars
  PROVE  TextInv' /\ input' = input /\ \E more \in Seq(Rows) : out' = out \o more
<1> DEFINE Grows == \E more \in Seq(Rows) : out' = out \o more
<1>1. ASSUME out' = out PROVE Grows
  <2>1. out \in Seq(Rows)
    BY DEF TextInv, TextType
  <2>2. out' = out \o <<>> /\ <<>> \in Seq(Rows)
    BY <1>1, <2>1, ConcatEmptySeq, EmptySeq
  <2> QED
    BY <2>2
<1> DEFINE Goal == TextInv' /\ input' = input /\ Grows
<1>2. CASE BeginLength
  <2>1. input' = input
    BY <1>2 DEF BeginLength
  <2> QED
    BY <1>2, <2>1, BeginLengthKeepsTexts
<1>3. CASE EndLength
  <2>1. input' = input
    BY <1>3 DEF EndLength
  <2> QED
    BY <1>3, <2>1, EndLengthKeepsTexts
<1>4. CASE FlushFront
  <2>1. input' = input
    BY <1>4 DEF FlushFront, mainVars
  <2> QED
    BY <1>4, <2>1, FlushFrontKeepsTexts
<1>5. CASE EndOfSection \/ Finish \/ PoisonFilter \/ JoinFilter \/ PoisonOutput \/ JoinOutput
  <2>1. input' = input /\ out' = out
    BY <1>5 DEF EndOfSection, Finish, PoisonFilter, JoinFilter, PoisonOutput, JoinOutput, CloseStep
  <2> QED
    BY <1>1, <1>5, <2>1, MainKeepsTexts
<1>6. CASE AddNGram \/ Send \/ MoveRead \/ Drain
  <2>1. input' = input /\ out' = out
    BY <1>6 DEF AddNGram, Send, MoveRead, Drain
  <2> QED
    BY <1>1, <1>6, <2>1, AddNGramKeepsTexts, SendKeepsTexts, MoveReadKeepsTexts, DrainKeepsTexts
<1>7. CASE TakeFiltered \/ ReturnFront
  <2>1. input' = input /\ out' = out
    BY <1>7 DEF TakeFiltered, ReturnFront, mainVars
  <2> QED
    BY <1>1, <1>7, <2>1, TakeFilteredKeepsTexts, ReturnFrontKeepsTexts
<1>8. CASE FlushEnds \/ UNCHANGED vars
  <2>1. input' = input /\ out' = out
    BY <1>8 DEF FlushEnds, mainVars, vars
  <2> QED
    BY <1>1, <1>8, <2>1, OutputKeepsTexts
<1>9. ASSUME NEW w \in Workers, WorkerStep(w) PROVE Goal
  <2>1. TakeBatch(w) \/ CallFilter(w) \/ PassOn(w)
    BY <1>9 DEF WorkerStep
  <2>2. input' = input /\ out' = out
    BY <2>1 DEF TakeBatch, CallFilter, PassOn, mainVars
  <2> QED
    BY <1>1, <2>1, <2>2, TakeBatchKeepsTexts, CallFilterKeepsTexts, PassOnKeepsTexts
<1>10. \/ BeginLength \/ EndLength \/ FlushFront
       \/ EndOfSection \/ Finish \/ PoisonFilter \/ JoinFilter \/ PoisonOutput \/ JoinOutput
       \/ AddNGram \/ Send \/ MoveRead \/ Drain
       \/ TakeFiltered \/ ReturnFront \/ FlushEnds \/ UNCHANGED vars
       \/ \E w \in Workers : WorkerStep(w)
  BY DEF Next, MainStep, OutputStep, Ended
<1> QED
  BY <1>2, <1>3, <1>4, <1>5, <1>6, <1>7, <1>8, <1>9, <1>10

-----------------------------------------------------------------------------
\* What the invariant says of the output alone: it is in order and leaves no
\* line out that comes before one it has.
WrittenInOrder ==
  /\ input \in Inputs /\ out \in Seq(Rows) /\ InOrder(out)
  /\ Elements(out) \subseteq Sequential!Lines(input)
  /\ \A y \in Elements(out), x \in Sequential!Lines(input) :
       Sequential!Precedes(x, y) => x \in Elements(out)

LEMMA NoLineLeftOut == IInv /\ TextInv => WrittenInOrder
<1> SUFFICES ASSUME IInv, TextInv PROVE WrittenInOrder
  OBVIOUS
<1>1. /\ TextType /\ Ordered /\ FromInput /\ Complete
      /\ Given \subseteq Batches /\ input \in Inputs /\ sec \in Nat /\ read \in Nat
      /\ Elements(out) \subseteq Rows
      /\ \A b \in Batches : Elements(Text(b)) \subseteq Rows
  BY Places, TextPlaces, PlaceInInput DEF TextInv
<1>2. ASSUME NEW y \in Elements(out), NEW x \in Sequential!Lines(input), Sequential!Precedes(x, y)
      PROVE  x \in Elements(out)
  <2>1. x \in Rows /\ y \in Rows /\ Passed(y)
    BY <1>1, LinesOfFile DEF FromInput
  <2>2. x[1] \in Nat /\ x[2] \in Nat /\ y[1] \in Nat /\ y[2] \in Nat
    BY <2>1, PlaceInInput
  <2>3. Passed(x)
    BY <1>1, <1>2, <2>1, <2>2 DEF Passed, Sequential!Precedes
  <2>4. ASSUME NEW b \in Given, x \in Elements(Text(b)) PROVE FALSE
    <3>1. Sequential!Precedes(y, x)
      BY <1>1, <2>4 DEF Ordered, AllBefore
    <3> QED
      BY <1>2, <2>1, <3>1, OrderOfRows
  <2> QED
    BY <1>1, <2>3, <2>4 DEF Complete
<1> QED
  BY <1>1, <1>2 DEF WrittenInOrder, TextType, Ordered, FromInput

\* Of what has been read, every line to be written is on the output or in a
\* batch, in its place: nothing is lost, doubled or overtaken on the way.
THEOREM TextsInPlace == Spec => []TextInv
<1>1. IInv /\ TextInv /\ IInv' /\ [Next]_vars => TextInv'
  BY StepKeepsTexts
<1> QED
  BY <1>1, InitTexts, Invariance, PTL DEF Spec

\* With any number of threads, of batches and of n-grams in a batch, and for
\* any file and filter, the output is at every moment a beginning of what one
\* thread would write, and only grows ("Assemble the output in order.").
THEOREM FilterImplementsSequential == Spec => Sequential!Safety
<1>1. Init => Sequential!Init
  BY DEF Init, Sequential!Init
<1>2. ASSUME IInv, IInv', TextInv, TextInv', WrittenInOrder', [Next]_vars
      PROVE  [Sequential!WriteSome]_<<input, out>>
  <2>1. input' = input /\ \E more \in Seq(Rows) : out' = out \o more
    BY <1>2, StepKeepsTexts
  <2>2. PICK more \in Seq(Rows) : out' = out \o more
    BY <2>1
  <2>3. input \in Inputs /\ out \in Seq(Rows)
    BY <1>2 DEF IInv, TypeOK, TextInv, TextType
  <2>4. /\ InOrder(out') /\ Elements(out') \subseteq Sequential!Lines(input)
        /\ \A y \in Elements(out'), x \in Sequential!Lines(input) :
             Sequential!Precedes(x, y) => x \in Elements(out')
    BY <1>2, <2>1 DEF WrittenInOrder
  <2> QED
    BY <2>1, <2>2, <2>3, <2>4, LongerBeginning
<1>3. IInv /\ IInv' /\ TextInv /\ TextInv' /\ WrittenInOrder' /\ [Next]_vars
        => [Sequential!WriteSome]_<<input, out>>
  BY <1>2
<1> QED
  BY <1>1, <1>3, Invariance, TextsInPlace, NoLineLeftOut, PTL DEF Spec, Sequential!Safety

-----------------------------------------------------------------------------
(* The queue: PCQueue, between the threads of the controller, for any       *)
(* number of producers and consumers and any size.                          *)
(* The inductive invariant.  Pointers that wrap around are related to the   *)
(* number of stored values without division: RingAt(d) is the slot d places *)
(* after consumeAt.                                                         *)

RingAt(d) == IF consumeAt + d < Size THEN consumeAt + d ELSE consumeAt + d - Size

\* A producer between its waits and its post carries a value.
HoldsValue == \A p \in Producers : ppc[p] \in {"write", "post"} => pval[p] \in Values

\* The two ends of the ring are as far apart as there are stored values.
EndsApart == produceAt = RingAt(Stored)

\* The slots from consumeAt on hold the values not yet read, in order.
Contents ==
  \A d \in 0..(Size - 1) :
    d < Stored => storage[RingAt(d)] = produced[Len(consumed) + d + 1]

QueueIInv ==
  /\ QueueTypeOK
  /\ HoldsValue
  /\ SlotsAccountedFor
  /\ ConsumedInOrder
  /\ EndsApart
  /\ Contents

-----------------------------------------------------------------------------
\* One thread moves from one place to another: one fewer there, one more here.
LEMMA OneMoves ==
  ASSUME NEW S, IsFiniteSet(S), NEW x, NEW A, NEW B, A \subseteq S, B \subseteq S,
         x \in A, x \notin B
  PROVE  /\ Cardinality(A \ {x}) = Cardinality(A) - 1
         /\ Cardinality(B \cup {x}) = Cardinality(B) + 1
BY FS_Subset, FS_RemoveElement, FS_AddElement

\* A set of threads of finitely many has a natural number of members, and some
\* if it is not empty.
LEMMA Counts ==
  ASSUME NEW S, IsFiniteSet(S), NEW T, T \subseteq S
  PROVE  Cardinality(T) \in Nat /\ (T # {} => Cardinality(T) > 0)
BY FS_Subset, FS_CardinalityType, FS_EmptySet

LEMMA PlacesCounted ==
  /\ \A s : Cardinality(ProducersAt(s)) \in Nat /\ Cardinality(ConsumersAt(s)) \in Nat
  /\ \A s : ProducersAt(s) # {} => Cardinality(ProducersAt(s)) > 0
  /\ \A s : ConsumersAt(s) # {} => Cardinality(ConsumersAt(s)) > 0
<1>1. IsFiniteSet(Producers) /\ IsFiniteSet(Consumers)
  BY QueueAssumption
<1>2. \A s : ProducersAt(s) \subseteq Producers /\ ConsumersAt(s) \subseteq Consumers
  BY DEF ProducersAt, ConsumersAt
<1> QED
  BY <1>1, <1>2, Counts

\* The ring holds between no and Size values; there is room for a producer
\* that may write, and a value for a consumer that may read.
LEMMA StoredBounds ==
  ASSUME QueueIInv
  PROVE  /\ Stored \in 0..Size
         /\ \A p \in Producers : ppc[p] = "write" => Stored < Size
         /\ \A k \in Consumers : kpc[k] = "read" => Stored > 0
<1>1. Stored \in Int /\ empty \in Nat /\ used \in Nat /\ Size \in Nat
  BY QueueAssumption, LenProperties DEF QueueIInv, QueueTypeOK, Stored
<1>2. SlotsAccountedFor
  BY DEF QueueIInv
<1>3. \A p \in Producers : ppc[p] = "write" => Cardinality(ProducersAt("write")) > 0
  BY PlacesCounted DEF ProducersAt
<1>4. \A k \in Consumers : kpc[k] = "read" => Cardinality(ConsumersAt("read")) > 0
  BY PlacesCounted DEF ConsumersAt
<1> DEFINE A == Cardinality(ProducersAt("write"))  B == Cardinality(ProducersAt("post"))
           C == Cardinality(ConsumersAt("read"))   D == Cardinality(ConsumersAt("post"))
<1>5. A \in Nat /\ B \in Nat /\ C \in Nat /\ D \in Nat
  BY PlacesCounted
<1>6. Size = empty + A + Stored + D /\ Stored = used + B + C
  BY <1>2 DEF SlotsAccountedFor
<1> HIDE DEF A, B, C, D
<1>7. Stored \in 0..Size /\ (A > 0 => Stored < Size) /\ (C > 0 => Stored > 0)
  BY <1>1, <1>5, <1>6
<1> QED
  BY <1>3, <1>4, <1>7 DEF A, C

-----------------------------------------------------------------------------
(* What the steps of a thread do to the counts. *)

LEMMA ProducerMoves ==
  ASSUME QueueTypeOK, NEW p \in Producers, NEW a, NEW b, NEW c, a # b, c \notin {a, b},
         ppc[p] = a, ppc' = [ppc EXCEPT ![p] = b]
  PROVE  /\ Cardinality(ProducersAt(a)') = Cardinality(ProducersAt(a)) - 1
         /\ Cardinality(ProducersAt(b)') = Cardinality(ProducersAt(b)) + 1
         /\ ProducersAt(c)' = ProducersAt(c)
<1>1. \A y \in Producers : ppc'[y] = IF y = p THEN b ELSE ppc[y]
  BY DEF QueueTypeOK
<1>2. IsFiniteSet(Producers)
  BY QueueAssumption
<1>3. /\ ProducersAt(a) \subseteq Producers /\ ProducersAt(b) \subseteq Producers
      /\ p \in ProducersAt(a) /\ p \notin ProducersAt(b)
  BY DEF ProducersAt
<1>4. /\ ProducersAt(a)' = ProducersAt(a) \ {p}
      /\ ProducersAt(b)' = ProducersAt(b) \cup {p}
      /\ ProducersAt(c)' = ProducersAt(c)
  BY <1>1 DEF ProducersAt
<1>5. /\ Cardinality(ProducersAt(a) \ {p}) = Cardinality(ProducersAt(a)) - 1
      /\ Cardinality(ProducersAt(b) \cup {p}) = Cardinality(ProducersAt(b)) + 1
  BY <1>2, <1>3, OneMoves
<1> QED
  BY <1>4, <1>5

LEMMA ConsumerMoves ==
  ASSUME QueueTypeOK, NEW k \in Consumers, NEW a, NEW b, NEW c, a # b, c \notin {a, b},
         kpc[k] = a, kpc' = [kpc EXCEPT ![k] = b]
  PROVE  /\ Cardinality(ConsumersAt(a)') = Cardinality(ConsumersAt(a)) - 1
         /\ Cardinality(ConsumersAt(b)') = Cardinality(ConsumersAt(b)) + 1
         /\ ConsumersAt(c)' = ConsumersAt(c)
<1>1. \A y \in Consumers : kpc'[y] = IF y = k THEN b ELSE kpc[y]
  BY DEF QueueTypeOK
<1>2. IsFiniteSet(Consumers)
  BY QueueAssumption
<1>3. /\ ConsumersAt(a) \subseteq Consumers /\ ConsumersAt(b) \subseteq Consumers
      /\ k \in ConsumersAt(a) /\ k \notin ConsumersAt(b)
  BY DEF ConsumersAt
<1>4. /\ ConsumersAt(a)' = ConsumersAt(a) \ {k}
      /\ ConsumersAt(b)' = ConsumersAt(b) \cup {k}
      /\ ConsumersAt(c)' = ConsumersAt(c)
  BY <1>1 DEF ConsumersAt
<1>5. /\ Cardinality(ConsumersAt(a) \ {k}) = Cardinality(ConsumersAt(a)) - 1
      /\ Cardinality(ConsumersAt(b) \cup {k}) = Cardinality(ConsumersAt(b)) + 1
  BY <1>2, <1>3, OneMoves
<1> QED
  BY <1>4, <1>5

\* Steps outside the two mutexes leave the ring alone.
LEMMA RingUnchanged ==
  ASSUME QueueIInv, UNCHANGED <<storage, produceAt, consumeAt, produced, consumed>>
  PROVE  ConsumedInOrder' /\ EndsApart' /\ Contents' /\ Stored' = Stored
<1>1. Stored' = Stored /\ \A d : RingAt(d)' = RingAt(d)
  BY DEF Stored, RingAt
<1>2. ConsumedInOrder'
  BY DEF QueueIInv, ConsumedInOrder
<1>3. EndsApart'
  BY <1>1 DEF QueueIInv, EndsApart
<1>4. Contents'
  BY <1>1 DEF QueueIInv, Contents
<1> QED
  BY <1>1, <1>2, <1>3, <1>4

-----------------------------------------------------------------------------
(* One lemma per action: the step keeps the invariant. *)

LEMMA InitQueue == QueueInit => QueueIInv
<1> SUFFICES ASSUME QueueInit PROVE QueueIInv
  OBVIOUS
<1> USE QueueAssumption DEF QueueInit
<1>1. QueueTypeOK /\ Stored = 0
  BY EmptySeq DEF QueueTypeOK, Slots, Stored
<1>2. HoldsValue /\ ConsumedInOrder /\ EndsApart /\ Contents
  BY <1>1 DEF HoldsValue, ConsumedInOrder, EndsApart, Contents, RingAt
<1>3. /\ ProducersAt("write") = {} /\ ProducersAt("post") = {}
      /\ ConsumersAt("read") = {} /\ ConsumersAt("post") = {}
  BY DEF ProducersAt, ConsumersAt
<1>4. /\ Cardinality(ProducersAt("write")) = 0 /\ Cardinality(ProducersAt("post")) = 0
      /\ Cardinality(ConsumersAt("read")) = 0 /\ Cardinality(ConsumersAt("post")) = 0
  BY <1>3, FS_EmptySet, Zenon
<1>5. SlotsAccountedFor
  BY <1>1, <1>4 DEF SlotsAccountedFor
<1> QED
  BY <1>1, <1>2, <1>5 DEF QueueIInv

LEMMA WaitEmptyStep ==
  ASSUME QueueIInv, NEW p \in Producers, NEW v \in Values, WaitEmpty(p, v)
  PROVE  QueueIInv'
<1> USE DEF WaitEmpty
<1>1. QueueTypeOK
  BY DEF QueueIInv
<1>2. ConsumedInOrder' /\ EndsApart' /\ Contents' /\ Stored' = Stored
  BY RingUnchanged
<1>3. QueueTypeOK' /\ HoldsValue'
  BY DEF QueueIInv, QueueTypeOK, HoldsValue, consumerVars
<1>4. /\ Cardinality(ProducersAt("write")') = Cardinality(ProducersAt("write")) + 1
      /\ ProducersAt("post")' = ProducersAt("post")
  <2>1. /\ ppc[p] = "idle" /\ ppc' = [ppc EXCEPT ![p] = "write"]
        /\ "idle" # "write" /\ "post" \notin {"idle", "write"}
    OBVIOUS
  <2> QED
    BY <1>1, <2>1, ProducerMoves, Zenon
<1>5. ConsumersAt("read")' = ConsumersAt("read") /\ ConsumersAt("post")' = ConsumersAt("post")
  BY DEF ConsumersAt, consumerVars
<1>6. SlotsAccountedFor'
  <2>1. /\ Cardinality(ProducersAt("write")) \in Nat /\ Cardinality(ProducersAt("post")) \in Nat
        /\ Cardinality(ConsumersAt("read")) \in Nat /\ Cardinality(ConsumersAt("post")) \in Nat
    BY PlacesCounted
  <2>2. Stored \in Int /\ empty \in Nat /\ used \in Nat /\ Size \in Nat
    BY <1>1, StoredBounds, QueueAssumption DEF QueueTypeOK
  <2>3. SlotsAccountedFor
    BY DEF QueueIInv
  <2> QED
    BY <1>2, <1>4, <1>5, <2>1, <2>2, <2>3 DEF SlotsAccountedFor
<1> QED
  BY <1>2, <1>3, <1>6 DEF QueueIInv

LEMMA WriteThrowsStep ==
  ASSUME QueueIInv, NEW p \in Producers, WriteThrows(p)
  PROVE  QueueIInv'
<1> USE DEF WriteThrows
<1>1. QueueTypeOK
  BY DEF QueueIInv
<1>2. ConsumedInOrder' /\ EndsApart' /\ Contents' /\ Stored' = Stored
  BY RingUnchanged
<1>3. QueueTypeOK' /\ HoldsValue'
  BY DEF QueueIInv, QueueTypeOK, HoldsValue, consumerVars
<1>4. /\ Cardinality(ProducersAt("write")') = Cardinality(ProducersAt("write")) - 1
      /\ ProducersAt("post")' = ProducersAt("post")
  <2>1. /\ ppc[p] = "write" /\ ppc' = [ppc EXCEPT ![p] = "idle"]
        /\ "write" # "idle" /\ "post" \notin {"write", "idle"}
    OBVIOUS
  <2> QED
    BY <1>1, <2>1, ProducerMoves, Zenon
<1>5. ConsumersAt("read")' = ConsumersAt("read") /\ ConsumersAt("post")' = ConsumersAt("post")
  BY DEF ConsumersAt, consumerVars
<1>6. SlotsAccountedFor'
  <2>1. /\ Cardinality(ProducersAt("write")) \in Nat /\ Cardinality(ProducersAt("post")) \in Nat
        /\ Cardinality(ConsumersAt("read")) \in Nat /\ Cardinality(ConsumersAt("post")) \in Nat
    BY PlacesCounted
  <2>2. Stored \in Int /\ empty \in Nat /\ used \in Nat /\ Size \in Nat
    BY <1>1, StoredBounds, QueueAssumption DEF QueueTypeOK
  <2>3. SlotsAccountedFor
    BY DEF QueueIInv
  <2> QED
    BY <1>2, <1>4, <1>5, <2>1, <2>2, <2>3 DEF SlotsAccountedFor
<1> QED
  BY <1>2, <1>3, <1>6 DEF QueueIInv

LEMMA PostUsedStep ==
  ASSUME QueueIInv, NEW p \in Producers, PostUsed(p)
  PROVE  QueueIInv'
<1> USE DEF PostUsed
<1>1. QueueTypeOK
  BY DEF QueueIInv
<1>2. ConsumedInOrder' /\ EndsApart' /\ Contents' /\ Stored' = Stored
  BY RingUnchanged
<1>3. QueueTypeOK' /\ HoldsValue'
  BY DEF QueueIInv, QueueTypeOK, HoldsValue, consumerVars
<1>4. /\ Cardinality(ProducersAt("post")') = Cardinality(ProducersAt("post")) - 1
      /\ ProducersAt("write")' = ProducersAt("write")
  <2>1. /\ ppc[p] = "post" /\ ppc' = [ppc EXCEPT ![p] = "idle"]
        /\ "post" # "idle" /\ "write" \notin {"post", "idle"}
    OBVIOUS
  <2> QED
    BY <1>1, <2>1, ProducerMoves, Zenon
<1>5. ConsumersAt("read")' = ConsumersAt("read") /\ ConsumersAt("post")' = ConsumersAt("post")
  BY DEF ConsumersAt, consumerVars
<1>6. SlotsAccountedFor'
  <2>1. /\ Cardinality(ProducersAt("write")) \in Nat /\ Cardinality(ProducersAt("post")) \in Nat
        /\ Cardinality(ConsumersAt("read")) \in Nat /\ Cardinality(ConsumersAt("post")) \in Nat
    BY PlacesCounted
  <2>2. Stored \in Int /\ empty \in Nat /\ used \in Nat /\ Size \in Nat
    BY <1>1, StoredBounds, QueueAssumption DEF QueueTypeOK
  <2>3. SlotsAccountedFor
    BY DEF QueueIInv
  <2> QED
    BY <1>2, <1>4, <1>5, <2>1, <2>2, <2>3 DEF SlotsAccountedFor
<1> QED
  BY <1>2, <1>3, <1>6 DEF QueueIInv

LEMMA WaitUsedStep ==
  ASSUME QueueIInv, NEW k \in Consumers, WaitUsed(k)
  PROVE  QueueIInv'
<1> USE DEF WaitUsed
<1>1. QueueTypeOK
  BY DEF QueueIInv
<1>2. ConsumedInOrder' /\ EndsApart' /\ Contents' /\ Stored' = Stored
  BY RingUnchanged
<1>3. QueueTypeOK' /\ HoldsValue'
  BY DEF QueueIInv, QueueTypeOK, HoldsValue, producerVars
<1>4. /\ Cardinality(ConsumersAt("read")') = Cardinality(ConsumersAt("read")) + 1
      /\ ConsumersAt("post")' = ConsumersAt("post")
  <2>1. /\ kpc[k] = "idle" /\ kpc' = [kpc EXCEPT ![k] = "read"]
        /\ "idle" # "read" /\ "post" \notin {"idle", "read"}
    OBVIOUS
  <2> QED
    BY <1>1, <2>1, ConsumerMoves, Zenon
<1>5. ProducersAt("write")' = ProducersAt("write") /\ ProducersAt("post")' = ProducersAt("post")
  BY DEF ProducersAt, producerVars
<1>6. SlotsAccountedFor'
  <2>1. /\ Cardinality(ProducersAt("write")) \in Nat /\ Cardinality(ProducersAt("post")) \in Nat
        /\ Cardinality(ConsumersAt("read")) \in Nat /\ Cardinality(ConsumersAt("post")) \in Nat
    BY PlacesCounted
  <2>2. Stored \in Int /\ empty \in Nat /\ used \in Nat /\ Size \in Nat
    BY <1>1, StoredBounds, QueueAssumption DEF QueueTypeOK
  <2>3. SlotsAccountedFor
    BY DEF QueueIInv
  <2> QED
    BY <1>2, <1>4, <1>5, <2>1, <2>2, <2>3 DEF SlotsAccountedFor
<1> QED
  BY <1>2, <1>3, <1>6 DEF QueueIInv

LEMMA ReadThrowsStep ==
  ASSUME QueueIInv, NEW k \in Consumers, ReadThrows(k)
  PROVE  QueueIInv'
<1> USE DEF ReadThrows
<1>1. QueueTypeOK
  BY DEF QueueIInv
<1>2. ConsumedInOrder' /\ EndsApart' /\ Contents' /\ Stored' = Stored
  BY RingUnchanged
<1>3. QueueTypeOK' /\ HoldsValue'
  BY DEF QueueIInv, QueueTypeOK, HoldsValue, producerVars
<1>4. /\ Cardinality(ConsumersAt("read")') = Cardinality(ConsumersAt("read")) - 1
      /\ ConsumersAt("post")' = ConsumersAt("post")
  <2>1. /\ kpc[k] = "read" /\ kpc' = [kpc EXCEPT ![k] = "idle"]
        /\ "read" # "idle" /\ "post" \notin {"read", "idle"}
    OBVIOUS
  <2> QED
    BY <1>1, <2>1, ConsumerMoves, Zenon
<1>5. ProducersAt("write")' = ProducersAt("write") /\ ProducersAt("post")' = ProducersAt("post")
  BY DEF ProducersAt, producerVars
<1>6. SlotsAccountedFor'
  <2>1. /\ Cardinality(ProducersAt("write")) \in Nat /\ Cardinality(ProducersAt("post")) \in Nat
        /\ Cardinality(ConsumersAt("read")) \in Nat /\ Cardinality(ConsumersAt("post")) \in Nat
    BY PlacesCounted
  <2>2. Stored \in Int /\ empty \in Nat /\ used \in Nat /\ Size \in Nat
    BY <1>1, StoredBounds, QueueAssumption DEF QueueTypeOK
  <2>3. SlotsAccountedFor
    BY DEF QueueIInv
  <2> QED
    BY <1>2, <1>4, <1>5, <2>1, <2>2, <2>3 DEF SlotsAccountedFor
<1> QED
  BY <1>2, <1>3, <1>6 DEF QueueIInv

LEMMA PostEmptyStep ==
  ASSUME QueueIInv, NEW k \in Consumers, PostEmpty(k)
  PROVE  QueueIInv'
<1> USE DEF PostEmpty
<1>1. QueueTypeOK
  BY DEF QueueIInv
<1>2. ConsumedInOrder' /\ EndsApart' /\ Contents' /\ Stored' = Stored
  BY RingUnchanged
<1>3. QueueTypeOK' /\ HoldsValue'
  BY DEF QueueIInv, QueueTypeOK, HoldsValue, producerVars
<1>4. /\ Cardinality(ConsumersAt("post")') = Cardinality(ConsumersAt("post")) - 1
      /\ ConsumersAt("read")' = ConsumersAt("read")
  <2>1. /\ kpc[k] = "post" /\ kpc' = [kpc EXCEPT ![k] = "idle"]
        /\ "post" # "idle" /\ "read" \notin {"post", "idle"}
    OBVIOUS
  <2> QED
    BY <1>1, <2>1, ConsumerMoves, Zenon
<1>5. ProducersAt("write")' = ProducersAt("write") /\ ProducersAt("post")' = ProducersAt("post")
  BY DEF ProducersAt, producerVars
<1>6. SlotsAccountedFor'
  <2>1. /\ Cardinality(ProducersAt("write")) \in Nat /\ Cardinality(ProducersAt("post")) \in Nat
        /\ Cardinality(ConsumersAt("read")) \in Nat /\ Cardinality(ConsumersAt("post")) \in Nat
    BY PlacesCounted
  <2>2. Stored \in Int /\ empty \in Nat /\ used \in Nat /\ Size \in Nat
    BY <1>1, StoredBounds, QueueAssumption DEF QueueTypeOK
  <2>3. SlotsAccountedFor
    BY DEF QueueIInv
  <2> QED
    BY <1>2, <1>4, <1>5, <2>1, <2>2, <2>3 DEF SlotsAccountedFor
<1> QED
  BY <1>2, <1>3, <1>6 DEF QueueIInv

\* What a producer writes is put behind the last stored value.
LEMMA WriteStep ==
  ASSUME QueueIInv, NEW p \in Producers, Write(p)
  PROVE  QueueIInv'
<1> USE DEF Write
<1>1. QueueTypeOK /\ Size \in Nat \ {0}
  BY QueueAssumption DEF QueueIInv
<1>2. Stored \in 0..(Size - 1) /\ pval[p] \in Values
  BY <1>1, StoredBounds DEF QueueIInv, HoldsValue
<1>3. /\ Len(produced) \in Nat /\ Len(consumed) \in Nat
      /\ Len(produced') = Len(produced) + 1
      /\ produced'[Len(produced) + 1] = pval[p]
      /\ \A i \in 1..Len(produced) : produced'[i] = produced[i]
  BY <1>1, <1>2, AppendProperties, LenProperties DEF QueueTypeOK
<1>4. Stored' = Stored + 1 /\ Stored = Len(produced) - Len(consumed)
  BY <1>3 DEF Stored
<1>5. QueueTypeOK'
  BY <1>1, <1>2, AppendProperties DEF QueueTypeOK, Slots, Advance, consumerVars
<1>6. HoldsValue'
  BY DEF QueueIInv, QueueTypeOK, HoldsValue
<1>7. ConsumedInOrder'
  BY <1>3 DEF QueueIInv, ConsumedInOrder
<1>8. SlotsAccountedFor'
  <2>1. /\ ppc[p] = "write" /\ ppc' = [ppc EXCEPT ![p] = "post"]
        /\ "write" # "post" /\ "idle" \notin {"write", "post"}
    OBVIOUS
  <2>2. /\ Cardinality(ProducersAt("write")') = Cardinality(ProducersAt("write")) - 1
        /\ Cardinality(ProducersAt("post")') = Cardinality(ProducersAt("post")) + 1
    BY <1>1, <2>1, ProducerMoves, Zenon
  <2>3. ConsumersAt("read")' = ConsumersAt("read") /\ ConsumersAt("post")' = ConsumersAt("post")
    BY DEF ConsumersAt, consumerVars
  <2>4. /\ Cardinality(ProducersAt("write")) \in Nat /\ Cardinality(ProducersAt("post")) \in Nat
        /\ Cardinality(ConsumersAt("read")) \in Nat /\ Cardinality(ConsumersAt("post")) \in Nat
    BY PlacesCounted
  <2>5. empty \in Nat /\ used \in Nat /\ SlotsAccountedFor
    BY DEF QueueIInv, QueueTypeOK
  <2>6. Stored \in Int /\ Size \in Nat /\ empty' = empty /\ used' = used
    BY <1>1, <1>2
  <2> HIDE DEF Write
  <2>7. Size = empty' + Cardinality(ProducersAt("write")') + Stored' + Cardinality(ConsumersAt("post")')
    BY <1>4, <2>2, <2>3, <2>4, <2>5, <2>6, SMTT(30) DEF SlotsAccountedFor
  <2>8. Stored = used + Cardinality(ProducersAt("post")) + Cardinality(ConsumersAt("read"))
    BY <2>5 DEF SlotsAccountedFor
  <2>9. Stored' = Stored + 1 /\ used \in Nat
    BY <1>4, <2>5
  <2>10. Stored' = used' + Cardinality(ProducersAt("post")') + Cardinality(ConsumersAt("read")')
    BY <2>2, <2>3, <2>4, <2>6, <2>8, <2>9
  <2> QED
    BY <2>7, <2>10 DEF SlotsAccountedFor
<1>9. EndsApart'
  <2>1. produceAt = RingAt(Stored) /\ consumeAt \in 0..(Size - 1)
    BY DEF QueueIInv, EndsApart, QueueTypeOK, Slots
  <2>2. RingAt(Stored)' = RingAt(Stored + 1)
    BY <1>4 DEF RingAt
  <2>3. Advance(RingAt(Stored)) = RingAt(Stored + 1)
    BY <1>1, <1>2, <2>1 DEF RingAt, Advance
  <2> QED
    BY <2>1, <2>2, <2>3 DEF EndsApart
<1>10. Contents'
  <2> SUFFICES ASSUME NEW d \in 0..(Size - 1), d < Stored + 1
               PROVE  storage'[RingAt(d)] = produced'[Len(consumed) + d + 1]
    BY <1>4 DEF Contents, RingAt
  <2>1. produceAt = RingAt(Stored) /\ consumeAt \in 0..(Size - 1)
    BY DEF QueueIInv, EndsApart, QueueTypeOK, Slots
  <2>2. RingAt(d) \in Slots /\ RingAt(Stored) \in Slots
    BY <1>1, <1>2, <2>1 DEF RingAt, Slots
  <2>3. CASE d = Stored
    BY <1>1, <1>3, <1>4, <2>1, <2>2, <2>3 DEF QueueTypeOK
  <2>4. CASE d < Stored
    <3>1. RingAt(d) # RingAt(Stored)
      BY <1>1, <1>2, <2>1, <2>4 DEF RingAt
    <3>2. storage'[RingAt(d)] = storage[RingAt(d)]
      BY <1>1, <2>1, <2>2, <3>1 DEF QueueTypeOK
    <3>3. storage[RingAt(d)] = produced[Len(consumed) + d + 1]
      BY <2>4 DEF QueueIInv, Contents
    <3>4. Len(consumed) + d + 1 \in 1..Len(produced)
      BY <1>2, <1>3, <1>4, <2>4
    <3> QED
      BY <1>3, <3>2, <3>3, <3>4
  <2>5. d = Stored \/ d < Stored
    BY <1>1, <1>2
  <2> QED
    BY <2>3, <2>4, <2>5
<1> QED
  BY <1>5, <1>6, <1>7, <1>8, <1>9, <1>10 DEF QueueIInv

\* What a consumer reads is the first stored value, and the ring turns.
LEMMA ReadStep ==
  ASSUME QueueIInv, NEW k \in Consumers, Read(k)
  PROVE  QueueIInv' /\ storage[consumeAt] = produced[Len(consumed) + 1] /\ Stored > 0
<1> USE DEF Read
<1>1. QueueTypeOK /\ Size \in Nat \ {0} /\ consumeAt \in 0..(Size - 1)
  BY QueueAssumption DEF QueueIInv, QueueTypeOK, Slots
<1>2. Stored \in 1..Size
  BY <1>1, StoredBounds
<1>3. Len(produced) \in Nat /\ Len(consumed) \in Nat /\ Stored = Len(produced) - Len(consumed)
  BY <1>1, LenProperties DEF QueueTypeOK, Stored
<1>4. storage[consumeAt] = produced[Len(consumed) + 1]
  <2>1. RingAt(0) = consumeAt
    BY <1>1 DEF RingAt
  <2>2. storage[RingAt(0)] = produced[Len(consumed) + 0 + 1]
    BY <1>1, <1>2 DEF QueueIInv, Contents
  <2> QED
    BY <1>3, <2>1, <2>2
<1>5. /\ Len(consumed') = Len(consumed) + 1
      /\ consumed'[Len(consumed) + 1] = produced[Len(consumed) + 1]
      /\ \A i \in 1..Len(consumed) : consumed'[i] = consumed[i]
  BY <1>1, <1>4, AppendProperties DEF QueueTypeOK, Slots
<1>6. Stored' = Stored - 1
  BY <1>3, <1>5 DEF Stored
<1>7. QueueTypeOK'
  BY <1>1, AppendProperties DEF QueueTypeOK, Slots, Advance, producerVars
<1>8. HoldsValue'
  BY DEF QueueIInv, HoldsValue, producerVars
<1>9. ConsumedInOrder'
  BY <1>2, <1>3, <1>5 DEF QueueIInv, ConsumedInOrder
<1>10. SlotsAccountedFor'
  <2>1. /\ kpc[k] = "read" /\ kpc' = [kpc EXCEPT ![k] = "post"]
        /\ "read" # "post" /\ "idle" \notin {"read", "post"}
    OBVIOUS
  <2>2. /\ Cardinality(ConsumersAt("read")') = Cardinality(ConsumersAt("read")) - 1
        /\ Cardinality(ConsumersAt("post")') = Cardinality(ConsumersAt("post")) + 1
    BY <1>1, <2>1, ConsumerMoves, Zenon
  <2>3. ProducersAt("write")' = ProducersAt("write") /\ ProducersAt("post")' = ProducersAt("post")
    BY DEF ProducersAt, producerVars
  <2>4. /\ Cardinality(ProducersAt("write")) \in Nat /\ Cardinality(ProducersAt("post")) \in Nat
        /\ Cardinality(ConsumersAt("read")) \in Nat /\ Cardinality(ConsumersAt("post")) \in Nat
    BY PlacesCounted
  <2>5. empty \in Nat /\ used \in Nat /\ SlotsAccountedFor
    BY DEF QueueIInv, QueueTypeOK
  <2>6. Stored \in Int /\ Size \in Nat /\ empty' = empty /\ used' = used
    BY <1>1, <1>2
  <2> HIDE DEF Read
  <2> QED
    BY <1>6, <2>2, <2>3, <2>4, <2>5, <2>6 DEF SlotsAccountedFor
<1>11. \A d \in 0..(Size - 1) : d + 1 <= Size => RingAt(d)' = RingAt(d + 1)
  BY <1>1 DEF RingAt, Advance
<1>12. EndsApart'
  <2>1. produceAt = RingAt(Stored)
    BY DEF QueueIInv, EndsApart
  <2> QED
    BY <1>1, <1>2, <1>6, <1>11, <2>1 DEF EndsApart
<1>13. Contents'
  <2> SUFFICES ASSUME NEW d \in 0..(Size - 1), d < Stored - 1
               PROVE  storage[RingAt(d)'] = produced[Len(consumed') + d + 1]
    BY <1>6 DEF Contents
  <2>1. d + 1 \in 0..(Size - 1) /\ d + 1 < Stored
    BY <1>1, <1>2
  <2>2. storage[RingAt(d + 1)] = produced[Len(consumed) + (d + 1) + 1]
    BY <2>1 DEF QueueIInv, Contents
  <2>3. RingAt(d)' = RingAt(d + 1)
    BY <1>1, <1>11, <2>1
  <2>4. Len(consumed') + d + 1 = Len(consumed) + (d + 1) + 1
    BY <1>3, <1>5
  <2> QED
    BY <2>2, <2>3, <2>4
<1> QED
  BY <1>2, <1>4, <1>7, <1>8, <1>9, <1>10, <1>12, <1>13 DEF QueueIInv

LEMMA QueueNextIInv == QueueIInv /\ [QueueNext]_queueVars => QueueIInv'
<1> SUFFICES ASSUME QueueIInv, [QueueNext]_queueVars PROVE QueueIInv'
  OBVIOUS
<1>1. CASE UNCHANGED queueVars
  BY <1>1 DEF QueueIInv, QueueTypeOK, HoldsValue, SlotsAccountedFor, ConsumedInOrder, EndsApart, Contents,
              Stored, RingAt, ProducersAt, ConsumersAt, queueVars, producerVars, consumerVars
<1>2. ASSUME NEW p \in Producers,
             ProducerStep(p) \/ WriteThrows(p) \/ \E v \in Values : WaitEmpty(p, v)
      PROVE  QueueIInv'
  BY <1>2, WriteStep, PostUsedStep, WriteThrowsStep, WaitEmptyStep DEF ProducerStep
<1>3. ASSUME NEW k \in Consumers, ConsumerStep(k) \/ ReadThrows(k)
      PROVE  QueueIInv'
  BY <1>3, WaitUsedStep, ReadStep, PostEmptyStep, ReadThrowsStep DEF ConsumerStep
<1>4. CASE NothingToDo
  BY <1>1, <1>4 DEF NothingToDo
<1> QED
  BY <1>1, <1>2, <1>3, <1>4 DEF QueueNext

-----------------------------------------------------------------------------
(* The queue as a buffer. *)

\* The unread values, as a sequence.
LEMMA UnreadIs ==
  ASSUME QueueTypeOK, ConsumedInOrder
  PROVE  /\ Unread \in Seq(Values) /\ Len(Unread) = Stored
         /\ \A i \in 1..Stored : Unread[i] = produced[Len(consumed) + i]
<1>1. /\ Len(produced) \in Nat /\ Len(consumed) \in Nat /\ Len(consumed) <= Len(produced)
      /\ produced \in [1..Len(produced) -> Values]
  BY LenProperties DEF QueueTypeOK, ConsumedInOrder
<1> DEFINE m == Len(consumed) + 1  n == Len(produced)
<1>2. m \in Int /\ n \in Int /\ \A i \in m..n : produced[i] \in Values
  BY <1>1
<1>3. /\ SubSeq(produced, m, n) \in Seq(Values)
      /\ Len(SubSeq(produced, m, n)) = IF m <= n THEN n - m + 1 ELSE 0
      /\ \A i \in 1..(n - m + 1) : SubSeq(produced, m, n)[i] = produced[m + i - 1]
  <2> HIDE DEF m, n
  <2> QED
    BY <1>2, SubSeqProperties
<1> QED
  BY <1>1, <1>3 DEF Unread, Stored

\* Writing puts a value into the buffer: the buffer before and after agree on
\* what was there, and the value is the last one.
LEMMA WriteIsPut ==
  ASSUME QueueIInv, QueueIInv', NEW p \in Producers, Write(p)
  PROVE  Buffer!Put
<1>1. /\ Size \in Nat /\ Stored \in Nat /\ Stored < Size /\ pval[p] \in Values
  BY StoredBounds, QueueAssumption DEF QueueIInv, HoldsValue, Write
<1>2. /\ produced' = Append(produced, pval[p]) /\ consumed' = consumed
      /\ produced \in Seq(Values)
      /\ Len(produced) \in Nat /\ Len(consumed) \in Nat
  BY LenProperties DEF Write, QueueIInv, QueueTypeOK
<1>3. /\ Unread \in Seq(Values) /\ Len(Unread) = Stored
      /\ \A i \in 1..Stored : Unread[i] = produced[Len(consumed) + i]
  BY UnreadIs DEF QueueIInv
<1>4. /\ Unread' \in Seq(Values) /\ Len(Unread') = Stored'
      /\ \A i \in 1..Stored' : Unread'[i] = produced'[Len(consumed') + i]
  <2>1. QueueTypeOK' /\ ConsumedInOrder'
    BY DEF QueueIInv
  <2>2. (QueueTypeOK /\ ConsumedInOrder =>
          /\ Unread \in Seq(Values) /\ Len(Unread) = Stored
          /\ \A i \in 1..Stored : Unread[i] = produced[Len(consumed) + i])'
    BY UnreadIs, PTL
  <2> QED
    BY <2>1, <2>2
<1>5. /\ Len(produced') = Len(produced) + 1 /\ produced'[Len(produced) + 1] = pval[p]
      /\ \A i \in 1..Len(produced) : produced'[i] = produced[i]
  BY <1>1, <1>2, AppendProperties
<1>6. Stored' = Stored + 1 /\ Stored = Len(produced) - Len(consumed)
  BY <1>2, <1>5 DEF Stored
<1>7. Unread' = Append(Unread, pval[p])
  <2>1. /\ Append(Unread, pval[p]) \in Seq(Values)
        /\ Len(Append(Unread, pval[p])) = Stored + 1
        /\ Append(Unread, pval[p])[Stored + 1] = pval[p]
        /\ \A i \in 1..Stored : Append(Unread, pval[p])[i] = Unread[i]
    BY <1>1, <1>3, AppendProperties
  <2>2. ASSUME NEW i \in 1..(Stored + 1)
        PROVE  Unread'[i] = Append(Unread, pval[p])[i]
    <3>1. Unread'[i] = produced'[Len(consumed) + i] /\ (i = Stored + 1 \/ i \in 1..Stored)
      <4>1. i \in 1..Stored' /\ (i = Stored + 1 \/ i \in 1..Stored)
        BY <1>1, <1>6
      <4>2. Unread'[i] = produced'[Len(consumed') + i]
        BY <1>4, <4>1
      <4> QED
        BY <1>2, <4>1, <4>2
    <3>2. CASE i = Stored + 1
      <4>1. Len(consumed) + i = Len(produced) + 1
        BY <1>2, <1>6, <3>1, <3>2
      <4> QED
        BY <1>5, <2>1, <3>1, <3>2, <4>1
    <3>3. CASE i \in 1..Stored
      <4>1. Len(consumed) + i \in 1..Len(produced)
        BY <1>2, <1>6, <3>1, <3>3
      <4> QED
        BY <1>3, <1>5, <2>1, <3>1, <3>3, <4>1
    <3> QED
      BY <3>1, <3>2, <3>3
  <2> QED
    BY <1>4, <1>6, <2>1, <2>2, SeqEqual
<1> QED
  BY <1>1, <1>3, <1>7 DEF Buffer!Put

\* Reading takes the first value out of the buffer.
LEMMA ReadIsGet ==
  ASSUME QueueIInv, NEW k \in Consumers, Read(k)
  PROVE  Buffer!Get
<1>1. Stored > 0 /\ Stored \in Nat
  BY StoredBounds, QueueAssumption DEF QueueIInv, Read
<1>2. /\ produced' = produced /\ produced \in Seq(Values)
      /\ Len(produced) \in Nat /\ Len(consumed) \in Nat
      /\ Len(consumed') = Len(consumed) + 1
  <2>1. storage[consumeAt] \in Values \cup {Nothing} /\ consumed \in Seq(Values \cup {Nothing})
    BY DEF QueueIInv, QueueTypeOK
  <2> QED
    BY <2>1, LenProperties, AppendProperties DEF QueueIInv, QueueTypeOK, Read
<1>3. Len(consumed) + 1 \in 1..Len(produced) /\ Len(produced) \in (Len(consumed) + 1)..Len(produced)
  BY <1>1, <1>2 DEF Stored
<1>4. Unread' = Tail(Unread)
  <2>1. Tail(SubSeq(produced, Len(consumed) + 1, Len(produced)))
          = SubSeq(produced, (Len(consumed) + 1) + 1, Len(produced))
    BY <1>2, <1>3, HeadTailOfSubSeq
  <2> QED
    BY <1>2, <2>1 DEF Unread
<1>5. Unread # <<>>
  BY <1>1, UnreadIs, EmptySeq DEF QueueIInv
<1> QED
  BY <1>4, <1>5 DEF Buffer!Get

-----------------------------------------------------------------------------
THEOREM QueueInvariance == QueueSpec => []QueueIInv
BY InitQueue, QueueNextIInv, PTL DEF QueueSpec

\* The types of the queue: the two ends never leave the array.
THEOREM QueueTypeCorrect == QueueSpec => []QueueTypeOK
<1>1. QueueIInv => QueueTypeOK
  BY DEF QueueIInv
<1> QED
  BY <1>1, QueueInvariance, PTL

\* The semaphores account for every slot, with any number of threads between
\* their waits and posts.
THEOREM SlotsAreAccountedFor == QueueSpec => []SlotsAccountedFor
<1>1. QueueIInv => SlotsAccountedFor
  BY DEF QueueIInv
<1> QED
  BY <1>1, QueueInvariance, PTL

\* What is read is what was written, in order: nothing is overwritten before it
\* is read, nor read before it is written, nor read twice.
THEOREM NothingLostOrRepeated == QueueSpec => []ConsumedInOrder
<1>1. QueueIInv => ConsumedInOrder
  BY DEF QueueIInv
<1> QED
  BY <1>1, QueueInvariance, PTL

\* The ring with its semaphores implements a bounded first-in first-out buffer.
THEOREM ImplementsBoundedBuffer == QueueSpec => ImplementsBuffer
<1>1. QueueInit => Buffer!Init
  BY SubSeqEmpty DEF QueueInit, Buffer!Init, Unread
<1>2. ASSUME QueueIInv, QueueIInv', [QueueNext]_queueVars
      PROVE  [Buffer!Put \/ Buffer!Get]_Unread
  <2>1. CASE UNCHANGED <<produced, consumed>>
    BY <2>1 DEF Unread
  <2>2. ASSUME NEW p \in Producers, Write(p) PROVE Buffer!Put
    BY <1>2, <2>2, WriteIsPut
  <2>3. ASSUME NEW k \in Consumers, Read(k) PROVE Buffer!Get
    BY <1>2, <2>3, ReadIsGet
  <2>4. \/ UNCHANGED <<produced, consumed>>
        \/ \E p \in Producers : Write(p)
        \/ \E k \in Consumers : Read(k)
    BY <1>2 DEF QueueNext, queueVars, NothingToDo, ProducerStep, ConsumerStep, WriteThrows, WaitEmpty,
                PostUsed, WaitUsed, ReadThrows, PostEmpty
  <2> QED
    BY <2>1, <2>2, <2>3, <2>4
<1> QED
  BY <1>1, <1>2, QueueInvariance, PTL DEF QueueSpec, Buffer!Spec, ImplementsBuffer
=============================================================================
