------------------------- MODULE BlockingQueue_proofs -------------------------
(***************************************************************************)
(* For every number of producers and consumers and every bound: the        *)
(* monitor loses no wakeup and its steps are steps of the channel.         *)
(***************************************************************************)
EXTENDS BlockingQueue, FiniteSetTheorems, TLAPS

(* The type invariant is inductive on its own; with it, so is the account  *)
(* of the sleepers.                                                        *)
Inv == TypeOK /\ SleepersAreSignalled

LEMMA InsertedType ==
    ASSUME TypeOK, NEW el \in Items
    PROVE  Inserted(el) \in Seq(Items) /\ Len(Inserted(el)) = Len(q) + 1
BY DEF TypeOK, Inserted, Enqueued, Pushed

(* A thread that moves between the sets of one side changes its count of   *)
(* awake threads by one.                                                   *)
LEMMA CountAwake ==
    ASSUME TypeOK, NEW S, S \in {Producers, Consumers}
    PROVE  /\ IsFiniteSet(Awake(S)) /\ Cardinality(Awake(S)) \in Nat
           /\ \A t \in Awake(S) :
                 /\ IsFiniteSet(Awake(S) \ {t})
                 /\ Cardinality(Awake(S) \ {t}) = Cardinality(Awake(S)) - 1
           /\ \A t : t \notin Awake(S) =>
                 /\ IsFiniteSet(Awake(S) \cup {t})
                 /\ Cardinality(Awake(S) \cup {t}) = Cardinality(Awake(S)) + 1
<1>1. IsFiniteSet(S) /\ Awake(S) \subseteq S
  BY QueueAssumption DEF Awake
<1>2. IsFiniteSet(Awake(S)) /\ Cardinality(Awake(S)) \in Nat
  BY <1>1, FS_Subset, FS_CardinalityType
<1>3. ASSUME NEW t \in Awake(S)
      PROVE  /\ IsFiniteSet(Awake(S) \ {t})
             /\ Cardinality(Awake(S) \ {t}) = Cardinality(Awake(S)) - 1
  BY <1>2, <1>3, FS_RemoveElement
<1>4. ASSUME NEW t, t \notin Awake(S)
      PROVE  /\ IsFiniteSet(Awake(S) \cup {t})
             /\ Cardinality(Awake(S) \cup {t}) = Cardinality(Awake(S)) + 1
  BY <1>2, <1>4, FS_AddElement
<1> QED BY <1>2, <1>3, <1>4

(* The return of a thread t of the side T after a signal to the side S:    *)
(* T has one awake thread less, S one more if it had a sleeper.            *)
LEMMA SignalCounts ==
    ASSUME TypeOK, NEW T, NEW S,
           \/ S = Producers /\ T = Consumers
           \/ S = Consumers /\ T = Producers,
           NEW t \in Awake(T), SignalAndReturn(t, S)
    PROVE  /\ pc' \in [Threads -> {"out", "awake", "asleep"}]
           /\ pc'[t] = "out"
           /\ \A p \in T : p # t => pc'[p] = pc[p]
           /\ \A p \in Threads : pc'[p] # "out" => pc[p] # "out"
           /\ \A p \in Threads : p # t /\ pc[p] # "out" => pc'[p] # "out"
           /\ Asleep(T)' = Asleep(T)
           /\ Cardinality(Awake(T))' = Cardinality(Awake(T)) - 1
           /\ Asleep(S)' \subseteq Asleep(S)
           /\ Asleep(S) # {} => Cardinality(Awake(S))' = Cardinality(Awake(S)) + 1
<1>1. /\ S \cap T = {} /\ S \subseteq Threads /\ T \subseteq Threads /\ t \in Threads
      /\ S \in {Producers, Consumers} /\ T \in {Producers, Consumers}
      /\ pc \in [Threads -> {"out", "awake", "asleep"}]
      /\ pc[t] = "awake" /\ t \notin S
  BY QueueAssumption DEF Threads, Awake, TypeOK
<1>2. ASSUME Asleep(S) = {}, pc' = [pc EXCEPT ![t] = "out"]
      PROVE  /\ Awake(T)' = Awake(T) \ {t} /\ Asleep(T)' = Asleep(T)
             /\ Asleep(S)' = {} 
             /\ pc' \in [Threads -> {"out", "awake", "asleep"}] /\ pc'[t] = "out"
             /\ \A p \in Threads : p # t => pc'[p] = pc[p]
  BY <1>1, <1>2 DEF Awake, Asleep
<1>3. ASSUME NEW s \in Asleep(S), pc' = [pc EXCEPT ![t] = "out", ![s] = "awake"]
      PROVE  /\ Awake(T)' = Awake(T) \ {t} /\ Asleep(T)' = Asleep(T)
             /\ Asleep(S)' = Asleep(S) \ {s}
             /\ Awake(S)' = Awake(S) \cup {s} /\ s \notin Awake(S)
             /\ pc' \in [Threads -> {"out", "awake", "asleep"}] /\ pc'[t] = "out"
             /\ pc'[s] = "awake" /\ pc[s] = "asleep" /\ s \notin T
             /\ \A p \in Threads : p # t /\ p # s => pc'[p] = pc[p]
  BY <1>1, <1>3 DEF Awake, Asleep
<1>4. CASE Asleep(S) = {} /\ pc' = [pc EXCEPT ![t] = "out"]
  BY <1>1, <1>2, <1>4, CountAwake
<1>5. CASE \E s \in Asleep(S) : pc' = [pc EXCEPT ![t] = "out", ![s] = "awake"]
  <2> PICK s \in Asleep(S) : pc' = [pc EXCEPT ![t] = "out", ![s] = "awake"]
    BY <1>5
  <2>1. /\ Awake(T)' = Awake(T) \ {t} /\ Awake(S)' = Awake(S) \cup {s}
        /\ s \notin Awake(S)
    BY <1>3
  <2>2. Cardinality(Awake(T) \ {t}) = Cardinality(Awake(T)) - 1
    BY <1>1, CountAwake
  <2>3. Cardinality(Awake(S) \cup {s}) = Cardinality(Awake(S)) + 1
    BY <1>1, <2>1, CountAwake
  <2> QED BY <1>1, <1>3, <2>1, <2>2, <2>3
<1> QED BY <1>4, <1>5 DEF SignalAndReturn

LEMMA EnqueueInv ==
    ASSUME Inv, NEW p \in Producers, Enqueue(p)
    PROVE  Inv'
<1>1. /\ TypeOK /\ SleepersAreSignalled /\ p \in Threads /\ pc[p] = "awake"
      /\ item[p] \in Items /\ Bound \in Nat /\ Len(q) \in Nat
  BY QueueAssumption DEF Inv, TypeOK, Enqueue, Threads
<1>2. CASE Len(q) = Bound /\ Wait(p)
  <2>1. /\ Asleep(Consumers)' = Asleep(Consumers)
        /\ Awake(Consumers)' = Awake(Consumers)
        /\ Awake(Producers)' = Awake(Producers) \ {p}
    BY <1>1, <1>2, QueueAssumption DEF Wait, TypeOK, Asleep, Awake, Threads
  <2>2. Cardinality(Awake(Producers))' \in Nat
    BY <1>1, <2>1, CountAwake, FS_CardinalityType DEF Awake
  <2>3. TypeOK'
    BY <1>1, <1>2 DEF Wait, TypeOK
  <2>4. SleepersAreSignalled'
    BY <1>1, <1>2, <2>1, <2>2 DEF SleepersAreSignalled, Wait
  <2> QED BY <2>3, <2>4 DEF Inv
<1>3. CASE /\ Len(q) # Bound /\ q' = Inserted(item[p])
           /\ SignalAndReturn(p, Consumers) /\ UNCHANGED <<kind, item>>
  <2>1. q' \in Seq(Items) /\ Len(q') = Len(q) + 1
    BY <1>1, <1>3, InsertedType
  <2>2. p \in Awake(Producers)
    BY <1>1 DEF Awake
  <2>3. /\ pc' \in [Threads -> {"out", "awake", "asleep"}]
        /\ \A t \in Threads : pc'[t] # "out" => pc[t] # "out"
        /\ Asleep(Producers)' = Asleep(Producers)
        /\ Cardinality(Awake(Producers))' = Cardinality(Awake(Producers)) - 1
        /\ Asleep(Consumers)' \subseteq Asleep(Consumers)
        /\ Asleep(Consumers) # {} =>
               Cardinality(Awake(Consumers))' = Cardinality(Awake(Consumers)) + 1
    BY <1>1, <1>3, <2>2, SignalCounts
  <2>4. TypeOK'
    <3>1. Len(q') <= Bound
      BY <1>1, <1>3, <2>1 DEF TypeOK
    <3> QED BY <1>1, <1>3, <2>1, <2>3, <3>1 DEF TypeOK, Threads
  <2>5. /\ Cardinality(Awake(Producers)) \in Nat
        /\ Cardinality(Awake(Consumers)) \in Nat
    BY <1>1, CountAwake
  <2>6. SleepersAreSignalled'
    BY <1>1, <2>1, <2>3, <2>5 DEF SleepersAreSignalled
  <2> QED BY <2>4, <2>6 DEF Inv
<1> QED BY <1>2, <1>3 DEF Enqueue

LEMMA DequeueInv ==
    ASSUME Inv, NEW c \in Consumers, Dequeue(c)
    PROVE  Inv'
<1>1. /\ TypeOK /\ SleepersAreSignalled /\ c \in Threads /\ pc[c] = "awake"
      /\ Bound \in Nat /\ Len(q) \in Nat /\ q \in Seq(Items)
  BY QueueAssumption DEF Inv, TypeOK, Dequeue, Threads
<1>2. CASE q = <<>> /\ Wait(c)
  <2>1. /\ Asleep(Producers)' = Asleep(Producers)
        /\ Awake(Producers)' = Awake(Producers)
        /\ Awake(Consumers)' = Awake(Consumers) \ {c}
    BY <1>1, <1>2, QueueAssumption DEF Wait, TypeOK, Asleep, Awake, Threads
  <2>2. Cardinality(Awake(Consumers))' \in Nat
    BY <1>1, <2>1, CountAwake, FS_CardinalityType DEF Awake
  <2>3. TypeOK'
    BY <1>1, <1>2, QueueAssumption DEF Wait, TypeOK
  <2>4. SleepersAreSignalled'
    BY <1>1, <1>2, <2>1, <2>2 DEF SleepersAreSignalled, Wait
  <2> QED BY <2>3, <2>4 DEF Inv
<1>3. CASE /\ q # <<>> /\ q' = Tail(q) /\ item' = [item EXCEPT ![c] = Head(q)]
           /\ SignalAndReturn(c, Producers) /\ UNCHANGED kind
  <2>1. Tail(q) \in Seq(Items) /\ Len(Tail(q)) = Len(q) - 1 /\ Head(q) \in Items
    BY <1>1, <1>3
  <2>2. c \in Awake(Consumers)
    BY <1>1 DEF Awake
  <2>3. /\ pc' \in [Threads -> {"out", "awake", "asleep"}]
        /\ \A t \in Threads : pc'[t] # "out" => pc[t] # "out"
        /\ Asleep(Consumers)' = Asleep(Consumers)
        /\ Cardinality(Awake(Consumers))' = Cardinality(Awake(Consumers)) - 1
        /\ Asleep(Producers)' \subseteq Asleep(Producers)
        /\ Asleep(Producers) # {} =>
               Cardinality(Awake(Producers))' = Cardinality(Awake(Producers)) + 1
    BY <1>1, <1>3, <2>2, SignalCounts
  <2>4. TypeOK'
    <3>1. Len(q') <= Bound /\ q' \in Seq(Items)
      BY <1>1, <1>3, <2>1 DEF TypeOK
    <3>2. /\ item' \in [Threads -> Items \cup {Nothing}]
          /\ \A p \in Producers : item'[p] = item[p]
      BY <1>1, <1>3, <2>1, QueueAssumption DEF TypeOK, Threads
    <3> QED BY <1>1, <1>3, <2>3, <3>1, <3>2 DEF TypeOK, Threads
  <2>5. /\ Cardinality(Awake(Producers)) \in Nat
        /\ Cardinality(Awake(Consumers)) \in Nat
    BY <1>1, CountAwake
  <2>6. SleepersAreSignalled'
    BY <1>1, <1>3, <2>1, <2>3, <2>5 DEF SleepersAreSignalled
  <2> QED BY <2>4, <2>6 DEF Inv
<1> QED BY <1>2, <1>3 DEF Dequeue, Shortened, First

(* A thread that enters a call or wakes up without a signal only adds to   *)
(* the awake threads of its side.                                          *)
LEMMA WokenInv ==
    ASSUME Inv, TypeOK', NEW t \in Threads, pc[t] # "awake",
           pc' = [pc EXCEPT ![t] = "awake"], UNCHANGED q
    PROVE  Inv'
<1>1. TypeOK /\ SleepersAreSignalled /\ Len(q) \in Nat /\ Bound \in Nat
  BY QueueAssumption DEF Inv, TypeOK
<1>2. ASSUME NEW S, S \in {Producers, Consumers}
      PROVE  /\ Asleep(S)' \subseteq Asleep(S)
             /\ Cardinality(Awake(S)) \in Nat /\ Cardinality(Awake(S))' \in Nat
             /\ Cardinality(Awake(S)) <= Cardinality(Awake(S))'
  <2>1. Asleep(S)' \subseteq Asleep(S)
    BY <1>1, <1>2 DEF Asleep, TypeOK, Threads
  <2>2. Awake(S)' = Awake(S) \/ (Awake(S)' = Awake(S) \cup {t} /\ t \notin Awake(S))
    BY <1>1, <1>2 DEF Awake, TypeOK, Threads
  <2>3. /\ Cardinality(Awake(S)) \in Nat
        /\ t \notin Awake(S) =>
              Cardinality(Awake(S) \cup {t}) = Cardinality(Awake(S)) + 1
    BY <1>1, <1>2, CountAwake
  <2>4. Cardinality(Awake(S)') \in {Cardinality(Awake(S)), Cardinality(Awake(S)) + 1}
    BY <2>2, <2>3
  <2>5. /\ Cardinality(Awake(S)') \in Nat
        /\ Cardinality(Awake(S)) <= Cardinality(Awake(S)')
    BY <2>3, <2>4
  <2> QED BY <2>1, <2>3, <2>5
<1>3. SleepersAreSignalled'
  BY <1>1, <1>2 DEF SleepersAreSignalled
<1> QED BY <1>3 DEF Inv

(* Every step keeps the invariant. *)
LEMMA NextInv ==
    ASSUME Inv, [Next]_vars
    PROVE  Inv'
<1> TypeOK
  BY DEF Inv
<1>1. ASSUME NEW p \in Producers, NEW el \in Items, CallEnqueue(p, el)
      PROVE  Inv'
  <2>1. TypeOK'
    BY <1>1, QueueAssumption DEF CallEnqueue, TypeOK, Threads
  <2> QED BY <1>1, <2>1, WokenInv DEF CallEnqueue, Threads
<1>2. ASSUME NEW c \in Consumers, CallDequeue(c)
      PROVE  Inv'
  <2>1. TypeOK'
    BY <1>2, QueueAssumption DEF CallDequeue, TypeOK, Threads
  <2> QED BY <1>2, <2>1, WokenInv DEF CallDequeue, Threads
<1>3. ASSUME NEW t \in Threads, Spurious(t)
      PROVE  Inv'
  <2>1. TypeOK'
    BY <1>3, QueueAssumption DEF Spurious, TypeOK, Threads
  <2> QED BY <1>3, <2>1, WokenInv DEF Spurious
<1>4. CASE UNCHANGED vars
  BY <1>4 DEF vars, Inv, TypeOK, SleepersAreSignalled, Asleep, Awake
<1> QED BY <1>1, <1>2, <1>3, <1>4, EnqueueInv, DequeueInv DEF Next

(* A structure that was just made is empty and nobody sleeps. *)
LEMMA InitInv == Init => Inv
<1> SUFFICES ASSUME Init PROVE Inv
  OBVIOUS
<1>1. TypeOK
  BY QueueAssumption DEF Init, TypeOK, Threads
<1>2. Asleep(Producers) = {} /\ Asleep(Consumers) = {}
  BY DEF Init, Asleep, Threads
<1> QED BY <1>1, <1>2 DEF Inv, SleepersAreSignalled

(* The condition variables of gnl_ts_bb_queue_t.c and gnl_ts_bb_stack_t.c  *)
(* lose no wakeup and the bound holds, whatever the numbers of producers,  *)
(* of consumers and the bound.                                             *)
THEOREM NoWakeupIsLost == Spec => []SleepersAreSignalled
<1>1. Spec => []Inv
  BY InitInv, NextInv, PTL DEF Spec
<1>2. Inv => SleepersAreSignalled
  BY DEF Inv
<1> QED BY <1>1, <1>2, PTL
-----------------------------------------------------------------------------
(* The channel as it is seen by its callers.                               *)

LEMMA EnqueueStores ==
    ASSUME Inv, NEW p \in Producers, Enqueue(p)
    PROVE  Channel!Store(p) \/ UNCHANGED Channel!channel
<1>1. /\ TypeOK /\ p \in Threads /\ pc[p] = "awake" /\ Len(q) \in Nat
      /\ Bound \in Nat /\ Len(q) <= Bound /\ kind \in {"queue", "stack"}
  BY QueueAssumption DEF Inv, TypeOK, Enqueue, Threads
<1>2. CASE Wait(p)
  <2>1. inside' = inside
    BY <1>1, <1>2 DEF Wait, inside, TypeOK
  <2> QED BY <1>2, <2>1 DEF Wait, Channel!channel
<1>3. CASE /\ Len(q) # Bound /\ q' = Inserted(item[p])
           /\ SignalAndReturn(p, Consumers) /\ UNCHANGED <<kind, item>>
  <2>1. p \in Awake(Producers)
    BY <1>1 DEF Awake
  <2>2. /\ pc'[p] = "out"
        /\ \A t \in Threads : pc'[t] # "out" => pc[t] # "out"
        /\ \A t \in Threads : t # p /\ pc[t] # "out" => pc'[t] # "out"
    BY <1>1, <1>3, <2>1, SignalCounts
  <2>3. p \in inside /\ inside' = inside \ {p}
    BY <1>1, <2>2 DEF inside
  <2>4. Len(q) < Bound
    BY <1>1, <1>3
  <2>5. \/ kind = "queue" /\ q' = Append(q, item[p])
        \/ kind = "stack" /\ q' = <<item[p]>> \o q
    BY <1>1, <1>3 DEF Inserted, Enqueued, Pushed
  <2> QED BY <1>3, <2>3, <2>4, <2>5 DEF Channel!Store
<1> QED BY <1>2, <1>3 DEF Enqueue

LEMMA DequeueTakes ==
    ASSUME Inv, NEW c \in Consumers, Dequeue(c)
    PROVE  Channel!Take(c) \/ UNCHANGED Channel!channel
<1>1. TypeOK /\ c \in Threads /\ pc[c] = "awake"
  BY DEF Inv, Dequeue, Threads
<1>2. CASE Wait(c)
  <2>1. inside' = inside
    BY <1>1, <1>2 DEF Wait, inside, TypeOK
  <2> QED BY <1>2, <2>1 DEF Wait, Channel!channel
<1>3. CASE /\ q # <<>> /\ q' = Tail(q) /\ item' = [item EXCEPT ![c] = Head(q)]
           /\ SignalAndReturn(c, Producers) /\ UNCHANGED kind
  <2>1. c \in Awake(Consumers)
    BY <1>1 DEF Awake
  <2>2. /\ pc'[c] = "out"
        /\ \A t \in Threads : pc'[t] # "out" => pc[t] # "out"
        /\ \A t \in Threads : t # c /\ pc[t] # "out" => pc'[t] # "out"
    BY <1>1, <1>3, <2>1, SignalCounts
  <2>3. c \in inside /\ inside' = inside \ {c}
    BY <1>1, <2>2 DEF inside
  <2> QED BY <1>3, <2>3 DEF Channel!Take
<1> QED BY <1>2, <1>3 DEF Dequeue, Shortened, First

(* Every step of the monitor is a step of the channel or none. *)
LEMMA NextChannel ==
    ASSUME Inv, [Next]_vars
    PROVE  [Channel!Next]_(Channel!channel)
<1>1. TypeOK
  BY DEF Inv
<1>2. ASSUME NEW p \in Producers, NEW el \in Items, CallEnqueue(p, el)
      PROVE  Channel!Bring(p, el)
  <2>1. p \notin inside /\ inside' = inside \cup {p}
    BY <1>1, <1>2 DEF CallEnqueue, inside, TypeOK, Threads
  <2> QED BY <1>2, <2>1 DEF CallEnqueue, Channel!Bring
<1>3. ASSUME NEW c \in Consumers, CallDequeue(c)
      PROVE  Channel!Ask(c)
  <2>1. c \notin inside /\ inside' = inside \cup {c}
    BY <1>1, <1>3 DEF CallDequeue, inside, TypeOK, Threads
  <2> QED BY <1>3, <2>1 DEF CallDequeue, Channel!Ask
<1>4. ASSUME NEW t \in Threads, Spurious(t)
      PROVE  UNCHANGED Channel!channel
  <2>1. inside' = inside
    BY <1>1, <1>4 DEF Spurious, inside, TypeOK
  <2> QED BY <1>4, <2>1 DEF Spurious, Channel!channel
<1>5. CASE UNCHANGED vars
  BY <1>5 DEF vars, inside, Channel!channel
<1>6. CASE Next
  <2>1. ASSUME NEW p \in Producers, NEW el \in Items, CallEnqueue(p, el)
        PROVE  Channel!Next
    BY <1>2, <2>1 DEF Channel!Next
  <2>2. ASSUME NEW p \in Producers, Enqueue(p)
        PROVE  Channel!Next \/ UNCHANGED Channel!channel
    BY <2>2, EnqueueStores DEF Channel!Next, Channel!StoreSome
  <2>3. ASSUME NEW c \in Consumers, CallDequeue(c)
        PROVE  Channel!Next
    BY <1>3, <2>3 DEF Channel!Next
  <2>4. ASSUME NEW c \in Consumers, Dequeue(c)
        PROVE  Channel!Next \/ UNCHANGED Channel!channel
    BY <2>4, DequeueTakes DEF Channel!Next, Channel!TakeSome
  <2> QED BY <1>4, <1>6, <2>1, <2>2, <2>3, <2>4 DEF Next
<1> QED BY <1>5, <1>6

(* The safety part of ImplementsChannel: the monitor behaves as a channel  *)
(* whose calls take effect in one step (the server is modelled with it).   *)
THEOREM QueueImplementsChannel == Spec => Channel!SafeSpec
<1>1. Spec => []Inv
  BY InitInv, NextInv, PTL DEF Spec
<1>2. Init => Channel!Init
  <2> SUFFICES ASSUME Init PROVE Channel!Init
    OBVIOUS
  <2>1. inside = {}
    BY DEF Init, inside
  <2> QED BY <2>1 DEF Init, Channel!Init, Threads
<1> QED BY <1>1, <1>2, NextChannel, PTL DEF Spec, Channel!SafeSpec
=============================================================================
