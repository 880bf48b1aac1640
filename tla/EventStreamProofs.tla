------------------------- MODULE EventStreamProofs -------------------------
(***************************************************************************)
(* Proofs about EventStream, for any clients, capacity and number of       *)
(* events.                                                                 *)
(***************************************************************************)
EXTENDS EventStream, SequenceTheorems, TLAPS

Gens == {"none", "started", "looping", "getting"}

\* The part of TypeOK and NoGaps that speaks of one connection.
Fits(c) ==
  /\ queue[c] \in Seq(1..MaxEvents) /\ Len(queue[c]) <= Capacity
  /\ sent[c] \in 0..MaxEvents
  /\ \A i \in 1..Len(queue[c]) : queue[c][i] = sent[c] + i
  /\ c \in registered => sent[c] + Len(queue[c]) = published

Functions ==
  /\ published \in 0..MaxEvents /\ registered \subseteq Clients
  /\ DOMAIN queue = Clients /\ queue = [c \in Clients |-> queue[c]]
  /\ sent = [c \in Clients |-> sent[c]]
  /\ gen \in [Clients -> Gens]
  /\ here \in [Clients -> BOOLEAN] /\ shutdown \in BOOLEAN

Inductive == Functions /\ \A c \in Clients : Fits(c)

LEMMA InitInductive == Init => Inductive
<1> SUFFICES ASSUME Init PROVE Inductive
  OBVIOUS
<1>1. Functions
  <2>1. queue = [c \in Clients |-> queue[c]] /\ DOMAIN queue = Clients
    BY DEF Init
  <2>2. sent = [c \in Clients |-> sent[c]]
    BY DEF Init
  <2>3. /\ gen \in [Clients -> Gens] /\ here \in [Clients -> BOOLEAN]
        /\ shutdown \in BOOLEAN /\ registered \subseteq Clients
    BY DEF Init, Gens
  <2>4. published \in 0..MaxEvents
    BY StreamAssumption DEF Init
  <2> QED
    BY <2>1, <2>2, <2>3, <2>4 DEF Functions
<1>2. ASSUME NEW c \in Clients PROVE Fits(c)
  <2>1. queue[c] = <<>> /\ sent[c] = 0 /\ published = 0
    BY DEF Init
  <2> QED
    BY <2>1, StreamAssumption DEF Fits
<1> QED
  BY <1>1, <1>2 DEF Inductive

\* A step that touches the queue, the last event and the registration of c only.
LEMMA OneConnection ==
  ASSUME Inductive, NEW c \in Clients, Functions', Fits(c)', published' = published,
         \A d \in Clients \ {c} :
           /\ queue'[d] = queue[d] /\ sent'[d] = sent[d]
           /\ d \in registered' => d \in registered
  PROVE  Inductive'
<1>1. ASSUME NEW d \in Clients \ {c} PROVE Fits(d)'
  BY DEF Inductive, Fits
<1> QED
  BY <1>1 DEF Inductive

LEMMA RegisterKeeps ==
  ASSUME Inductive, NEW c \in Clients, NEW g \in Gens, NEW h \in BOOLEAN,
         Register(c, g, h)
  PROVE  Inductive'
<1>1. /\ queue' = [queue EXCEPT ![c] = <<>>] /\ sent' = [sent EXCEPT ![c] = published]
      /\ gen' = [gen EXCEPT ![c] = g] /\ here' = [here EXCEPT ![c] = h]
      /\ registered' = registered \cup {c} /\ UNCHANGED <<published, shutdown>>
  BY DEF Register
<1>2. Functions'
  BY <1>1 DEF Inductive, Functions
<1>3. queue'[c] = <<>> /\ sent'[c] = published
  BY <1>1 DEF Inductive, Functions
<1>4. Fits(c)'
  BY <1>1, <1>3, StreamAssumption DEF Inductive, Functions, Fits
<1> QED
  BY <1>1, <1>2, <1>4, OneConnection DEF Inductive, Functions

\* A generator that ends, and one that yields nothing of the queue.
LEMMA LeaveKeeps ==
  ASSUME Inductive, NEW c \in Clients, Leave(c),
         UNCHANGED <<published, sent, here, shutdown>>
  PROVE  Inductive'
<1>1. /\ queue' = [queue EXCEPT ![c] = <<>>] /\ gen' = [gen EXCEPT ![c] = "none"]
      /\ registered' = registered \ {c}
  BY DEF Leave
<1>2. Functions'
  BY <1>1 DEF Inductive, Functions, Gens
<1>3. queue'[c] = <<>>
  BY <1>1 DEF Inductive, Functions
<1>4. Fits(c)'
  <2>1. sent'[c] \in 0..MaxEvents /\ c \notin registered'
    BY <1>1 DEF Inductive, Fits
  <2>2. /\ queue'[c] \in Seq(1..MaxEvents) /\ Len(queue'[c]) = 0
        /\ \A i \in 1..Len(queue'[c]) : FALSE
    BY <1>3
  <2> QED
    BY <2>1, <2>2, StreamAssumption DEF Fits
<1> QED
  BY <1>1, <1>2, <1>4, OneConnection DEF Inductive, Functions

LEMMA YieldKeeps ==
  ASSUME Inductive, NEW c \in Clients, Yield(c, queue[c]),
         UNCHANGED <<published, sent, here, shutdown>>
  PROVE  Inductive'
<1>1. CASE here[c]
  <2>1. /\ gen' = [gen EXCEPT ![c] = "looping"]
        /\ queue' = [queue EXCEPT ![c] = queue[c]] /\ registered' = registered
    BY <1>1 DEF Yield
  <2>2. Functions' /\ \A d \in Clients : queue'[d] = queue[d]
    BY <2>1 DEF Inductive, Functions, Gens
  <2> QED
    BY <2>1, <2>2 DEF Inductive, Fits
<1>2. CASE ~here[c]
  BY <1>2, LeaveKeeps DEF Yield
<1> QED
  BY <1>1, <1>2

LEMMA GetKeeps ==
  ASSUME Inductive, NEW c \in Clients, Get(c)
  PROVE  Inductive'
<1>1. CASE here[c]
  <2> DEFINE q == queue[c]
  <2>1. /\ q # <<>> /\ gen' = [gen EXCEPT ![c] = "looping"]
        /\ queue' = [queue EXCEPT ![c] = Tail(q)]
        /\ sent' = [sent EXCEPT ![c] = Head(q)]
        /\ UNCHANGED <<registered, published, here, shutdown>>
    BY <1>1 DEF Get, Yield
  <2>2. Functions' /\ queue'[c] = Tail(q) /\ sent'[c] = Head(q)
    BY <2>1 DEF Inductive, Functions, Gens
  <2>3. /\ q \in Seq(1..MaxEvents) /\ Len(q) \in Nat \ {0} /\ Len(q) <= Capacity
        /\ \A i \in 1..Len(q) : q[i] = sent[c] + i
        /\ sent[c] \in 0..MaxEvents
        /\ c \in registered => sent[c] + Len(q) = published
    BY <2>1 DEF Inductive, Fits
  <2> HIDE DEF q
  <2>4. /\ Tail(q) \in Seq(1..MaxEvents) /\ Len(Tail(q)) = Len(q) - 1
        /\ \A i \in 1..Len(Tail(q)) : Tail(q)[i] = q[i + 1]
        /\ Head(q) = q[1] /\ Head(q) \in 1..MaxEvents
    <3>1. q \in Seq(1..MaxEvents) /\ q # <<>>
      BY <2>1, <2>3
    <3>2. Head(q) = q[1]
      BY <3>1
    <3> QED
      BY <3>1, <3>2, HeadTailProperties, Zenon
  <2>5. Head(q) = sent[c] + 1
    BY <2>3, <2>4
  <2>6. \A i \in 1..Len(Tail(q)) : Tail(q)[i] = Head(q) + i
    BY <2>3, <2>4, <2>5
  <2>7. Len(Tail(q)) <= Capacity /\ (c \in registered => Head(q) + Len(Tail(q)) = published)
    <3>1. Len(q) - 1 <= Capacity
      BY <2>3, StreamAssumption
    <3>2. ASSUME c \in registered PROVE Head(q) + Len(Tail(q)) = published
      <4>1. (sent[c] + 1) + (Len(q) - 1) = sent[c] + Len(q)
        BY <2>3
      <4> QED
        BY <2>3, <2>4, <2>5, <3>2, <4>1
    <3> QED
      BY <2>4, <3>1, <3>2
  <2>8. Fits(c)'
    <3>1. sent'[c] \in 0..MaxEvents
      <4>1. Head(q) \in 1..MaxEvents /\ 1..MaxEvents \subseteq 0..MaxEvents
        BY <2>4, StreamAssumption
      <4> QED
        BY <2>2, <4>1
    <3>2. queue'[c] \in Seq(1..MaxEvents) /\ Len(queue'[c]) <= Capacity
      BY <2>2, <2>4, <2>7
    <3>3. \A i \in 1..Len(queue'[c]) : queue'[c][i] = sent'[c] + i
      BY <2>2, <2>6
    <3>4. c \in registered' => sent'[c] + Len(queue'[c]) = published'
      BY <2>1, <2>2, <2>7
    <3> QED
      BY <3>1, <3>2, <3>3, <3>4 DEF Fits
  <2> QED
    BY <2>1, <2>2, <2>8, OneConnection DEF Inductive, Functions
<1>2. CASE ~here[c]
  BY <1>2, LeaveKeeps DEF Get, Yield
<1> QED
  BY <1>1, <1>2

LEMMA PublishKeeps ==
  ASSUME Inductive, Publish
  PROVE  Inductive'
<1> DEFINE full == {c \in registered : Len(queue[c]) >= Capacity}
<1>1. /\ published < MaxEvents /\ published' = published + 1
      /\ queue' = [c \in Clients |->
                     IF c \in registered \ full
                     THEN Append(queue[c], published') ELSE queue[c]]
      /\ registered' = registered \ full
      /\ UNCHANGED <<gen, sent, here, shutdown>>
  BY DEF Publish
<1>2. Functions'
  BY <1>1, StreamAssumption DEF Inductive, Functions
<1>3. ASSUME NEW c \in Clients PROVE Fits(c)'
  <2>0. Fits(c) /\ sent'[c] = sent[c] /\ published \in 0..MaxEvents
    BY <1>1 DEF Inductive, Functions
  <2>1. CASE c \in registered \ full
    <3> DEFINE q == queue[c]
    <3>1. queue'[c] = Append(q, published + 1)
      BY <1>1, <2>1
    <3>2. /\ q \in Seq(1..MaxEvents) /\ Len(q) \in Nat /\ Len(q) < Capacity
          /\ \A i \in 1..Len(q) : q[i] = sent[c] + i
          /\ sent[c] \in 0..MaxEvents /\ sent[c] + Len(q) = published
      BY <2>0, <2>1, StreamAssumption DEF Fits
    <3> HIDE DEF q
    <3>3. published + 1 \in 1..MaxEvents
      BY <1>1, <2>0, StreamAssumption
    <3>4. /\ Append(q, published + 1) \in Seq(1..MaxEvents)
          /\ Len(Append(q, published + 1)) = Len(q) + 1
          /\ \A i \in 1..(Len(q) + 1) :
               Append(q, published + 1)[i] = IF i <= Len(q) THEN q[i] ELSE published + 1
      BY <3>2, <3>3
    <3>5. \A i \in 1..(Len(q) + 1) : Append(q, published + 1)[i] = sent[c] + i
      BY <3>2, <3>4
    <3>6. Len(q) + 1 <= Capacity /\ sent[c] + (Len(q) + 1) = published'
      BY <1>1, <3>2, StreamAssumption
    <3> QED
      BY <2>0, <3>1, <3>2, <3>4, <3>5, <3>6 DEF Fits
  <2>2. CASE c \notin registered \ full
    <3>1. queue'[c] = queue[c] /\ c \notin registered'
      BY <1>1, <2>2
    <3> QED
      BY <2>0, <3>1 DEF Fits
  <2> QED
    BY <2>1, <2>2
<1> QED
  BY <1>2, <1>3 DEF Inductive

LEMMA StepInductive == Inductive /\ [Next]_vars => Inductive'
<1> SUFFICES ASSUME Inductive, [Next]_vars
             PROVE  Inductive'
  OBVIOUS
<1>1. CASE Publish
  BY <1>1, PublishKeeps
<1>2. ASSUME NEW c \in Clients, Open(c) \/ OpenHead(c)
      PROVE  Inductive'
  BY <1>2, RegisterKeeps DEF Open, OpenHead, Gens
<1>3. ASSUME NEW c \in Clients, HangUp(c)
      PROVE  Inductive'
  BY <1>3 DEF HangUp, Inductive, Functions, Fits
<1>4. ASSUME NEW c \in Clients, Greet(c) \/ Keepalive(c)
      PROVE  Inductive'
  BY <1>4, YieldKeeps DEF Greet, Keepalive
<1>5. ASSUME NEW c \in Clients, Loop(c) \/ Timeout(c)
      PROVE  Inductive'
  <2>1. CASE Leave(c) /\ UNCHANGED <<published, sent, here, shutdown>>
    BY <2>1, LeaveKeeps
  <2>2. CASE \E g \in {"looping", "getting"} : gen' = [gen EXCEPT ![c] = g]
             /\ UNCHANGED <<published, registered, queue, sent, here, shutdown>>
    BY <2>2 DEF Inductive, Functions, Fits, Gens
  <2> QED
    BY <1>5, <2>1, <2>2 DEF Loop, Timeout
<1>6. ASSUME NEW c \in Clients, Get(c)
      PROVE  Inductive'
  BY <1>6, GetKeeps
<1>7. CASE Terminate
  BY <1>7 DEF Terminate, Inductive, Functions, Fits
<1>8. CASE UNCHANGED vars
  BY <1>8 DEF vars, Inductive, Functions, Fits
<1> QED
  BY <1>1, <1>2, <1>3, <1>4, <1>5, <1>6, <1>7, <1>8 DEF Next, Stream

-----------------------------------------------------------------------------
\* Every stream of publish_event and generate gets the events from its
\* connection on, in order, without gap or repetition; a stream that lags a
\* whole queue behind is cut as a whole.
THEOREM WithoutGaps == Spec => []NoGaps
<1>1. Spec => []Inductive
  BY InitInductive, StepInductive, PTL DEF Spec
<1>2. Inductive => NoGaps
  <2> SUFFICES ASSUME Inductive, NEW c \in Clients
               PROVE  /\ \A i \in DOMAIN queue[c] : queue[c][i] = sent[c] + i
                      /\ c \in registered => sent[c] + Len(queue[c]) = published
    BY DEF NoGaps
  <2>1. Fits(c)
    BY DEF Inductive
  <2>2. DOMAIN queue[c] = 1..Len(queue[c])
    BY <2>1 DEF Fits
  <2> QED
    BY <2>1, <2>2 DEF Fits
<1> QED
  BY <1>1, <1>2, PTL

\* No queue grows beyond its maxsize, however far a client is behind, and every
\* variable has its type.
THEOREM TypeCorrect == Spec => []TypeOK
<1>1. Spec => []Inductive
  BY InitInductive, StepInductive, PTL DEF Spec
<1>2. Inductive => TypeOK
  <2> SUFFICES ASSUME Inductive PROVE TypeOK
    OBVIOUS
  <2>1. /\ queue \in [Clients -> Seq(1..MaxEvents)]
        /\ \A c \in Clients : Len(queue[c]) <= Capacity
        /\ sent \in [Clients -> 0..MaxEvents]
    BY DEF Inductive, Functions, Fits
  <2> QED
    BY <2>1 DEF Inductive, Functions, Gens, TypeOK
<1> QED
  BY <1>1, <1>2, PTL

\* A generator that ends takes its queue off the list.
THEOREM NothingLeft == Spec => NoneLeft
<1> DEFINE A == \A c \in Clients :
                  gen[c] # "none" /\ gen'[c] = "none" => c \notin registered'
<1>1. Spec => []Inductive
  BY InitInductive, StepInductive, PTL DEF Spec
<1>2. Inductive /\ [Next]_vars => [A]_vars
  <2> SUFFICES ASSUME Inductive, Next, NEW c \in Clients,
                      gen[c] # "none", gen'[c] = "none"
               PROVE  c \notin registered'
    OBVIOUS
  <2>0. gen \in [Clients -> Gens]
    BY DEF Inductive, Functions
  <2>1. PICK d \in Clients : Open(d) \/ OpenHead(d) \/ HangUp(d) \/ Stream(d)
    BY DEF Next, Publish, Terminate
  <2>2. ~(Open(d) \/ OpenHead(d)) /\ ~HangUp(d)
    BY <2>0, <2>1 DEF Open, OpenHead, Register, HangUp
  <2>3. Leave(d) \/ \E g \in {"looping", "getting"} : gen' = [gen EXCEPT ![d] = g]
    BY <2>1, <2>2 DEF Stream, Greet, Loop, Get, Timeout, Keepalive, Yield
  <2> QED
    BY <2>0, <2>3 DEF Leave
<1> QED
  BY <1>1, <1>2, PTL DEF Spec, NoneLeft
=============================================================================
