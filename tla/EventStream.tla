---------------------------- MODULE EventStream ----------------------------
(***************************************************************************)
(* The server-sent event stream of app/routes/events.py: publish_event     *)
(* puts every event into the bounded queue of every registered stream, a   *)
(* stream's generator takes them out one at a time, and a stream that is a *)
(* whole queue behind is unregistered - without being told.                *)
(*                                                                         *)
(* Events are numbered in the order in which publish_event got the lock of *)
(* the list of queues; refresh and request threads all publish.            *)
(***************************************************************************)
EXTENDS Integers, Sequences

CONSTANTS
  Clients,    \* connections to /api/events; each is opened again after it ended
  Capacity,   \* maxsize of a queue (100 in the code)
  MaxEvents   \* bound: events published

ASSUME StreamAssumption == Capacity \in Nat \ {0} /\ MaxEvents \in Nat

VARIABLES
  published,   \* how many events have been published
  registered,  \* connections whose queue is in _sse_queues
  queue,       \* the queue of each connection
  gen,         \* its generator: "none", "started" (nothing yielded yet),
               \* "looping" (at the test of _shutdown), "getting" (in q.get)
  sent,        \* the last event sent, or published before the connection
  here,        \* the client has not hung up
  shutdown     \* SIGTERM has set _shutdown

vars == <<published, registered, queue, gen, sent, here, shutdown>>

-----------------------------------------------------------------------------
\* stream_events registers a fresh queue; the generator is started later, and
\* never for a HEAD request.  gunicorn accepts no request after SIGTERM.
Register(c, g, h) ==
  /\ c \notin registered /\ gen[c] = "none" /\ ~shutdown
  /\ registered' = registered \cup {c}
  /\ queue' = [queue EXCEPT ![c] = <<>>]
  /\ sent' = [sent EXCEPT ![c] = published]
  /\ gen' = [gen EXCEPT ![c] = g]
  /\ here' = [here EXCEPT ![c] = h]
  /\ UNCHANGED <<published, shutdown>>

Open(c) == Register(c, "started", TRUE)
OpenHead(c) == Register(c, "none", FALSE)

HangUp(c) ==
  /\ here[c] /\ gen[c] # "none"
  /\ here' = [here EXCEPT ![c] = FALSE]
  /\ UNCHANGED <<published, registered, queue, gen, sent, shutdown>>

\* Mutant of Publish: a full queue stays registered and misses the event.
PublishSkippingFull ==
  /\ published < MaxEvents
  /\ published' = published + 1
  /\ queue' = [c \in Clients |->
                 IF c \in registered /\ Len(queue[c]) < Capacity
                 THEN Append(queue[c], published') ELSE queue[c]]
  /\ UNCHANGED <<registered, gen, sent, here, shutdown>>

\* Mutant of Publish: the queues have no bound.
PublishUnbounded ==
  /\ published < MaxEvents
  /\ published' = published + 1
  /\ queue' = [c \in Clients |->
                 IF c \in registered THEN Append(queue[c], published') ELSE queue[c]]
  /\ UNCHANGED <<registered, gen, sent, here, shutdown>>

\* publish_event, under the lock: into every queue with room; the full ones
\* are taken off the list.
Publish ==
  /\ published < MaxEvents
  /\ published' = published + 1
  /\ LET full == {c \in registered : Len(queue[c]) >= Capacity}
     IN  /\ queue' = [c \in Clients |->
                        IF c \in registered \ full
                        THEN Append(queue[c], published') ELSE queue[c]]
         /\ registered' = registered \ full
  /\ UNCHANGED <<gen, sent, here, shutdown>>

\* Mutant of Leave: the queue stays on the list.
LeaveRegistered(c) ==
  /\ gen' = [gen EXCEPT ![c] = "none"]
  /\ queue' = [queue EXCEPT ![c] = <<>>]
  /\ UNCHANGED registered

\* The generator ends; `finally` takes its queue off the list if it is there.
Leave(c) ==
  /\ gen' = [gen EXCEPT ![c] = "none"]
  /\ queue' = [queue EXCEPT ![c] = <<>>]
  /\ registered' = registered \ {c}

\* A yield, with `rest` left in the queue: if the client has hung up,
\* GeneratorExit is raised in it.
Yield(c, rest) ==
  IF here[c]
  THEN /\ gen' = [gen EXCEPT ![c] = "looping"]
       /\ queue' = [queue EXCEPT ![c] = rest]
       /\ UNCHANGED registered
  ELSE Leave(c)

Greet(c) ==
  /\ gen[c] = "started"
  /\ Yield(c, queue[c])
  /\ UNCHANGED <<published, sent, here, shutdown>>

\* Mutant of Loop: the flag is not looked at.
LoopForever(c) ==
  /\ gen[c] = "looping"
  /\ gen' = [gen EXCEPT ![c] = "getting"]
  /\ UNCHANGED <<published, registered, queue, sent, here, shutdown>>

Loop(c) ==
  /\ gen[c] = "looping"
  /\ IF shutdown THEN Leave(c)
     ELSE gen' = [gen EXCEPT ![c] = "getting"] /\ UNCHANGED <<registered, queue>>
  /\ UNCHANGED <<published, sent, here, shutdown>>

\* Mutant of Get: the event is sent and stays in the queue.
GetPeeking(c) ==
  /\ gen[c] = "getting" /\ queue[c] # <<>>
  /\ Yield(c, queue[c])
  /\ sent' = IF here[c] THEN [sent EXCEPT ![c] = Head(queue[c])] ELSE sent
  /\ UNCHANGED <<published, here, shutdown>>

Get(c) ==
  /\ gen[c] = "getting" /\ queue[c] # <<>>
  /\ Yield(c, Tail(queue[c]))
  /\ sent' = IF here[c] THEN [sent EXCEPT ![c] = Head(queue[c])] ELSE sent
  /\ UNCHANGED <<published, here, shutdown>>

\* One second without an event ...
Timeout(c) ==
  /\ gen[c] = "getting" /\ queue[c] = <<>>
  /\ gen' = [gen EXCEPT ![c] = "looping"]
  /\ UNCHANGED <<published, registered, queue, sent, here, shutdown>>

\* ... and fifteen: a comment is sent to keep the connection alive.
Keepalive(c) ==
  /\ gen[c] = "getting" /\ queue[c] = <<>>
  /\ Yield(c, queue[c])
  /\ UNCHANGED <<published, sent, here, shutdown>>

Terminate ==
  /\ ~shutdown /\ shutdown' = TRUE
  /\ UNCHANGED <<published, registered, queue, gen, sent, here>>

-----------------------------------------------------------------------------
Init ==
  /\ published = 0
  /\ registered = {}
  /\ queue = [c \in Clients |-> <<>>]
  /\ gen = [c \in Clients |-> "none"]
  /\ sent = [c \in Clients |-> 0]
  /\ here = [c \in Clients |-> FALSE]
  /\ shutdown = FALSE

Stream(c) == Greet(c) \/ Loop(c) \/ Get(c) \/ Timeout(c) \/ Keepalive(c)

Next ==
  \/ Publish
  \/ \E c \in Clients : Open(c) \/ OpenHead(c) \/ HangUp(c) \/ Stream(c)
  \/ Terminate

Spec == Init /\ [][Next]_vars

\* The thread of a stream runs, and of its timeouts one is the fifteenth.
FairSpec ==
  /\ Spec
  /\ \A c \in Clients : WF_vars(Stream(c)) /\ SF_vars(Keepalive(c))

-----------------------------------------------------------------------------
(* Properties *)

\* Every variable has its type; no queue is longer than its capacity.
TypeOK ==
  /\ published \in 0..MaxEvents
  /\ registered \subseteq Clients
  /\ queue \in [Clients -> Seq(1..MaxEvents)]
  /\ \A c \in Clients : Len(queue[c]) <= Capacity
  /\ gen \in [Clients -> {"none", "started", "looping", "getting"}]
  /\ sent \in [Clients -> 0..MaxEvents]
  /\ here \in [Clients -> BOOLEAN]
  /\ shutdown \in BOOLEAN

\* Every stream gets the events from its connection on in the order in which
\* they were published, without gap or repetition: what is queued continues
\* what was sent, and up to the newest event as long as the stream is
\* registered.  A stream that lagged too far is cut, never thinned out.
NoGaps ==
  \A c \in Clients :
    /\ \A i \in DOMAIN queue[c] : queue[c][i] = sent[c] + i
    /\ c \in registered => sent[c] + Len(queue[c]) = published

\* What was queued when the client hung up or the process was asked to stop
\* keeps no thread: every generator ends.
StreamsEnd ==
  \A c \in Clients : shutdown \/ ~here[c] ~> gen[c] = "none"

\* An event in a connected client's queue is sent, unless the client hangs up
\* or the process is asked to stop.
QueuedSent ==
  \A c \in Clients :
    queue[c] # <<>> /\ gen[c] # "none" ~> queue[c] = <<>> \/ shutdown

\* The list of queues holds no stream whose generator has ended.
NoneLeft ==
  [][\A c \in Clients :
       gen[c] # "none" /\ gen'[c] = "none" => c \notin registered']_vars
=============================================================================
