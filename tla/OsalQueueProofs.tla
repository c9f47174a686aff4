--------------------------- MODULE OsalQueueProofs ---------------------------
(***************************************************************************)
(* A message that osal_queue_send accepts is in exactly one place and is   *)
(* received at most once, for any number of tasks, messages and crashes.   *)
(***************************************************************************)
EXTENDS OsalQueue, TLAPS

Calls == [pc : {"idle", "send", "sent", "recv", "return"},
          msg : Message \cup {NoMessage},
          size : Sizes \cup {0},
          timeout : Timeouts \cup {Forever},
          deadline : 0..MaxTime \cup {Forever}]

IsSending(t) == call[t].pc \in {"send", "sent"}

\* A call of osal_queue_send has its own message, of which nothing was reported.
Sending ==
    \A t \in Tasks : IsSending(t) =>
        /\ call[t].msg \in Message /\ sent[call[t].msg.id] = "calling"
        /\ \A u \in Tasks : IsSending(u) /\ call[u].msg.id = call[t].msg.id => u = t

\* Before mq_send has accepted the message it is nowhere, and afterwards somewhere.
Put ==
    \A t \in Tasks, m \in Ids : call[t].msg.id = m =>
        /\ call[t].pc = "send" => Places(m) = {}
        /\ call[t].pc = "sent" => Places(m) # {}

\* A task that has taken a message holds a message.
Taken == \A t \in Tasks : call[t].pc = "return" => call[t].msg \in Message

\* The kernel's queue holds no message twice.
UniqueIds == \A k, l \in mq.msgs : k.id = l.id => k = l

\* Each message is in one place at most, and what was reported of it is right.
Located ==
    \A m \in Ids :
        /\ received[m] <= 1
        /\ \A p, q \in Places(m) : p = q
        /\ sent[m] \in {"unsent", "TIMEOUT"} => Places(m) = {}
        /\ sent[m] = "SUCCESS" => Places(m) # {}

LostWhy == \A k \in lost : k.why = "crashed" \/ k.msg.len = 0

QInv == TypeOK /\ Sending /\ Put /\ Taken /\ UniqueIds /\ Located /\ LostWhy

-----------------------------------------------------------------------------
(* Types *)

\* The parts of TypeOK, with the records kept together.
LEMMA Typed ==
    TypeOK <=> /\ clock \in 0..MaxTime
               /\ mq \in [msgsize : Sizes \cup {0}, msgs : SUBSET Message]
               /\ queue \in Sizes \cup {0}
               /\ call \in [Tasks -> Calls]
               /\ crashes \in 0..MaxCrashes
               /\ sent \in [Ids -> {"unsent", "calling", "SUCCESS", "TIMEOUT", "crashed"}]
               /\ received \in [Ids -> Nat]
               /\ lost \subseteq [msg : Message, why : {"crashed", "empty"}]
  BY Zenon DEF TypeOK, Calls

\* The same after a step.
LEMMA TypedNext ==
    TypeOK' <=> /\ clock' \in 0..MaxTime
                /\ mq' \in [msgsize : Sizes \cup {0}, msgs : SUBSET Message]
                /\ queue' \in Sizes \cup {0}
                /\ call' \in [Tasks -> Calls]
                /\ crashes' \in 0..MaxCrashes
                /\ sent' \in [Ids -> {"unsent", "calling", "SUCCESS", "TIMEOUT", "crashed"}]
                /\ received' \in [Ids -> Nat]
                /\ lost' \subseteq [msg : Message, why : {"crashed", "empty"}]
  BY Zenon DEF TypeOK, Calls

\* The call of a task that is in none.
LEMMA IdleTyped == Idle \in Calls /\ Idle.pc = "idle"
  BY QueueAssumption DEF Idle, Calls, NoMessage

\* A deadline within the bound is in range.
LEMMA DeadlineTyped ==
    ASSUME clock \in 0..MaxTime, NEW timeout \in Timeouts \cup {Forever},
           Deadline(timeout) <= MaxTime
    PROVE  Deadline(timeout) \in 0..MaxTime \cup {Forever}
  BY QueueAssumption DEF Deadline, Forever

\* What a step that concerns one task does to the calls.
LEMMA OneCall ==
    ASSUME call \in [Tasks -> Calls], NEW t \in Tasks, NEW c \in Calls,
           call' = [call EXCEPT ![t] = c]
    PROVE  /\ call' \in [Tasks -> Calls]
           /\ call'[t] = c
           /\ \A u \in Tasks : u # t => call'[u] = call[u]
  BY Zenon

\* A call whose step or message changes is still a call.
LEMMA CallUpdate ==
    ASSUME NEW c \in Calls
    PROVE  /\ [c EXCEPT !.pc = "sent"] \in Calls
           /\ [c EXCEPT !.pc = "sent"].pc = "sent"
           /\ [c EXCEPT !.pc = "sent"].msg = c.msg
           /\ [c EXCEPT !.deadline = c.deadline] = c
  BY DEF Calls

-----------------------------------------------------------------------------
(* Places *)

\* What it is to be in a place.
LEMMA PlaceMember ==
    ASSUME NEW m, NEW p
    PROVE  p \in Places(m) <=>
             \/ p = "queue" /\ \E k \in mq.msgs : k.id = m
             \/ p \in Tasks /\ call[p].pc = "return" /\ call[p].msg.id = m
             \/ p = "application" /\ received[m] > 0
             \/ p = "lost" /\ \E k \in lost : k.msg.id = m
  BY Zenon DEF Places

\* The same after a step.
LEMMA PlaceMemberNext ==
    ASSUME NEW CONSTANT m, NEW CONSTANT p
    PROVE  p \in Places(m)' <=>
             \/ p = "queue" /\ \E k \in mq'.msgs : k.id = m
             \/ p \in Tasks /\ call'[p].pc = "return" /\ call'[p].msg.id = m
             \/ p = "application" /\ received'[m] > 0
             \/ p = "lost" /\ \E k \in lost' : k.msg.id = m
  BY Zenon DEF Places

\* Messages stay where they are if the queue does and no task takes or returns one.
LEMMA SamePlaces ==
    ASSUME mq'.msgs = mq.msgs, received' = received, lost' = lost,
           \A u \in Tasks : \/ call'[u] = call[u]
                            \/ call[u].pc # "return" /\ call'[u].pc # "return",
           NEW CONSTANT m
    PROVE  Places(m)' = Places(m)
  <1>1. ASSUME NEW CONSTANT p PROVE p \in Places(m)' <=> p \in Places(m)
    <2>1. ASSUME p \in Tasks
          PROVE  (call'[p].pc = "return" /\ call'[p].msg.id = m)
                   <=> (call[p].pc = "return" /\ call[p].msg.id = m)
      BY <2>1, Zenon
    <2>2. p \in Places(m)' <=>
             \/ p = "queue" /\ \E k \in mq.msgs : k.id = m
             \/ p \in Tasks /\ call[p].pc = "return" /\ call[p].msg.id = m
             \/ p = "application" /\ received[m] > 0
             \/ p = "lost" /\ \E k \in lost : k.msg.id = m
      BY <2>1, PlaceMemberNext
    <2> QED BY <2>2, PlaceMember, Zenon
  <1> QED BY <1>1, Zenon

-----------------------------------------------------------------------------
(* The steps *)

\* Nothing was sent yet.
LEMMA InitHolds == Init => QInv
  <1> SUFFICES ASSUME Init PROVE QInv
    OBVIOUS
  <1>1. TypeOK
    <2>1. /\ clock \in 0..MaxTime /\ queue \in Sizes \cup {0} /\ crashes \in 0..MaxCrashes
          /\ mq \in [msgsize : Sizes \cup {0}, msgs : SUBSET Message]
      BY QueueAssumption DEF Init
    <2>2. /\ sent \in [Ids -> {"unsent", "calling", "SUCCESS", "TIMEOUT", "crashed"}]
          /\ received \in [Ids -> Nat]
          /\ lost \subseteq [msg : Message, why : {"crashed", "empty"}]
      BY DEF Init
    <2>3. call \in [Tasks -> Calls]
      BY IdleTyped, Zenon DEF Init
    <2> QED BY <2>1, <2>2, <2>3, Typed, Zenon
  <1>2. \A t \in Tasks : call[t].pc = "idle"
    BY IdleTyped, Zenon DEF Init
  <1>3. /\ mq.msgs = {} /\ lost = {}
        /\ \A m \in Ids : received[m] = 0 /\ sent[m] = "unsent"
    BY DEF Init
  <1>4. ASSUME NEW m \in Ids PROVE Places(m) = {}
    BY <1>2, <1>3 DEF Places
  <1>5. Sending /\ Put /\ Taken /\ UniqueIds /\ LostWhy
    BY <1>2, <1>3 DEF Sending, Put, Taken, UniqueIds, LostWhy, IsSending
  <1>6. Located
    BY <1>3, <1>4 DEF Located
  <1> QED BY <1>1, <1>5, <1>6 DEF QInv

\* Steps that neither send nor take nor return a message.
LEMMA QuietStep ==
    ASSUME QInv, TypeOK',
           mq'.msgs = mq.msgs, received' = received, lost' = lost, sent' = sent,
           \A u \in Tasks : \/ call'[u] = call[u]
                            \/ call[u].pc # "return" /\ call'[u].pc \in {"idle", "recv"}
    PROVE  QInv'
  <1>a. \A u \in Tasks : \/ call'[u] = call[u]
                         \/ call[u].pc # "return" /\ call'[u].pc # "return"
    OBVIOUS
  <1>b. ASSUME NEW CONSTANT m PROVE Places(m)' = Places(m)
    BY <1>a, SamePlaces, Zenon
  <1>c. \A u \in Tasks : call'[u].pc \in {"send", "sent", "return"} => call'[u] = call[u]
    OBVIOUS
  <1>1. Sending'
    BY <1>c DEF QInv, Sending, IsSending
  <1>2. Put'
    <2> SUFFICES ASSUME NEW t \in Tasks, NEW m \in Ids, call'[t].msg.id = m
                 PROVE  /\ call'[t].pc = "send" => Places(m)' = {}
                        /\ call'[t].pc = "sent" => Places(m)' # {}
      BY Zenon DEF Put
    <2> QED BY <1>b, <1>c, Zenon DEF QInv, Put
  <1>3. Taken'
    BY <1>c DEF QInv, Taken
  <1>4. UniqueIds' /\ LostWhy'
    BY DEF QInv, UniqueIds, LostWhy
  <1>5. Located'
    <2> SUFFICES ASSUME NEW m \in Ids
                 PROVE  /\ received'[m] <= 1
                        /\ \A p, q \in Places(m)' : p = q
                        /\ sent'[m] \in {"unsent", "TIMEOUT"} => Places(m)' = {}
                        /\ sent'[m] = "SUCCESS" => Places(m)' # {}
      BY Zenon DEF Located
    <2> QED BY <1>b, Zenon DEF QInv, Located
  <1> QED BY <1>1, <1>2, <1>3, <1>4, <1>5, Zenon DEF QInv

\* osal_queue_send is called with a message of its own.
LEMMA SendStep ==
    ASSUME QInv, NEW t \in Tasks, Send(t)
    PROVE  QInv'
  <1> PICK m \in Ids, len \in Lengths, timeout \in Timeouts \cup {Forever} :
        /\ sent[m] = "unsent"
        /\ Deadline(timeout) <= MaxTime
        /\ call' = [call EXCEPT ![t] =
                [pc |-> "send", msg |-> [id |-> m, len |-> len], size |-> 0,
                 timeout |-> timeout, deadline |-> Deadline(timeout)]]
        /\ sent' = [sent EXCEPT ![m] = "calling"]
    BY Zenon DEF Send, Goto
  <1> DEFINE c == [pc |-> "send", msg |-> [id |-> m, len |-> len], size |-> 0,
                   timeout |-> timeout, deadline |-> Deadline(timeout)]
  <1>a. /\ call[t].pc = "idle"
        /\ UNCHANGED <<clock, mq, queue, crashes, received, lost>>
    BY DEF Send
  <1>b. /\ clock \in 0..MaxTime /\ call \in [Tasks -> Calls]
        /\ sent \in [Ids -> {"unsent", "calling", "SUCCESS", "TIMEOUT", "crashed"}]
    BY Typed, Zenon DEF QInv
  <1>c. Deadline(timeout) \in 0..MaxTime \cup {Forever}
    BY <1>b, DeadlineTyped
  <1>d. c \in Calls /\ c.pc = "send" /\ c.msg \in Message /\ c.msg.id = m
    BY <1>c DEF Calls, Message
  <1> HIDE DEF c
  <1>e. /\ call' \in [Tasks -> Calls] /\ call'[t] = c
        /\ \A u \in Tasks : u # t => call'[u] = call[u]
    BY <1>b, <1>d, OneCall DEF c
  <1>f. /\ sent' \in [Ids -> {"unsent", "calling", "SUCCESS", "TIMEOUT", "crashed"}]
        /\ sent'[m] = "calling" /\ \A k \in Ids : k # m => sent'[k] = sent[k]
    BY <1>b
  <1>g. ASSUME NEW CONSTANT k PROVE Places(k)' = Places(k)
    BY <1>a, <1>d, <1>e, SamePlaces
  <1>1. TypeOK'
    BY <1>a, <1>e, <1>f, Typed, TypedNext, Zenon DEF QInv
  <1>h. \A u \in Tasks : u # t /\ IsSending(u) =>
            call[u].msg \in Message /\ call[u].msg.id \in Ids /\ call[u].msg.id # m
    BY DEF QInv, Sending, Message
  <1>2. Sending'
    <2> SUFFICES ASSUME NEW u \in Tasks, call'[u].pc \in {"send", "sent"}
                 PROVE  /\ call'[u].msg \in Message /\ sent'[call'[u].msg.id] = "calling"
                        /\ \A v \in Tasks : call'[v].pc \in {"send", "sent"}
                                /\ call'[v].msg.id = call'[u].msg.id => v = u
      BY Zenon DEF Sending, IsSending
    <2>1. CASE u = t
      BY <1>d, <1>e, <1>f, <1>h, <2>1 DEF IsSending
    <2>2. CASE u # t
      BY <1>d, <1>e, <1>f, <1>h, <2>2 DEF QInv, Sending, IsSending
    <2> QED BY <2>1, <2>2
  <1>3. Put'
    <2> SUFFICES ASSUME NEW u \in Tasks, NEW k \in Ids, call'[u].msg.id = k
                 PROVE  /\ call'[u].pc = "send" => Places(k)' = {}
                        /\ call'[u].pc = "sent" => Places(k)' # {}
      BY Zenon DEF Put
    <2>1. Places(m) = {}
      BY DEF QInv, Located
    <2>2. CASE u = t
      BY <1>d, <1>e, <1>g, <2>1, <2>2
    <2>3. CASE u # t
      BY <1>e, <1>g, <2>3, Zenon DEF QInv, Put
    <2> QED BY <2>2, <2>3
  <1>4. Taken' /\ UniqueIds' /\ LostWhy'
    BY <1>a, <1>d, <1>e DEF QInv, Taken, UniqueIds, LostWhy
  <1>5. Located'
    <2> SUFFICES ASSUME NEW k \in Ids
                 PROVE  /\ received'[k] <= 1
                        /\ \A p, q \in Places(k)' : p = q
                        /\ sent'[k] \in {"unsent", "TIMEOUT"} => Places(k)' = {}
                        /\ sent'[k] = "SUCCESS" => Places(k)' # {}
      BY Zenon DEF Located
    <2>1. received'[k] <= 1 /\ \A p, q \in Places(k)' : p = q
      BY <1>a, <1>g, Zenon DEF QInv, Located
    <2>2. CASE k = m
      BY <1>f, <2>1, <2>2
    <2>3. CASE k # m
      <3>1. sent'[k] = sent[k]
        BY <1>f, <2>3
      <3> QED BY <1>g, <2>1, <3>1, Zenon DEF QInv, Located
    <2> QED BY <2>2, <2>3
  <1> QED BY <1>1, <1>2, <1>3, <1>4, <1>5, Zenon DEF QInv

\* osal_queue_send returns: SUCCESS after mq_send has accepted the message, TIMEOUT
\* without it.
LEMMA SendReturnStep ==
    ASSUME QInv, NEW t \in Tasks, NEW CONSTANT status,
           \/ status = "SUCCESS" /\ call[t].pc = "sent"
           \/ status = "TIMEOUT" /\ call[t].pc = "send",
           SendReturns(t, status),
           UNCHANGED <<clock, mq, queue, crashes, received, lost>>
    PROVE  QInv'
  <1>b. /\ call \in [Tasks -> Calls]
        /\ sent \in [Ids -> {"unsent", "calling", "SUCCESS", "TIMEOUT", "crashed"}]
    BY Typed, Zenon DEF QInv
  <1>c. IsSending(t)
    BY DEF IsSending
  <1>d. call[t].msg \in Message /\ call[t].msg.id \in Ids
    BY <1>c DEF QInv, Sending, Message
  <1> PICK m \in Ids : m = call[t].msg.id
    BY <1>d
  <1>e. /\ call' \in [Tasks -> Calls] /\ call'[t].pc = "idle"
        /\ \A u \in Tasks : u # t => call'[u] = call[u]
    BY <1>b, IdleTyped, OneCall DEF SendReturns, Goto
  <1>f. /\ sent' \in [Ids -> {"unsent", "calling", "SUCCESS", "TIMEOUT", "crashed"}]
        /\ sent'[m] = status /\ \A k \in Ids : k # m => sent'[k] = sent[k]
    BY <1>b DEF SendReturns
  <1>g. ASSUME NEW CONSTANT k PROVE Places(k)' = Places(k)
    BY <1>e, SamePlaces
  <1>1. TypeOK'
    BY <1>e, <1>f, Typed, TypedNext, Zenon DEF QInv
  <1>h. \A u \in Tasks : u # t /\ IsSending(u) =>
            call[u].msg.id \in Ids /\ call[u].msg.id # m
    BY <1>c DEF QInv, Sending, Message
  <1>2. Sending'
    <2> SUFFICES ASSUME NEW u \in Tasks, call'[u].pc \in {"send", "sent"}
                 PROVE  /\ call'[u].msg \in Message /\ sent'[call'[u].msg.id] = "calling"
                        /\ \A v \in Tasks : call'[v].pc \in {"send", "sent"}
                                /\ call'[v].msg.id = call'[u].msg.id => v = u
      BY Zenon DEF Sending, IsSending
    <2>1. u # t
      BY <1>e
    <2> QED BY <1>e, <1>f, <1>h, <2>1 DEF QInv, Sending, IsSending
  <1>3. Put'
    <2> SUFFICES ASSUME NEW u \in Tasks, NEW k \in Ids, call'[u].msg.id = k
                 PROVE  /\ call'[u].pc = "send" => Places(k)' = {}
                        /\ call'[u].pc = "sent" => Places(k)' # {}
      BY Zenon DEF Put
    <2>1. CASE u = t
      BY <1>e, <2>1
    <2>2. CASE u # t
      BY <1>e, <1>g, <2>2, Zenon DEF QInv, Put
    <2> QED BY <2>1, <2>2
  <1>4. Taken' /\ UniqueIds' /\ LostWhy'
    BY <1>e DEF QInv, Taken, UniqueIds, LostWhy
  <1>5. Located'
    <2> SUFFICES ASSUME NEW k \in Ids
                 PROVE  /\ received'[k] <= 1
                        /\ \A p, q \in Places(k)' : p = q
                        /\ sent'[k] \in {"unsent", "TIMEOUT"} => Places(k)' = {}
                        /\ sent'[k] = "SUCCESS" => Places(k)' # {}
      BY Zenon DEF Located
    <2>1. received'[k] <= 1 /\ \A p, q \in Places(k)' : p = q
      BY <1>g, Zenon DEF QInv, Located
    <2>2. CASE k = m
      <3>1. /\ status = "SUCCESS" => Places(m) # {}
            /\ status = "TIMEOUT" => Places(m) = {}
        BY DEF QInv, Put
      <3> QED BY <1>f, <1>g, <2>1, <2>2, <3>1
    <2>3. CASE k # m
      <3>1. sent'[k] = sent[k]
        BY <1>f, <2>3
      <3> QED BY <1>g, <2>1, <3>1, Zenon DEF QInv, Located
    <2> QED BY <2>2, <2>3
  <1> QED BY <1>1, <1>2, <1>3, <1>4, <1>5, Zenon DEF QInv

\* The kernel accepts a message, which is then in the queue and nowhere else.
LEMMA PutsStep ==
    ASSUME QInv, NEW t \in Tasks, SendPuts(t)
    PROVE  QInv'
  <1>a. /\ call[t].pc = "send"
        /\ mq' = [mq EXCEPT !.msgs = mq.msgs \cup {call[t].msg}]
        /\ call' = [call EXCEPT ![t] = [call[t] EXCEPT !.pc = "sent"]]
        /\ UNCHANGED <<clock, queue, crashes, sent, received, lost>>
    BY DEF SendPuts
  <1>b. /\ call \in [Tasks -> Calls]
        /\ mq \in [msgsize : Sizes \cup {0}, msgs : SUBSET Message]
    BY Typed, Zenon DEF QInv
  <1>c. call[t].msg \in Message /\ call[t].msg.id \in Ids
    BY <1>a DEF QInv, Sending, IsSending, Message
  <1> PICK k \in Message : k = call[t].msg
    BY <1>c
  <1>d. PICK m \in Ids : m = k.id
    BY <1>c
  <1>e. mq' \in [msgsize : Sizes \cup {0}, msgs : SUBSET Message]
        /\ mq'.msgs = mq.msgs \cup {k}
    BY <1>a, <1>b
  <1>f. call[t] \in Calls
    BY <1>b
  <1>g. /\ call' \in [Tasks -> Calls] /\ call'[t].pc = "sent" /\ call'[t].msg = call[t].msg
        /\ \A u \in Tasks : u # t => call'[u] = call[u]
    BY <1>a, <1>b, <1>f, CallUpdate, OneCall
  <1>1. TypeOK'
    BY <1>a, <1>e, <1>g, Typed, TypedNext, Zenon DEF QInv
  <1>h. Places(m) = {}
    BY <1>a, <1>d DEF QInv, Put
  <1>i. \A l \in mq.msgs : l.id # m
    BY <1>h, PlaceMember, Zenon
  <1>j. "queue" \in Places(m)' /\ \A p \in Places(m)' : p = "queue"
    <2>1. "queue" \in Places(m)'
      BY <1>d, <1>e, PlaceMemberNext
    <2>2. ASSUME NEW CONSTANT p, p \in Places(m)', p # "queue" PROVE FALSE
      <3>1. CASE p \in Tasks /\ call'[p].pc = "return" /\ call'[p].msg.id = m
        <4>1. call[p].pc = "return" /\ call[p].msg.id = m
          BY <1>a, <1>g, <3>1
        <4> QED BY <1>h, <3>1, <4>1, PlaceMember, Zenon
      <3>2. CASE p = "application" /\ received'[m] > 0
        BY <1>a, <1>h, <3>2, PlaceMember
      <3>3. CASE p = "lost" /\ \E l \in lost' : l.msg.id = m
        BY <1>a, <1>h, <3>3, PlaceMember
      <3> QED BY <2>2, <3>1, <3>2, <3>3, PlaceMemberNext, Zenon
    <2> QED BY <2>1, <2>2, Zenon
  <1>k. ASSUME NEW CONSTANT n, n # m PROVE Places(n)' = Places(n)
    <2>1. ASSUME NEW CONSTANT p PROVE p \in Places(n)' <=> p \in Places(n)
      <3>1. (\E l \in mq'.msgs : l.id = n) <=> (\E l \in mq.msgs : l.id = n)
        BY <1>d, <1>e, <1>k
      <3>2. ASSUME p \in Tasks
            PROVE  (call'[p].pc = "return" /\ call'[p].msg.id = n)
                     <=> (call[p].pc = "return" /\ call[p].msg.id = n)
        BY <1>a, <1>g, <3>2
      <3>3. p \in Places(n)' <=>
               \/ p = "queue" /\ \E l \in mq.msgs : l.id = n
               \/ p \in Tasks /\ call[p].pc = "return" /\ call[p].msg.id = n
               \/ p = "application" /\ received[n] > 0
               \/ p = "lost" /\ \E l \in lost : l.msg.id = n
        BY <1>a, <3>1, <3>2, PlaceMemberNext
      <3> QED BY <3>3, PlaceMember, Zenon
    <2> QED BY <2>1, Zenon
  <1>2. Sending'
    <2>1. \A u \in Tasks : /\ call'[u].pc \in {"send", "sent"} <=> IsSending(u)
                           /\ call'[u].msg = call[u].msg
      BY <1>a, <1>g DEF IsSending
    <2> QED BY <1>a, <2>1 DEF QInv, Sending, IsSending
  <1>3. Put'
    <2> SUFFICES ASSUME NEW u \in Tasks, NEW n \in Ids, call'[u].msg.id = n
                 PROVE  /\ call'[u].pc = "send" => Places(n)' = {}
                        /\ call'[u].pc = "sent" => Places(n)' # {}
      BY Zenon DEF Put
    <2>1. CASE u = t
      BY <1>d, <1>g, <1>j, <2>1
    <2>2. CASE u # t
      <3>1. call'[u] = call[u]
        BY <1>g, <2>2
      <3>2. call[u].pc \in {"send", "sent"} => n # m
        BY <1>a, <1>d, <2>2, <3>1 DEF QInv, Sending, IsSending
      <3> QED BY <1>k, <3>1, <3>2 DEF QInv, Put
    <2> QED BY <2>1, <2>2
  <1>4. Taken' /\ LostWhy'
    BY <1>a, <1>g DEF QInv, Taken, LostWhy
  <1>5. UniqueIds'
    BY <1>d, <1>e, <1>i DEF QInv, UniqueIds
  <1>6. Located'
    <2> SUFFICES ASSUME NEW n \in Ids
                 PROVE  /\ received'[n] <= 1
                        /\ \A p, q \in Places(n)' : p = q
                        /\ sent'[n] \in {"unsent", "TIMEOUT"} => Places(n)' = {}
                        /\ sent'[n] = "SUCCESS" => Places(n)' # {}
      BY Zenon DEF Located
    <2>1. received'[n] <= 1
      BY <1>a DEF QInv, Located
    <2>2. CASE n = m
      <3>1. sent'[m] = "calling"
        BY <1>a, <1>d DEF QInv, Sending, IsSending
      <3> QED BY <1>j, <2>1, <2>2, <3>1
    <2>3. CASE n # m
      BY <1>a, <1>k, <2>1, <2>3 DEF QInv, Located
    <2> QED BY <2>2, <2>3
  <1> QED BY <1>1, <1>2, <1>3, <1>4, <1>5, <1>6, Zenon DEF QInv

\* Messages move from a place to another, and no sender is concerned.
LEMMA MoveStep ==
    ASSUME QInv, TypeOK', Taken', UniqueIds', LostWhy',
           \A u \in Tasks : call'[u].pc \in {"send", "sent"} => call'[u] = call[u],
           \A m \in Ids : /\ received'[m] <= 1
                          /\ sent'[m] = sent[m] \/ sent'[m] = "crashed"
                          /\ Places(m)' = {} <=> Places(m) = {}
                          /\ \A p, q \in Places(m)' : p = q,
           sent' = sent \/ \A u \in Tasks : call'[u].pc = "idle"
    PROVE  QInv'
  <1>1. Sending'
    BY DEF QInv, Sending, IsSending
  <1>2. Put'
    <2> SUFFICES ASSUME NEW t \in Tasks, NEW m \in Ids, call'[t].msg.id = m
                 PROVE  /\ call'[t].pc = "send" => Places(m)' = {}
                        /\ call'[t].pc = "sent" => Places(m)' # {}
      BY Zenon DEF Put
    <2> QED BY DEF QInv, Put
  <1>3. Located'
    <2> SUFFICES ASSUME NEW m \in Ids
                 PROVE  /\ received'[m] <= 1
                        /\ \A p, q \in Places(m)' : p = q
                        /\ sent'[m] \in {"unsent", "TIMEOUT"} => Places(m)' = {}
                        /\ sent'[m] = "SUCCESS" => Places(m)' # {}
      BY Zenon DEF Located
    <2> QED BY DEF QInv, Located
  <1> QED BY <1>1, <1>2, <1>3, Zenon DEF QInv

\* A task takes a message: it leaves the queue, where it was and nowhere else.
LEMMA TakesStep ==
    ASSUME QInv, NEW t \in Tasks, RecvTakes(t)
    PROVE  QInv'
  <1> PICK k \in mq.msgs :
        /\ mq' = [mq EXCEPT !.msgs = mq.msgs \ {k}]
        /\ call' = [call EXCEPT ![t] = [call[t] EXCEPT !.pc = "return", !.msg = k]]
    BY DEF RecvTakes
  <1>a. call[t].pc = "recv" /\ UNCHANGED <<clock, queue, crashes, sent, received, lost>>
    BY DEF RecvTakes
  <1>b. /\ call \in [Tasks -> Calls]
        /\ mq \in [msgsize : Sizes \cup {0}, msgs : SUBSET Message]
    BY Typed, Zenon DEF QInv
  <1>c. k \in Message /\ k.id \in Ids
    BY <1>b DEF Message
  <1>d. PICK m \in Ids : m = k.id
    BY <1>c
  <1>e. mq' \in [msgsize : Sizes \cup {0}, msgs : SUBSET Message]
        /\ mq'.msgs = mq.msgs \ {k}
    BY <1>b
  <1>f. call[t] \in Calls
    BY <1>b
  <1>g. /\ call' \in [Tasks -> Calls] /\ call'[t].pc = "return" /\ call'[t].msg = k
        /\ \A u \in Tasks : u # t => call'[u] = call[u]
    <2>1. PICK w \in Calls : w = call[t]
      BY <1>f, Zenon
    <2>2. PICK c : c = [w EXCEPT !.pc = "return", !.msg = k]
      OBVIOUS
    <2>3. c \in Calls /\ c.pc = "return" /\ c.msg = k
      BY <1>c, <2>2 DEF Calls
    <2>4. call' = [call EXCEPT ![t] = c]
      BY <2>1, <2>2
    <2> QED BY <1>b, <2>3, <2>4, OneCall
  <1>1. TypeOK'
    BY <1>a, <1>e, <1>g, Typed, TypedNext, Zenon DEF QInv
  <1>h. "queue" \in Places(m) /\ \A p \in Places(m) : p = "queue"
    <2>1. "queue" \in Places(m)
      BY <1>d, PlaceMember, Zenon
    <2> QED BY <2>1, Zenon DEF QInv, Located
  <1>j. t \in Places(m)' /\ \A p \in Places(m)' : p = t
    <2>1. t \in Places(m)'
      BY <1>d, <1>g, PlaceMemberNext
    <2>2. ASSUME NEW CONSTANT p, p \in Places(m)', p # t PROVE FALSE
      <3>1. CASE p \in Tasks /\ call'[p].pc = "return" /\ call'[p].msg.id = m
        <4>1. call[p].pc = "return" /\ call[p].msg.id = m
          BY <1>g, <2>2, <3>1
        <4>2. p \in Places(m)
          BY <3>1, <4>1, PlaceMember, Zenon
        <4>3. p # "queue"
          BY <3>1, QueueAssumption
        <4> QED BY <1>h, <4>2, <4>3
      <3>2. CASE p = "application" /\ received'[m] > 0
        <4>1. "application" \in Places(m)
          BY <1>a, <3>2, PlaceMember
        <4> QED BY <1>h, <4>1
      <3>3. CASE p = "lost" /\ \E l \in lost' : l.msg.id = m
        <4>1. "lost" \in Places(m)
          BY <1>a, <3>3, PlaceMember
        <4> QED BY <1>h, <4>1
      <3>4. CASE p = "queue" /\ \E l \in mq'.msgs : l.id = m
        BY <1>d, <1>e, <3>4 DEF QInv, UniqueIds
      <3> QED BY <2>2, <3>1, <3>2, <3>3, <3>4, PlaceMemberNext, Zenon
    <2> QED BY <2>1, <2>2, Zenon
  <1>k. ASSUME NEW CONSTANT n, n # m PROVE Places(n)' = Places(n)
    <2>1. ASSUME NEW CONSTANT p PROVE p \in Places(n)' <=> p \in Places(n)
      <3>1. (\E l \in mq'.msgs : l.id = n) <=> (\E l \in mq.msgs : l.id = n)
        BY <1>d, <1>e, <1>k
      <3>2. ASSUME p \in Tasks
            PROVE  (call'[p].pc = "return" /\ call'[p].msg.id = n)
                     <=> (call[p].pc = "return" /\ call[p].msg.id = n)
        BY <1>a, <1>d, <1>g, <1>k, <3>2
      <3>3. p \in Places(n)' <=>
               \/ p = "queue" /\ \E l \in mq.msgs : l.id = n
               \/ p \in Tasks /\ call[p].pc = "return" /\ call[p].msg.id = n
               \/ p = "application" /\ received[n] > 0
               \/ p = "lost" /\ \E l \in lost : l.msg.id = n
        BY <1>a, <3>1, <3>2, PlaceMemberNext
      <3> QED BY <3>3, PlaceMember, Zenon
    <2> QED BY <2>1, Zenon
  <1>2. Taken' /\ UniqueIds' /\ LostWhy'
    BY <1>a, <1>c, <1>e, <1>g DEF QInv, Taken, UniqueIds, LostWhy
  <1>3. ASSUME NEW n \in Ids
        PROVE  /\ received'[n] <= 1
               /\ sent'[n] = sent[n]
               /\ Places(n)' = {} <=> Places(n) = {}
               /\ \A p, q \in Places(n)' : p = q
    <2>1. CASE n = m
      BY <1>a, <1>h, <1>j, <2>1 DEF QInv, Located
    <2>2. CASE n # m
      BY <1>a, <1>k, <2>2 DEF QInv, Located
    <2> QED BY <2>1, <2>2
  <1>4. \A u \in Tasks : call'[u].pc \in {"send", "sent"} => call'[u] = call[u]
    BY <1>g
  <1> QED BY <1>1, <1>2, <1>3, <1>4, <1>a, MoveStep

\* osal_queue_recv returns: the message is the application's, or lost if it is empty.
LEMMA ReturnsStep ==
    ASSUME QInv, NEW t \in Tasks, RecvReturns(t)
    PROVE  QInv'
  <1>a. call[t].pc = "return" /\ UNCHANGED <<clock, mq, queue, crashes, sent>>
    BY DEF RecvReturns
  <1>b. /\ call \in [Tasks -> Calls] /\ received \in [Ids -> Nat]
        /\ lost \subseteq [msg : Message, why : {"crashed", "empty"}]
    BY Typed, Zenon DEF QInv
  <1>c. call[t].msg \in Message
    BY <1>a DEF QInv, Taken
  <1> PICK k \in Message : k = call[t].msg
    BY <1>c
  <1>d. k.id \in Ids /\ k.len \in Nat
    BY QueueAssumption DEF Message
  <1>m. PICK m \in Ids : m = k.id
    BY <1>d
  <1>g. /\ call' \in [Tasks -> Calls] /\ call'[t].pc = "idle"
        /\ \A u \in Tasks : u # t => call'[u] = call[u]
    BY <1>b, IdleTyped, OneCall DEF RecvReturns, Goto
  <1>h. t \in Places(m) /\ \A p \in Places(m) : p = t
    <2>1. t \in Places(m)
      BY <1>a, <1>m, PlaceMember, Zenon
    <2> QED BY <2>1, Zenon DEF QInv, Located
  <1>i. t \notin {"queue", "application", "lost"}
    BY QueueAssumption
  <1>j. /\ ~(\E l \in mq.msgs : l.id = m) /\ ~(received[m] > 0)
        /\ ~(\E l \in lost : l.msg.id = m)
        /\ \A u \in Tasks : u # t => ~(call[u].pc = "return" /\ call[u].msg.id = m)
    BY <1>h, <1>i, PlaceMember, Zenon
  <1>k. received[m] = 0
    BY <1>b, <1>j
  <1>l. \/ /\ received' = [received EXCEPT ![m] = received[m] + 1]
           /\ lost' = lost
        \/ /\ received' = received
           /\ lost' = lost \cup {[msg |-> k, why |-> "empty"]}
           /\ k.len = 0
    BY <1>d, <1>m DEF RecvReturns, Returned
  <1>n. /\ received' \in [Ids -> Nat]
        /\ received'[m] <= 1 /\ \A n \in Ids : n # m => received'[n] = received[n]
        /\ lost' \subseteq [msg : Message, why : {"crashed", "empty"}]
    BY <1>b, <1>k, <1>l
  <1>1. TypeOK'
    BY <1>a, <1>g, <1>n, Typed, TypedNext, Zenon DEF QInv
  <1>2. Taken' /\ UniqueIds' /\ LostWhy'
    BY <1>a, <1>g, <1>l DEF QInv, Taken, UniqueIds, LostWhy
  <1>o. Places(m)' # {} /\ \A p, q \in Places(m)' : p = q
    <2>a. \A p \in Places(m)' : p \in {"application", "lost"}
      BY <1>a, <1>g, <1>j, PlaceMemberNext
    <2>1. CASE received' = [received EXCEPT ![m] = received[m] + 1] /\ lost' = lost
      <3>1. received'[m] > 0
        BY <1>b, <1>k, <2>1
      <3>2. "application" \in Places(m)'
        BY <3>1, PlaceMemberNext
      <3>3. "lost" \notin Places(m)'
        BY <1>j, <1>i, <1>g, <2>1, PlaceMemberNext, QueueAssumption
      <3> QED BY <2>a, <3>2, <3>3
    <2>2. CASE received' = received /\ lost' = lost \cup {[msg |-> k, why |-> "empty"]}
      <3> DEFINE e == [msg |-> k, why |-> "empty"]
      <3>0. e \in lost' /\ e.msg.id = m
        BY <1>m, <2>2
      <3> HIDE DEF e
      <3>1. \E l \in lost' : l.msg.id = m
        BY <3>0, Zenon
      <3>2. "lost" \in Places(m)'
        BY <3>1, PlaceMemberNext
      <3>3. "application" \notin Places(m)'
        BY <1>j, <2>2, PlaceMemberNext, QueueAssumption
      <3> QED BY <2>a, <3>2, <3>3
    <2> QED BY <1>l, <2>1, <2>2
  <1>p. ASSUME NEW n \in Ids, n # m PROVE Places(n)' = Places(n)
    <2>1. ASSUME NEW CONSTANT p PROVE p \in Places(n)' <=> p \in Places(n)
      <3>1. (\E l \in lost' : l.msg.id = n) <=> (\E l \in lost : l.msg.id = n)
        BY <1>l, <1>m, <1>p
      <3>2. ASSUME p \in Tasks
            PROVE  (call'[p].pc = "return" /\ call'[p].msg.id = n)
                     <=> (call[p].pc = "return" /\ call[p].msg.id = n)
        BY <1>m, <1>g, <1>p, <3>2
      <3>3. received'[n] = received[n]
        BY <1>n, <1>p
      <3>4. p \in Places(n)' <=>
               \/ p = "queue" /\ \E l \in mq.msgs : l.id = n
               \/ p \in Tasks /\ call[p].pc = "return" /\ call[p].msg.id = n
               \/ p = "application" /\ received[n] > 0
               \/ p = "lost" /\ \E l \in lost : l.msg.id = n
        BY <1>a, <3>1, <3>2, <3>3, PlaceMemberNext
      <3> QED BY <3>4, PlaceMember, Zenon
    <2> QED BY <2>1, Zenon
  <1>3. ASSUME NEW n \in Ids
        PROVE  /\ received'[n] <= 1
               /\ sent'[n] = sent[n]
               /\ Places(n)' = {} <=> Places(n) = {}
               /\ \A p, q \in Places(n)' : p = q
    <2>1. CASE n = m
      BY <1>a, <1>h, <1>n, <1>o, <2>1
    <2>2. CASE n # m
      <3>1. received[n] <= 1 /\ \A p, q \in Places(n) : p = q
        BY Zenon DEF QInv, Located
      <3> QED BY <1>a, <1>n, <1>p, <2>2, <3>1
    <2> QED BY <2>1, <2>2
  <1>4. \A u \in Tasks : call'[u].pc \in {"send", "sent"} => call'[u] = call[u]
    BY <1>g
  <1> QED BY <1>1, <1>2, <1>3, <1>4, <1>a, MoveStep

\* The program dies: what its tasks had taken is lost, what is in the queue is not.
LEMMA CrashStep ==
    ASSUME QInv, Crash
    PROVE  QInv'
  <1> DEFINE taking == {u \in Tasks : call[u].pc = "return"}
             dead == {[msg |-> call[u].msg, why |-> "crashed"] : u \in taking}
  <1>a. /\ crashes < MaxCrashes /\ crashes' = crashes + 1 /\ queue' = 0
        /\ call' = [u \in Tasks |-> Idle]
        /\ sent' = [m \in Ids |-> IF sent[m] = "calling" THEN "crashed" ELSE sent[m]]
        /\ lost' = lost \cup dead
        /\ UNCHANGED <<clock, mq, received>>
    BY DEF Crash
  <1>b. /\ crashes \in 0..MaxCrashes
        /\ sent \in [Ids -> {"unsent", "calling", "SUCCESS", "TIMEOUT", "crashed"}]
        /\ lost \subseteq [msg : Message, why : {"crashed", "empty"}]
    BY Typed, Zenon DEF QInv
  <1>c. /\ dead \subseteq [msg : Message, why : {"crashed", "empty"}]
        /\ \A l \in dead : l.why = "crashed"
    BY DEF QInv, Taken
  <1>d. \A u \in Tasks : call'[u] = Idle /\ call'[u].pc = "idle"
    BY <1>a, IdleTyped, Zenon
  <1>e. ASSUME NEW CONSTANT m
        PROVE  (\E l \in dead : l.msg.id = m)
                 <=> (\E u \in Tasks : call[u].pc = "return" /\ call[u].msg.id = m)
    <2>1. ASSUME NEW l \in dead, l.msg.id = m
          PROVE  \E u \in Tasks : call[u].pc = "return" /\ call[u].msg.id = m
      <3>1. PICK u \in taking : l = [msg |-> call[u].msg, why |-> "crashed"]
        BY Zenon
      <3>2. l.msg = call[u].msg
        BY <3>1
      <3>3. call[u].msg.id = m
        BY <2>1, <3>2, Zenon
      <3> QED BY <3>3, Zenon
    <2>2. ASSUME NEW u \in Tasks, call[u].pc = "return", call[u].msg.id = m
          PROVE  \E l \in dead : l.msg.id = m
      <3>1. [msg |-> call[u].msg, why |-> "crashed"] \in dead
        BY <2>2, Zenon
      <3>2. [msg |-> call[u].msg, why |-> "crashed"].msg.id = m
        BY <2>2
      <3> QED BY <3>1, <3>2, Zenon
    <2> QED BY <2>1, <2>2, Zenon
  <1> HIDE DEF dead, taking
  <1>1. TypeOK'
    <2>1. crashes' \in 0..MaxCrashes /\ queue' \in Sizes \cup {0}
      BY <1>a, <1>b, QueueAssumption
    <2>2. /\ sent' \in [Ids -> {"unsent", "calling", "SUCCESS", "TIMEOUT", "crashed"}]
          /\ lost' \subseteq [msg : Message, why : {"crashed", "empty"}]
      BY <1>a, <1>b, <1>c
    <2>3. call' \in [Tasks -> Calls]
      BY <1>a, IdleTyped, Zenon
    <2> QED BY <1>a, <2>1, <2>2, <2>3, Typed, TypedNext, Zenon DEF QInv
  <1>2. Taken' /\ UniqueIds' /\ LostWhy'
    BY <1>a, <1>c, <1>d DEF QInv, Taken, UniqueIds, LostWhy
  <1>3. ASSUME NEW m \in Ids
        PROVE  /\ received'[m] <= 1
               /\ sent'[m] = sent[m] \/ sent'[m] = "crashed"
               /\ Places(m)' = {} <=> Places(m) = {}
               /\ \A p, q \in Places(m)' : p = q
    <2>1. received'[m] <= 1 /\ (sent'[m] = sent[m] \/ sent'[m] = "crashed")
      BY <1>a DEF QInv, Located
    <2>2. \A p, q \in Places(m) : p = q
      BY Zenon DEF QInv, Located
    <2>3. (\E l \in lost' : l.msg.id = m) <=>
            \/ \E l \in lost : l.msg.id = m
            \/ \E u \in Tasks : call[u].pc = "return" /\ call[u].msg.id = m
      BY <1>a, <1>e
    <2>4. ASSUME NEW CONSTANT p
          PROVE  p \in Places(m)' <=>
                   \/ p \in {"queue", "application", "lost"} /\ p \in Places(m)
                   \/ p = "lost" /\ \E u \in Tasks : u \in Places(m)
      <3>1. p \in Places(m)' <=>
               \/ p = "queue" /\ \E l \in mq.msgs : l.id = m
               \/ p = "application" /\ received[m] > 0
               \/ p = "lost" /\ \E l \in lost : l.msg.id = m
               \/ p = "lost" /\ \E u \in Tasks : call[u].pc = "return" /\ call[u].msg.id = m
        BY <1>a, <1>d, <2>3, PlaceMemberNext
      <3>2. ASSUME NEW u \in Tasks
            PROVE  u \in Places(m) <=> call[u].pc = "return" /\ call[u].msg.id = m
        BY PlaceMember, QueueAssumption
      <3>3. ("queue" \in Places(m) <=> \E l \in mq.msgs : l.id = m)
        BY PlaceMember, QueueAssumption
      <3>4. ("application" \in Places(m) <=> received[m] > 0)
        BY PlaceMember, QueueAssumption
      <3>5. ("lost" \in Places(m) <=> \E l \in lost : l.msg.id = m)
        BY PlaceMember, QueueAssumption
      <3> QED BY <3>1, <3>2, <3>3, <3>4, <3>5
    <2>5. \A p \in Places(m) : p \in Tasks \/ p \in {"queue", "application", "lost"}
      BY PlaceMember
    <2>6. Places(m)' = {} <=> Places(m) = {}
      BY <2>4, <2>5
    <2>7. \A p, q \in Places(m)' : p = q
      BY <2>2, <2>4, QueueAssumption
    <2> QED BY <2>1, <2>6, <2>7
  <1>4. \A u \in Tasks : call'[u].pc \in {"send", "sent"} => call'[u] = call[u]
    BY <1>d
  <1> QED BY <1>1, <1>2, <1>3, <1>4, <1>d, MoveStep

\* The steps that move no message.
LEMMA OtherSteps ==
    ASSUME QInv,
           \/ Create \/ Delete \/ Tick \/ UNCHANGED vars
           \/ \E t \in Tasks : Recv(t) \/ RecvFails(t) \/ RecvInterrupted(t)
    PROVE  QInv'
  <1>a. /\ call \in [Tasks -> Calls] /\ clock \in 0..MaxTime /\ queue \in Sizes \cup {0}
        /\ mq \in [msgsize : Sizes \cup {0}, msgs : SUBSET Message]
    BY Typed, Zenon DEF QInv
  <1>1. CASE Create
    <2>1. /\ mq' \in [msgsize : Sizes \cup {0}, msgs : SUBSET Message] /\ mq'.msgs = mq.msgs
          /\ queue' \in Sizes \cup {0}
      BY <1>1, <1>a DEF Create, Opened
    <2>2. UNCHANGED <<clock, call, crashes, sent, received, lost>>
      BY <1>1 DEF Create
    <2>3. TypeOK'
      BY <2>1, <2>2, Typed, TypedNext, Zenon DEF QInv
    <2> QED BY <2>1, <2>2, <2>3, QuietStep
  <1>2. CASE Delete \/ Tick \/ UNCHANGED vars
    <2>1. UNCHANGED <<mq, call, crashes, sent, received, lost>>
      BY <1>2 DEF Delete, Tick, vars
    <2>2. clock' \in 0..MaxTime /\ queue' \in Sizes \cup {0}
      BY <1>2, <1>a, QueueAssumption DEF Delete, Tick, vars
    <2>3. TypeOK'
      BY <2>1, <2>2, Typed, TypedNext, Zenon DEF QInv
    <2> QED BY <2>1, <2>3, QuietStep
  <1>3. ASSUME NEW t \in Tasks, NEW c \in Calls, call[t].pc # "return",
               c = call[t] \/ c.pc \in {"idle", "recv"},
               call' = [call EXCEPT ![t] = c],
               UNCHANGED <<clock, mq, queue, crashes, sent, received, lost>>
        PROVE  QInv'
    <2>1. /\ call' \in [Tasks -> Calls] /\ call'[t] = c
          /\ \A u \in Tasks : u # t => call'[u] = call[u]
      BY <1>3, <1>a, OneCall
    <2>2. TypeOK'
      BY <1>3, <2>1, Typed, TypedNext, Zenon DEF QInv
    <2>3. \A u \in Tasks : \/ call'[u] = call[u]
                           \/ call[u].pc # "return" /\ call'[u].pc \in {"idle", "recv"}
      BY <1>3, <2>1
    <2> QED BY <1>3, <2>2, <2>3, QuietStep
  <1>4. ASSUME NEW t \in Tasks, Recv(t) PROVE QInv'
    <2> PICK timeout \in Timeouts \cup {Forever} :
            /\ Deadline(timeout) <= MaxTime
            /\ call' = [call EXCEPT ![t] =
                    [pc |-> "recv", msg |-> NoMessage, size |-> queue,
                     timeout |-> timeout, deadline |-> Deadline(timeout)]]
      BY <1>4, Zenon DEF Recv, Goto
    <2> DEFINE c == [pc |-> "recv", msg |-> NoMessage, size |-> queue,
                     timeout |-> timeout, deadline |-> Deadline(timeout)]
    <2>1. Deadline(timeout) \in 0..MaxTime \cup {Forever}
      BY <1>a, DeadlineTyped
    <2>2. c \in Calls /\ c.pc = "recv"
      BY <1>a, <2>1 DEF Calls
    <2>3. call' = [call EXCEPT ![t] = c]
      OBVIOUS
    <2> HIDE DEF c
    <2>4. call[t].pc # "return"
          /\ UNCHANGED <<clock, mq, queue, crashes, sent, received, lost>>
      BY <1>4 DEF Recv
    <2> QED BY <1>3, <2>2, <2>3, <2>4
  <1>5. ASSUME NEW t \in Tasks, RecvFails(t) \/ RecvInterrupted(t) PROVE QInv'
    <2>1. call[t].pc # "return"
          /\ UNCHANGED <<clock, mq, queue, crashes, sent, received, lost>>
      BY <1>5 DEF RecvFails, RecvInterrupted
    <2>2. CASE call' = [call EXCEPT ![t] = Idle]
      BY <1>3, <2>1, <2>2, IdleTyped
    <2>3. CASE call' = [call EXCEPT ![t] = [call[t] EXCEPT !.deadline = call[t].deadline]]
      <3>1. call[t] \in Calls
        BY <1>a
      <3>2. call' = [call EXCEPT ![t] = call[t]]
        BY <2>3, <3>1, CallUpdate
      <3> QED BY <1>3, <2>1, <3>1, <3>2
    <2> QED BY <1>5, <2>2, <2>3 DEF RecvFails, RecvInterrupted, Goto, RetryDeadline
  <1> QED BY <1>1, <1>2, <1>4, <1>5

\* All parts of the inductive invariant hold always.
LEMMA Invariance == Spec => []QInv
  <1>1. QInv /\ [Next]_vars => QInv'
    <2> SUFFICES ASSUME QInv, [Next]_vars PROVE QInv'
      OBVIOUS
    <2>1. ASSUME NEW t \in Tasks, Progress(t) \/ SendInterrupted(t) PROVE QInv'
      <3>1. CASE SendPuts(t)
        BY <3>1, PutsStep
      <3>2. CASE SendDone(t)
        BY <3>2, SendReturnStep DEF SendDone
      <3>3. CASE SendFails(t) \/ SendInterrupted(t)
        BY <3>3, SendReturnStep DEF SendFails, SendInterrupted
      <3>4. CASE RecvTakes(t) \/ RecvReturns(t) \/ RecvFails(t)
        BY <3>4, TakesStep, ReturnsStep, OtherSteps
      <3> QED BY <2>1, <3>1, <3>2, <3>3, <3>4 DEF Progress
    <2> QED BY <2>1, SendStep, CrashStep, OtherSteps, Zenon DEF Next
  <1> QED BY InitHolds, <1>1, PTL DEF Spec

\* For any number of tasks, messages, sizes, timeouts and crashes: a message whose send
\* reported SUCCESS is in exactly one place, received at most once and lost only if it
\* is empty or with a task that died holding it; one whose send reported a timeout is
\* never received (osal_queue_send, osal_queue_recv).
THEOREM ExactlyOnceCorrect == Spec => []ExactlyOnce
  <1>1. QInv => ExactlyOnce
    <2> SUFFICES ASSUME QInv PROVE ExactlyOnce
      OBVIOUS
    <2>1. ASSUME NEW m \in Ids PROVE received[m] <= 1 /\ PlacesOf(sent[m], Places(m))
      <3>1. sent[m] \in {"unsent", "calling", "SUCCESS", "TIMEOUT", "crashed"}
        BY Typed, Zenon DEF QInv
      <3>2. /\ received[m] <= 1 /\ \A p, q \in Places(m) : p = q
            /\ sent[m] \in {"unsent", "TIMEOUT"} => Places(m) = {}
            /\ sent[m] = "SUCCESS" => Places(m) # {}
        BY Zenon DEF QInv, Located
      <3>3. sent[m] = "SUCCESS" => \E p \in Places(m) : Places(m) = {p}
        BY <3>2
      <3> QED BY <3>1, <3>2, <3>3 DEF PlacesOf
    <2>2. LostWhy
      BY DEF QInv
    <2> QED BY <2>1, <2>2 DEF ExactlyOnce, LostWhy
  <1> QED BY Invariance, <1>1, PTL

\* For any number of tasks, messages, sizes, timeouts and crashes: every state has its
\* type, across crashes and retries (osal_queue_create, osal_queue_send, osal_queue_recv).
THEOREM QueueTypeCorrect == Spec => []TypeOK
  BY Invariance, PTL DEF QInv
=============================================================================
