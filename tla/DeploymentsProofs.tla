-------------------------- MODULE DeploymentsProofs --------------------------
(***************************************************************************)
(* Proofs about the two deployments of the demo, for any requests and      *)
(* calls.  First the tasks, the blocking threads and the mutex of the      *)
(* server, for any number of threads and any clock: types, the order of    *)
(* the board's timestamps, and that the server implements RequestService.  *)
(* Then the page that carries its own instance (WasmBridge): its messages  *)
(* are answered in order, its calls implement RequestService, and so do    *)
(* both deployments.                                                       *)
(***************************************************************************)
EXTENDS MCDeployments, SequenceTheorems, TLAPS

-----------------------------------------------------------------------------
(* The inductive invariant *)

Types ==
    /\ TypeOK
    /\ view \in [Changes -> [log : Seq(Entry), at : Nat]]
    /\ value \in [Requests -> Seq(Entry) \union {None}]
    /\ demo \in [log : Seq(Entry), torn : BOOLEAN]

\* The closure that runs is the one that holds the lock, and elections that are half
\* changed are either being worked on or behind a poisoned lock.
Lock ==
    /\ \A r \in Changes : closure[r] = "running" <=> holder = r
    /\ demo.torn => holder # None \/ poisoned

NoLaterThan(t) == \A i \in DOMAIN demo.log : demo.log[i].at =< t

\* What the closure has looked at is still so, and it has looked at the clock since the
\* last entry was made.
Fresh ==
    \A r \in Changes : closure[r] = "running" =>
        /\ view[r].log = demo.log
        /\ view[r].at =< time
        /\ NoLaterThan(view[r].at)

\* A request that has taken effect will not do so again.
Effects ==
    \A r \in Requests : value[r] # None =>
        IF r \in Changes THEN closure[r] = "returned" ELSE task[r] \in {"woken", "ended"}

Stages ==
    \A r \in Requests :
        /\ client[r] = "idle" => task[r] = "none" /\ (r \in Changes => closure[r] = "none")
        /\ client[r] = "answered" => value[r] # None
        /\ task[r] \in {"none", "ready"} => (r \in Changes => closure[r] = "none")
        /\ task[r] = "blocked" => r \in Reads

IInv ==
    /\ Types
    /\ Lock
    /\ Fresh
    /\ Effects
    /\ Stages
    /\ NoLaterThan(time)
    /\ BoardInTimeOrder

-----------------------------------------------------------------------------
(* What the parts of the state are *)

LEMMA Parts ==
    /\ Changes \subseteq Requests /\ Reads \subseteq Requests /\ Others \subseteq Requests
    /\ Changes \intersect Reads = {} /\ Changes \intersect Others = {}
    /\ Reads \intersect Others = {}
    /\ None \notin Requests /\ None \notin Changes
BY RequestsAssumption, NoneAssumption DEF Requests

\* A log with one more entry.
LEMMA LongerLog ==
    ASSUME NEW l \in Seq(Entry), NEW e \in Entry
    PROVE  /\ l \o <<>> = l
           /\ l \o <<e>> \in Seq(Entry)
           /\ DOMAIN (l \o <<e>>) = DOMAIN l \union {Len(l) + 1}
           /\ \A i \in DOMAIN l : i =< Len(l) /\ (l \o <<e>>)[i] = l[i]
           /\ (l \o <<e>>)[Len(l) + 1] = e
           /\ Len(l) + 1 \notin DOMAIN l
OBVIOUS

\* The requests of a log are a sequence of requests, which grows with the log.
LEMMA RequestsOfLog ==
    ASSUME NEW l \in Seq(Entry)
    PROVE  /\ RequestsOf(l) \in Seq(Requests)
           /\ \A e \in Entry : RequestsOf(l \o <<e>>) = Append(RequestsOf(l), e.request)
<1>1. RequestsOf(l) \in Seq(Requests)
  <2>1. l \in [1..Len(l) -> Entry]
    OBVIOUS
  <2>2. \A i \in 1..Len(l) : l[i].request \in Requests
    BY <2>1 DEF Entry
  <2>3. [i \in 1..Len(l) |-> l[i].request] \in Seq(Requests)
    BY <2>2, IsASeq
  <2>. QED  BY <2>1, <2>3 DEF RequestsOf
<1>2. ASSUME NEW e \in Entry
      PROVE  RequestsOf(l \o <<e>>) = Append(RequestsOf(l), e.request)
  <2>. DEFINE new == l \o <<e>>
  <2>1. new \in Seq(Entry) /\ Len(new) = Len(l) + 1 /\ DOMAIN new = 1..Len(l) + 1
    OBVIOUS
  <2>2. /\ \A i \in 1..Len(l) : new[i] = l[i]
        /\ new[Len(l) + 1] = e
    OBVIOUS
  <2>3. RequestsOf(new) = [i \in 1..Len(l) + 1 |-> new[i].request]
    BY <2>1 DEF RequestsOf
  <2>4. RequestsOf(l) = [i \in 1..Len(l) |-> l[i].request]
    BY DEF RequestsOf
  <2>5. Len(RequestsOf(l)) = Len(l)
    BY <1>1, <2>4
  <2>. HIDE DEF new
  <2>6. Append(RequestsOf(l), e.request) =
          [i \in 1..Len(l) + 1 |->
              IF i = Len(l) + 1 THEN e.request ELSE RequestsOf(l)[i]]
    BY <1>1, <2>5, AppendProperties
  <2>7. \A i \in 1..Len(l) + 1 :
          new[i].request = IF i = Len(l) + 1 THEN e.request ELSE RequestsOf(l)[i]
    BY <2>2, <2>4
  <2>8. RequestsOf(new) = Append(RequestsOf(l), e.request)
    BY <2>3, <2>6, <2>7
  <2>. QED  BY <2>8 DEF new
<1>. QED  BY <1>1, <1>2

-----------------------------------------------------------------------------
(* Invariance *)

LEMMA InitIInv == Init => IInv
<1>. SUFFICES ASSUME Init PROVE IInv
  OBVIOUS
<1>. USE Parts DEF Init
<1>1. Types
  <2>1. <<>> \in Seq(Entry) /\ NoView \in [log : Seq(Entry), at : Nat]
    BY DEF NoView
  <2>2. TypeOK
    BY DEF TypeOK
  <2>. QED  BY <2>1, <2>2 DEF Types
<1>2. Lock /\ Fresh /\ Effects /\ Stages
  BY DEF Lock, Fresh, Effects, Stages
<1>3. NoLaterThan(time) /\ BoardInTimeOrder
  BY DEF NoLaterThan, BoardInTimeOrder
<1>. QED  BY <1>1, <1>2, <1>3 DEF IInv

\* The log is a value, and while the lock is free and not poisoned it is what one sees.
LEMMA WholeLog ==
    ASSUME IInv
    PROVE  /\ demo.log \in Seq(Entry) /\ demo.log # None
           /\ holder = None /\ ~poisoned => Visible = demo.log
           /\ \A i \in DOMAIN demo.log : demo.log[i].at \in Nat
<1>1. demo.log \in Seq(Entry) /\ demo.log # None
  BY NoneAssumption DEF IInv, Types
<1>2. \A i \in DOMAIN demo.log : demo.log[i] \in Entry
  BY <1>1
<1>3. \A e \in Entry : e.at \in Nat
  BY DEF Entry
<1>. QED  BY <1>1, <1>2, <1>3 DEF IInv, Types, Lock, Visible

\* What a handler that returns leaves: its own answer is the new log.
LEMMA ReturnEffect ==
    ASSUME IInv, NEW r \in Changes, Return(r)
    PROVE  LET e == [request |-> r, at |-> view[r].at]
           IN  /\ e \in Entry /\ e.request = r /\ e.at = view[r].at
               /\ \/ demo'.log = demo.log
                  \/ demo'.log = demo.log \o <<e>>
               /\ demo'.log \in Seq(Entry) /\ demo'.log # None
               /\ demo' \in [log : Seq(Entry), torn : BOOLEAN] /\ demo'.torn = FALSE
               /\ value' = [value EXCEPT ![r] = demo'.log]
<1>. DEFINE e == [request |-> r, at |-> view[r].at]
<1>1. e \in Entry /\ view[r].log = demo.log
  BY Parts DEF IInv, Types, Fresh, Return, Entry
<1>2. PICK entry \in {<<>>, <<e>>} :
        /\ demo' = [log |-> demo.log \o entry, torn |-> FALSE]
        /\ value' = [value EXCEPT ![r] = view[r].log \o entry]
  BY DEF Return
<1>3. demo.log \o <<>> = demo.log /\ demo.log \o <<e>> \in Seq(Entry)
  <2>. HIDE DEF e
  <2>. QED  BY <1>1, WholeLog, LongerLog
<1>4. demo.log \o entry \in Seq(Entry)
  BY <1>2, <1>3, WholeLog
<1>5. demo' \in [log : Seq(Entry), torn : BOOLEAN] /\ demo'.torn = FALSE
  BY <1>2, <1>4
<1>. QED  BY <1>1, <1>2, <1>3, <1>4, <1>5, WholeLog, NoneAssumption

LEMMA NextIInv == IInv /\ [Next]_vars => IInv'
<1>. SUFFICES ASSUME IInv, [Next]_vars PROVE IInv'
  OBVIOUS
<1>. USE Parts, WholeLog DEF IInv
<1>1. ASSUME NEW r \in Requests, Ask(r) PROVE IInv'
  <2>1. Types'
    BY <1>1 DEF Ask, Types, TypeOK
  <2>2. Lock'
    BY <1>1 DEF Ask, Lock, Types, TypeOK
  <2>3. Fresh'
    BY <1>1 DEF Ask, Fresh, NoLaterThan, Types, TypeOK
  <2>4. Effects'
    BY <1>1 DEF Ask, Effects, Stages, Types, TypeOK
  <2>5. Stages'
    BY <1>1 DEF Ask, Stages, Types, TypeOK
  <2>6. NoLaterThan(time)' /\ BoardInTimeOrder'
    BY <1>1 DEF Ask, NoLaterThan, BoardInTimeOrder
  <2>. QED  BY <2>1, <2>2, <2>3, <2>4, <2>5, <2>6
<1>2. ASSUME NEW r \in Requests, SpawnBlocking(r) PROVE IInv'
  <2>1. Types'
    BY <1>2 DEF SpawnBlocking, Types, TypeOK
  <2>2. Lock'
    BY <1>2 DEF SpawnBlocking, Lock, Stages, Types, TypeOK
  <2>3. Fresh'
    BY <1>2 DEF SpawnBlocking, Fresh, NoLaterThan, Types, TypeOK
  <2>4. Effects'
    BY <1>2 DEF SpawnBlocking, Effects, Stages, Types, TypeOK
  <2>5. Stages'
    BY <1>2 DEF SpawnBlocking, Stages, Types, TypeOK
  <2>6. NoLaterThan(time)' /\ BoardInTimeOrder'
    BY <1>2 DEF SpawnBlocking, NoLaterThan, BoardInTimeOrder
  <2>. QED  BY <2>1, <2>2, <2>3, <2>4, <2>5, <2>6
<1>3. ASSUME NEW r \in Requests, LockOnWorker(r) PROVE IInv'
  <2>1. Types'
    BY <1>3 DEF LockOnWorker, Types, TypeOK
  <2>2. Lock'
    BY <1>3 DEF LockOnWorker, Lock, Types, TypeOK
  <2>3. Fresh'
    BY <1>3 DEF LockOnWorker, Fresh, NoLaterThan, Types, TypeOK
  <2>4. Effects'
    BY <1>3 DEF LockOnWorker, Effects, Types, TypeOK
  <2>5. Stages'
    BY <1>3 DEF LockOnWorker, Stages, Types, TypeOK
  <2>6. NoLaterThan(time)' /\ BoardInTimeOrder'
    BY <1>3 DEF LockOnWorker, NoLaterThan, BoardInTimeOrder
  <2>. QED  BY <2>1, <2>2, <2>3, <2>4, <2>5, <2>6
<1>4. ASSUME NEW r \in Requests, AnswerWithoutDemo(r) PROVE IInv'
  <2>1. Types'
    <3>1. value' \in [Requests -> Seq(Entry) \union {None}]
      BY <1>4 DEF AnswerWithoutDemo, Types
    <3>. QED  BY <1>4, <3>1 DEF AnswerWithoutDemo, Types, TypeOK
  <2>2. Lock'
    BY <1>4 DEF AnswerWithoutDemo, Lock, Types, TypeOK
  <2>3. Fresh'
    BY <1>4 DEF AnswerWithoutDemo, Fresh, NoLaterThan, Types, TypeOK
  <2>4. Effects'
    BY <1>4 DEF AnswerWithoutDemo, Effects, Types, TypeOK
  <2>5. Stages'
    BY <1>4 DEF AnswerWithoutDemo, Stages, Types, TypeOK
  <2>6. NoLaterThan(time)' /\ BoardInTimeOrder'
    BY <1>4 DEF AnswerWithoutDemo, NoLaterThan, BoardInTimeOrder
  <2>. QED  BY <2>1, <2>2, <2>3, <2>4, <2>5, <2>6
<1>5. ASSUME NEW r \in Requests, ReadDemo(r) PROVE IInv'
  <2>1. Types'
    <3>1. value' \in [Requests -> Seq(Entry) \union {None}]
      BY <1>5 DEF ReadDemo, Types
    <3>. QED  BY <1>5, <3>1 DEF ReadDemo, Types, TypeOK
  <2>2. Lock'
    BY <1>5 DEF ReadDemo, Lock, Types, TypeOK
  <2>3. Fresh'
    BY <1>5 DEF ReadDemo, Fresh, NoLaterThan, Types, TypeOK
  <2>4. Effects'
    BY <1>5 DEF ReadDemo, Effects, Stages, Types, TypeOK
  <2>5. Stages'
    BY <1>5 DEF ReadDemo, Stages, Types, TypeOK
  <2>6. NoLaterThan(time)' /\ BoardInTimeOrder'
    BY <1>5 DEF ReadDemo, NoLaterThan, BoardInTimeOrder
  <2>. QED  BY <2>1, <2>2, <2>3, <2>4, <2>5, <2>6
<1>6. ASSUME NEW r \in Requests, UnwrapPanics(r) PROVE IInv'
  <2>1. Types'
    BY <1>6 DEF UnwrapPanics, Types, TypeOK
  <2>2. Lock'
    BY <1>6 DEF UnwrapPanics, Lock, Types, TypeOK
  <2>3. Fresh'
    BY <1>6 DEF UnwrapPanics, Fresh, NoLaterThan, Types, TypeOK
  <2>4. Effects'
    BY <1>6 DEF UnwrapPanics, Effects, Types, TypeOK
  <2>5. Stages'
    BY <1>6 DEF UnwrapPanics, Stages, Types, TypeOK
  <2>6. NoLaterThan(time)' /\ BoardInTimeOrder'
    BY <1>6 DEF UnwrapPanics, NoLaterThan, BoardInTimeOrder
  <2>. QED  BY <2>1, <2>2, <2>3, <2>4, <2>5, <2>6
<1>7. ASSUME NEW r \in Requests, Respond(r) PROVE IInv'
  <2>1. Types'
    BY <1>7 DEF Respond, Types, TypeOK
  <2>2. Lock'
    BY <1>7 DEF Respond, Lock, Types, TypeOK
  <2>3. Fresh'
    BY <1>7 DEF Respond, Fresh, NoLaterThan, Types, TypeOK
  <2>4. Effects'
    BY <1>7 DEF Respond, Effects, Types, TypeOK
  <2>5. Stages'
    BY <1>7 DEF Respond, Stages, Types, TypeOK
  <2>6. NoLaterThan(time)' /\ BoardInTimeOrder'
    BY <1>7 DEF Respond, NoLaterThan, BoardInTimeOrder
  <2>. QED  BY <2>1, <2>2, <2>3, <2>4, <2>5, <2>6
<1>8. ASSUME NEW r \in Requests, Disconnect(r) PROVE IInv'
  <2>1. Types'
    BY <1>8 DEF Disconnect, Types, TypeOK
  <2>2. Lock'
    BY <1>8 DEF Disconnect, Lock, Types, TypeOK
  <2>3. Fresh'
    BY <1>8 DEF Disconnect, Fresh, NoLaterThan, Types, TypeOK
  <2>4. Effects'
    BY <1>8 DEF Disconnect, Effects, Types, TypeOK
  <2>5. Stages'
    BY <1>8 DEF Disconnect, Stages, Types, TypeOK
  <2>6. NoLaterThan(time)' /\ BoardInTimeOrder'
    BY <1>8 DEF Disconnect, NoLaterThan, BoardInTimeOrder
  <2>. QED  BY <2>1, <2>2, <2>3, <2>4, <2>5, <2>6
<1>9. ASSUME NEW r \in Changes, LockAndCall(r) PROVE IInv'
  <2>1. Types'
    <3>1. [log |-> Visible, at |-> time] \in [log : Seq(Entry), at : Nat]
      BY <1>9 DEF LockAndCall, Types, TypeOK
    <3>2. view' \in [Changes -> [log : Seq(Entry), at : Nat]]
      BY <1>9, <3>1 DEF LockAndCall, Types
    <3>3. demo' \in [log : Seq(Entry), torn : BOOLEAN]
      BY <1>9 DEF LockAndCall, Types
    <3>4. demo'.torn \in BOOLEAN
      BY <3>3
    <3>. QED  BY <1>9, <3>2, <3>3, <3>4 DEF LockAndCall, Types, TypeOK
  <2>2. Lock'
    BY <1>9 DEF LockAndCall, Lock, Types, TypeOK
  <2>3. Fresh'
    <3>1. /\ view'[r] = [log |-> demo.log, at |-> time]
          /\ demo'.log = demo.log /\ time' = time
      BY <1>9 DEF LockAndCall, Types
    <3>2. \A c \in Changes : closure'[c] = "running" => c = r
      BY <1>9 DEF LockAndCall, Lock, Types, TypeOK
    <3>. QED  BY <3>1, <3>2 DEF Fresh, NoLaterThan, Types, TypeOK
  <2>4. Effects'
    BY <1>9 DEF LockAndCall, Effects, Types, TypeOK
  <2>5. Stages'
    BY <1>9 DEF LockAndCall, Stages, Types, TypeOK
  <2>6. NoLaterThan(time)' /\ BoardInTimeOrder'
    BY <1>9 DEF LockAndCall, NoLaterThan, BoardInTimeOrder
  <2>. QED  BY <2>1, <2>2, <2>3, <2>4, <2>5, <2>6
<1>10. ASSUME NEW r \in Changes, LockFails(r) PROVE IInv'
  <2>1. Types'
    BY <1>10 DEF LockFails, Wake, Types, TypeOK
  <2>2. Lock'
    BY <1>10 DEF LockFails, Wake, Lock, Types, TypeOK
  <2>3. Fresh'
    BY <1>10 DEF LockFails, Wake, Fresh, NoLaterThan, Types, TypeOK
  <2>4. Effects'
    BY <1>10 DEF LockFails, Wake, Effects, Types, TypeOK
  <2>5. Stages'
    BY <1>10 DEF LockFails, Wake, Stages, Types, TypeOK
  <2>6. NoLaterThan(time)' /\ BoardInTimeOrder'
    BY <1>10 DEF LockFails, NoLaterThan, BoardInTimeOrder
  <2>. QED  BY <2>1, <2>2, <2>3, <2>4, <2>5, <2>6
<1>11. ASSUME NEW r \in Changes, Return(r) PROVE IInv'
  <2>1. Types'
    <3>1. value' \in [Requests -> Seq(Entry) \union {None}]
      BY <1>11, ReturnEffect DEF Types
    <3>2. demo' \in [log : Seq(Entry), torn : BOOLEAN] /\ demo'.torn = FALSE
      BY <1>11, ReturnEffect
    <3>. QED  BY <1>11, <3>1, <3>2 DEF Return, Wake, Types, TypeOK
  <2>2. Lock'
    BY <1>11 DEF Return, Wake, Lock, Types, TypeOK
  <2>3. Fresh'
    <3>1. \A c \in Changes : closure'[c] # "running"
      BY <1>11 DEF Return, Lock, Types, TypeOK
    <3>. QED  BY <3>1 DEF Fresh
  <2>4. Effects'
    <3>1. value' = [value EXCEPT ![r] = demo'.log]
      BY <1>11, ReturnEffect
    <3>. QED  BY <1>11, <3>1 DEF Return, Wake, Effects, Types, TypeOK
  <2>5. Stages'
    <3>1. value' = [value EXCEPT ![r] = demo'.log] /\ demo'.log # None
      BY <1>11, ReturnEffect
    <3>2. /\ closure' = [closure EXCEPT ![r] = "returned"]
          /\ task' = [task EXCEPT ![r] = IF @ = "parked" THEN "woken" ELSE @]
          /\ closure[r] = "running" /\ client' = client
      BY <1>11 DEF Return, Wake
    <3>3. ASSUME NEW q \in Requests, q # r
          PROVE  /\ client'[q] = client[q] /\ task'[q] = task[q] /\ value'[q] = value[q]
                 /\ q \in Changes => closure'[q] = closure[q]
      BY <3>1, <3>2, <3>3 DEF Types, TypeOK
    <3>4. /\ closure'[r] = "returned" /\ value'[r] # None
          /\ client[r] # "idle" /\ task[r] \notin {"none", "ready", "blocked"}
          /\ task'[r] \notin {"none", "ready", "blocked"} /\ client'[r] # "idle"
      BY <1>11, <3>1, <3>2, RequestsAssumption DEF Types, TypeOK, Stages, Requests
    <3>. QED  BY <3>3, <3>4 DEF Stages
  <2>6. NoLaterThan(time)' /\ BoardInTimeOrder'
    <3>. DEFINE e == [request |-> r, at |-> view[r].at]
    <3>1. e \in Entry /\ e.at = view[r].at /\ view[r].at =< time /\ time' = time
      BY <1>11, ReturnEffect DEF Fresh, Return
    <3>2. NoLaterThan(view[r].at)
      BY <1>11 DEF Fresh, Return
    <3>. HIDE DEF e
    <3>3. CASE demo'.log = demo.log
      BY <3>1, <3>3 DEF NoLaterThan, BoardInTimeOrder
    <3>4. CASE demo'.log = demo.log \o <<e>>
      <4>. DEFINE new == demo.log \o <<e>>  n == Len(demo.log) + 1
      <4>1. /\ DOMAIN new = DOMAIN demo.log \union {n}
            /\ \A i \in DOMAIN demo.log : i < n /\ new[i] = demo.log[i]
            /\ new[n] = e /\ n \in Nat
        BY <3>1, LongerLog
      <4>2. \A i \in DOMAIN new : new[i].at =< view[r].at
        BY <3>1, <3>2, <4>1 DEF NoLaterThan, Entry
      <4>3. \A i \in DOMAIN new : new[i].at \in Nat
        <5>1. e.at \in Nat
          BY <3>1 DEF Entry
        <5>. QED  BY <4>1, <5>1, WholeLog
      <4>4. \A i, j \in DOMAIN new : i < j => new[i].at =< new[j].at
        BY <3>1, <4>1, <4>2 DEF BoardInTimeOrder
      <4>. HIDE DEF new, n
      <4>5. demo'.log = new /\ time' \in Nat /\ view[r].at \in Nat
        BY <3>1, <3>4 DEF new, Types, TypeOK, Entry
      <4>. QED  BY <3>1, <4>2, <4>3, <4>4, <4>5 DEF NoLaterThan, BoardInTimeOrder
    <3>. QED  BY <1>11, <3>3, <3>4, ReturnEffect DEF e
  <2>. QED  BY <2>1, <2>2, <2>3, <2>4, <2>5, <2>6
<1>12. ASSUME NEW r \in Changes, Panic(r) PROVE IInv'
  <2>1. Types'
    BY <1>12 DEF Panic, Wake, Types, TypeOK
  <2>2. Lock'
    BY <1>12 DEF Panic, Wake, Lock, Types, TypeOK
  <2>3. Fresh'
    BY <1>12 DEF Panic, Wake, Fresh, NoLaterThan, Types, TypeOK
  <2>4. Effects'
    BY <1>12 DEF Panic, Wake, Effects, Types, TypeOK
  <2>5. Stages'
    BY <1>12 DEF Panic, Wake, Stages, Types, TypeOK
  <2>6. NoLaterThan(time)' /\ BoardInTimeOrder'
    BY <1>12 DEF Panic, NoLaterThan, BoardInTimeOrder
  <2>. QED  BY <2>1, <2>2, <2>3, <2>4, <2>5, <2>6
<1>13. ASSUME Tick PROVE IInv'
  <2>1. Types' /\ Lock'
    BY <1>13 DEF Tick, Types, TypeOK, Lock
  <2>2. Fresh'
    BY <1>13 DEF Tick, Fresh, NoLaterThan, Types, TypeOK
  <2>3. Effects' /\ Stages'
    BY <1>13 DEF Tick, Effects, Stages
  <2>4. NoLaterThan(time)'
    BY <1>13, WholeLog DEF Tick, NoLaterThan, Types, TypeOK
  <2>5. BoardInTimeOrder'
    BY <1>13 DEF Tick, BoardInTimeOrder
  <2>. QED  BY <2>1, <2>2, <2>3, <2>4, <2>5
<1>14. CASE UNCHANGED vars
  BY <1>14 DEF vars, Types, TypeOK, Lock, Fresh, NoLaterThan, Effects, Stages,
               BoardInTimeOrder
<1>. QED
  BY <1>1, <1>2, <1>3, <1>4, <1>5, <1>6, <1>7, <1>8, <1>9, <1>10, <1>11, <1>12, <1>13, <1>14
     DEF Next, TaskStep, ClosureStep

\* The parts of the invariant hold in every reachable state.
THEOREM Invariance == Spec => []IInv
<1>. QED  BY InitIInv, NextIInv, PTL DEF Spec

\* Types: in particular a closure that holds the lock is one of with_demo's, and the
\* elections are a log of entries that requests have made (routes.rs:54-67).
THEOREM TypeCorrect == Spec => []TypeOK
<1>1. IInv => TypeOK
  BY DEF IInv, Types
<1>. QED  BY <1>1, Invariance, PTL

\* For any number of requests and threads the bulletin board is in the order of its
\* timestamps, since every handler is given the time read under the lock (routes.rs:54-67).
THEOREM BoardOrdered == Spec => []BoardInTimeOrder
<1>1. IInv => BoardInTimeOrder
  BY DEF IInv
<1>. QED  BY <1>1, Invariance, PTL

-----------------------------------------------------------------------------
(* Refinement *)

\* A step that gives request r the current log as its value, seen from outside.
LEMMA SeenStep ==
    ASSUME IInv, IInv', NEW r \in Requests, value[r] = None,
           value' = [value EXCEPT ![r] = demo'.log]
    PROVE  Seen[r] = None /\ Seen' = [Seen EXCEPT ![r] = Log']
<1>1. demo'.log \in Seq(Entry) /\ demo'.log # None
  BY NoneAssumption DEF IInv, Types
<1>2. value \in [Requests -> Seq(Entry) \union {None}]
  BY DEF IInv, Types
<1>3. Seen' = [q \in Requests |-> IF value'[q] = None THEN None ELSE RequestsOf(value'[q])]
  BY DEF Seen
<1>4. \A q \in Requests : value'[q] = IF q = r THEN demo'.log ELSE value[q]
  BY <1>2
<1>5. Log' = RequestsOf(demo'.log)
  BY DEF Log
<1>6. \A q \in Requests : Seen[q] = IF value[q] = None THEN None ELSE RequestsOf(value[q])
  BY DEF Seen
<1>7. Seen' = [q \in Requests |-> IF q = r THEN Log' ELSE Seen[q]]
  BY <1>1, <1>3, <1>4, <1>5, <1>6
<1>8. Seen = [q \in Requests |-> Seen[q]]
  BY DEF Seen
<1>. QED  BY <1>6, <1>7, <1>8

\* A value that is there is seen.
LEMMA SeenValue ==
    ASSUME IInv, NEW r \in Requests
    PROVE  value[r] = None <=> Seen[r] = None
<1>1. value[r] # None => RequestsOf(value[r]) \in Seq(Requests)
  BY RequestsOfLog DEF IInv, Types
<1>. QED  BY <1>1, NoneAssumption DEF Seen

LEMMA InitService == Init => Service!Init
BY DEF Init, Service!Init, Log, Seen, RequestsOf

LEMMA NextService == IInv /\ IInv' /\ [Next]_vars => [Service!Next]_(Service!vars)
<1>. SUFFICES ASSUME IInv, IInv', [Next]_vars PROVE [Service!Next]_(Service!vars)
  OBVIOUS
<1>. USE Parts
<1>0. ASSUME UNCHANGED <<client, value, demo>> \/ UNCHANGED <<client, value, demo.log>>
      PROVE  UNCHANGED Service!vars
  BY <1>0 DEF Service!vars, Log, Seen
<1>1. ASSUME NEW r \in Requests, Ask(r) PROVE Service!Next
  <2>1. Service!Ask(r)
    BY <1>1 DEF Ask, Service!Ask, Log, Seen
  <2>. QED  BY <2>1 DEF Service!Next
<1>2. ASSUME NEW r \in Requests, SpawnBlocking(r) \/ LockOnWorker(r)
      PROVE  UNCHANGED Service!vars
  BY <1>0, <1>2 DEF SpawnBlocking, LockOnWorker
<1>3. ASSUME NEW r \in Requests, AnswerWithoutDemo(r) \/ ReadDemo(r) PROVE Service!Next
  <2>1. r \notin Changes /\ value[r] = None /\ client[r] \notin {"idle", "answered"}
    BY <1>3 DEF AnswerWithoutDemo, ReadDemo, IInv, Effects, Stages
  <2>2. demo' = demo /\ client' = client /\ value' = [value EXCEPT ![r] = demo.log]
    BY <1>3, WholeLog DEF AnswerWithoutDemo, ReadDemo
  <2>3. Seen[r] = None /\ Seen' = [Seen EXCEPT ![r] = Log'] /\ Log' = Log
    BY <2>1, <2>2, SeenStep DEF Log
  <2>4. Service!TakeEffect(r)
    BY <2>1, <2>2, <2>3 DEF Service!TakeEffect
  <2>. QED  BY <2>4 DEF Service!Next
<1>4. ASSUME NEW r \in Requests, UnwrapPanics(r) PROVE [Service!Next]_(Service!vars)
  <2>1. client[r] \in {"asked", "failed"}
    BY <1>4 DEF UnwrapPanics, IInv, Types, TypeOK, Effects, Stages
  <2>2. client' = [client EXCEPT ![r] = "failed"] /\ UNCHANGED <<value, demo>>
    BY <1>4 DEF UnwrapPanics
  <2>3. CASE client[r] = "asked"
    BY <2>2, <2>3 DEF Service!GiveUp, Service!Next, Log, Seen
  <2>4. CASE client[r] = "failed"
    <3>1. client' = client
      BY <2>2, <2>4 DEF IInv, Types, TypeOK
    <3>. QED  BY <1>0, <2>2, <3>1
  <2>. QED  BY <2>1, <2>3, <2>4
<1>5. ASSUME NEW r \in Requests, Respond(r) PROVE [Service!Next]_(Service!vars)
  <2>1. UNCHANGED <<value, demo>>
    BY <1>5 DEF Respond
  <2>2. CASE client[r] # "asked"
    <3>1. client' = client
      BY <1>5, <2>2 DEF Respond, IInv, Types, TypeOK
    <3>. QED  BY <1>0, <2>1, <3>1
  <2>3. CASE client[r] = "asked" /\ value[r] = None
    <3>1. client' = [client EXCEPT ![r] = "failed"]
      BY <1>5, <2>3 DEF Respond, IInv, Types, TypeOK
    <3>. QED  BY <2>1, <2>3, <3>1 DEF Service!GiveUp, Service!Next, Log, Seen
  <2>4. CASE client[r] = "asked" /\ value[r] # None
    <3>1. client' = [client EXCEPT ![r] = "answered"]
      BY <1>5, <2>4 DEF Respond, IInv, Types, TypeOK
    <3>2. Seen[r] # None
      BY <2>4, SeenValue
    <3>3. UNCHANGED <<Log, Seen>>
      BY <2>1 DEF Log, Seen
    <3>. QED  BY <2>4, <3>1, <3>2, <3>3 DEF Service!Answer, Service!Next
  <2>. QED  BY <2>2, <2>3, <2>4
<1>6. ASSUME NEW r \in Requests, Disconnect(r) PROVE Service!Next
  <2>1. Service!GiveUp(r)
    BY <1>6 DEF Disconnect, Service!GiveUp, Log, Seen
  <2>. QED  BY <2>1 DEF Service!Next
<1>7. ASSUME NEW r \in Changes, LockAndCall(r) \/ LockFails(r) \/ Panic(r)
      PROVE  UNCHANGED Service!vars
  <2>1. demo'.log = demo.log
    BY <1>7 DEF LockAndCall, LockFails, Panic, IInv, Types
  <2>. QED  BY <1>0, <1>7, <2>1 DEF LockAndCall, LockFails, Panic
<1>8. ASSUME NEW r \in Changes, Return(r) PROVE Service!Next
  <2>. DEFINE e == [request |-> r, at |-> view[r].at]
  <2>1. value[r] = None /\ client[r] \notin {"idle", "answered"} /\ client' = client
    BY <1>8 DEF Return, IInv, Effects, Stages
  <2>2. Seen[r] = None /\ Seen' = [Seen EXCEPT ![r] = Log']
    BY <1>8, <2>1, ReturnEffect, SeenStep
  <2>3. e \in Entry /\ e.request = r /\ demo'.log \in {demo.log, demo.log \o <<e>>}
    BY <1>8, ReturnEffect
  <2>. HIDE DEF e
  <2>4. Log' \in {Log, Append(Log, r)}
    BY <2>3, WholeLog, RequestsOfLog DEF Log
  <2>5. Service!TakeEffect(r)
    BY <2>1, <2>2, <2>4 DEF Service!TakeEffect
  <2>. QED  BY <2>5 DEF Service!Next
<1>9. ASSUME Tick \/ UNCHANGED vars PROVE UNCHANGED Service!vars
  BY <1>0, <1>9 DEF Tick, vars
<1>. QED
  BY <1>1, <1>2, <1>3, <1>4, <1>5, <1>6, <1>7, <1>8, <1>9 DEF Next, TaskStep, ClosureStep

\* The server implements RequestService, for any set of requests and any number of
\* threads: requests take effect at most once, one at a time, and a client is only shown
\* the elections as its own request left them, also after handlers have panicked or
\* clients have gone (with_demo and the direct lock handlers, routes.rs:54-318).
THEOREM ServerImplementsService == Spec => Service!Spec
<1>. QED  BY InitService, NextService, Invariance, PTL DEF Spec, Service!Spec

-----------------------------------------------------------------------------
(* The inductive invariant of the page with its instance *)

Message == [id : Nat, request : Calls]
Posted == [type : {"response", "progress"}, id : Nat, value : Seq(Calls) \union {None}]

BridgeTypes ==
    /\ page \in [Calls -> {"idle", "asked", "answered", "failed"}]
    /\ delivered \in [Calls -> Seq(Calls) \union {None}]
    /\ next_id \in Nat
    /\ pending \in SUBSET Message
    /\ inbox \in Seq(Message) /\ suspended \in Seq(Message)
    /\ outbox \in Seq(Posted)
    /\ worker \in {"missing", "loading", "ready", "failed"}
    /\ call \in [id : Nat, request : Calls \union {None},
                 at : {"none", "lock", "route", "reported", "read", "throw"}]
    /\ buffer \in Seq(Calls)
    /\ app \in [log : Seq(Calls), torn : BOOLEAN, locked : BOOLEAN]
    /\ shown \in SUBSET Calls

\* The ids of the messages are consecutive from here on: first the call the worker is at,
\* then those that await ready, then those it has not received.
NextUp == next_id - Len(inbox) - Len(suspended)
Unanswered == IF call.at = "none" THEN NextUp ELSE NextUp - 1

Incoming ==
    /\ 0 < Unanswered
    /\ \A i \in 1..Len(inbox) :
          inbox[i] \in pending /\ inbox[i].id = next_id - Len(inbox) + i - 1
    /\ \A i \in 1..Len(suspended) :
          suspended[i] \in pending /\ suspended[i].id = NextUp + i - 1

Current ==
    IF call.at = "none" THEN call = Browser!NoCall
    ELSE /\ [id |-> call.id, request |-> call.request] \in pending
         /\ call.id = NextUp - 1

IsResponse(i) == outbox[i].type = "response"
Told(b, n) == b \in shown \/ \E i \in 1..n : ~IsResponse(i) /\ outbox[i].value = <<b>>

\* Responses are in the order of their ids, and before them all others that the page
\* awaits; a benchmark has told of its progress before.
Outgoing ==
    /\ \A i \in 1..Len(outbox) :
          IF IsResponse(i)
          THEN /\ outbox[i].id < Unanswered
               /\ \E p \in pending : p.id = outbox[i].id
          ELSE \E b \in Calls : outbox[i].value = <<b>>
    /\ \A i, j \in 1..Len(outbox) :
          IsResponse(i) /\ IsResponse(j) /\ i < j => outbox[i].id < outbox[j].id

Awaited ==
    /\ \A p \in pending :
          /\ p.id < next_id
          /\ p.id < Unanswered =>
                \E i \in 1..Len(outbox) : IsResponse(i) /\ outbox[i].id = p.id
    /\ \A p, q \in pending : p.id = q.id \/ p.request = q.request => p = q

Progress ==
    /\ call.request \in Benchmarks /\ call.at \in {"reported", "read"} =>
          Told(call.request, Len(outbox))
    /\ \A p \in pending : \A i \in 1..Len(outbox) :
          /\ p.request \in Benchmarks /\ IsResponse(i)
          /\ outbox[i].id = p.id /\ outbox[i].value # None
          => Told(p.request, i)

\* Promises: those that are pending are of calls that have been asked and not answered.
Promises ==
    \A r \in Calls : /\ page[r] = "asked" <=> \E p \in pending : p.request = r
                     /\ page[r] = "answered" <=> delivered[r] # None

\* A call that the instance has not come to has had no effect.
Once ==
    \A i \in 1..Len(app.log) :
        /\ page[app.log[i]] # "idle"
        /\ \A p \in pending : p.request = app.log[i] =>
              p.id < NextUp /\ (p.id = call.id => call.at \in {"read", "throw", "none"})

\* Elections that are half changed stay behind a lock that nobody releases.
Behind ==
    /\ app.torn => app.locked /\ call.at \notin {"route", "reported"}
    /\ call.at \in {"route", "reported"} => app.locked

BridgeIInv ==
    /\ BridgeTypes
    /\ Incoming
    /\ Current
    /\ Outgoing
    /\ Awaited
    /\ Progress
    /\ Promises
    /\ Once
    /\ Behind
    /\ MessagesInOrder

-----------------------------------------------------------------------------
(* Sequences *)

LEMMA FirstTaken ==
    ASSUME NEW S, NEW s \in Seq(S), s # <<>>
    PROVE  /\ Head(s) \in S /\ Head(s) = s[1]
           /\ Tail(s) \in Seq(S) /\ Len(s) \in Nat \ {0} /\ Len(Tail(s)) = Len(s) - 1
           /\ \A i \in 1..Len(s) - 1 : Tail(s)[i] = s[i + 1]
OBVIOUS

LEMMA OneMore ==
    ASSUME NEW S, NEW s \in Seq(S), NEW e \in S
    PROVE  /\ Append(s, e) \in Seq(S)
           /\ Len(s) \in Nat /\ Len(Append(s, e)) = Len(s) + 1
           /\ \A i \in 1..Len(s) : Append(s, e)[i] = s[i]
           /\ Append(s, e)[Len(s) + 1] = e
OBVIOUS

-----------------------------------------------------------------------------
(* What the parts of the state are *)

LEMMA Sizes ==
    ASSUME BridgeTypes
    PROVE  /\ next_id \in Nat /\ Len(inbox) \in Nat /\ Len(suspended) \in Nat
           /\ Len(outbox) \in Nat
           /\ NextUp \in Int /\ Unanswered \in Int
           /\ NextUp = next_id - Len(inbox) - Len(suspended)
           /\ call.at = "none" => Unanswered = NextUp
           /\ call.at # "none" => Unanswered = NextUp - 1
           /\ call.id \in Nat
           /\ \A p \in pending : p.id \in Nat /\ p.request \in Calls
           /\ \A i \in 1..Len(outbox) : outbox[i] \in Posted /\ outbox[i].id \in Nat
           /\ \A i \in 1..Len(app.log) : app.log[i] \in Calls
<1>1. next_id \in Nat /\ Len(inbox) \in Nat /\ Len(suspended) \in Nat /\ Len(outbox) \in Nat
  BY DEF BridgeTypes
<1>2. NextUp \in Int /\ NextUp = next_id - Len(inbox) - Len(suspended)
  BY <1>1 DEF NextUp
<1>3. /\ Unanswered \in Int
      /\ call.at = "none" => Unanswered = NextUp
      /\ call.at # "none" => Unanswered = NextUp - 1
  BY <1>2 DEF Unanswered
<1>4. call.id \in Nat
  BY DEF BridgeTypes
<1>5. \A p \in pending : p.id \in Nat /\ p.request \in Calls
  BY DEF BridgeTypes, Message
<1>6. \A i \in 1..Len(outbox) : outbox[i] \in Posted /\ outbox[i].id \in Nat
  <2>1. ASSUME NEW i \in 1..Len(outbox) PROVE outbox[i] \in Posted
    BY DEF BridgeTypes
  <2>2. \A m \in Posted : m.id \in Nat
    BY DEF Posted
  <2>. QED  BY <2>1, <2>2
<1>7. \A i \in 1..Len(app.log) : app.log[i] \in Calls
  BY DEF BridgeTypes
<1>. QED  BY <1>1, <1>2, <1>3, <1>4, <1>5, <1>6, <1>7

\* The call that is worked on is awaited by the page, and not answered yet.
LEMMA CurrentCall ==
    ASSUME BridgeIInv, call.at # "none"
    PROVE  LET p == [id |-> call.id, request |-> call.request]
           IN  /\ p \in pending /\ call.request \in Calls
               /\ call.id = NextUp - 1 /\ call.id = Unanswered
               /\ \A q \in pending :
                     q.id = call.id \/ q.request = call.request => q = p
<1>1. [id |-> call.id, request |-> call.request] \in pending /\ call.id = NextUp - 1
  BY DEF BridgeIInv, Current
<1>2. call.request \in Calls
  BY <1>1 DEF BridgeIInv, BridgeTypes, Message
<1>. QED  BY <1>1, <1>2, Sizes DEF BridgeIInv, Awaited

LEMMA InitBridge == Browser!Init => BridgeIInv
<1>. SUFFICES ASSUME Browser!Init PROVE BridgeIInv
  OBVIOUS
<1>. USE DEF Browser!Init, Browser!NoCall
<1>1. BridgeTypes
  BY DEF BridgeTypes
<1>2. Incoming /\ Current
  BY DEF Incoming, Current, NextUp, Unanswered
<1>3. Outgoing /\ Awaited /\ Progress
  BY DEF Outgoing, Awaited, Progress
<1>4. Promises /\ Once /\ Behind
  BY CallsAssumption DEF Promises, Once, Behind
<1>5. MessagesInOrder
  BY CallsAssumption DEF MessagesInOrder, Browser!MessagesInOrder
<1>. QED  BY <1>1, <1>2, <1>3, <1>4, <1>5 DEF BridgeIInv

-----------------------------------------------------------------------------
(* Steps of the page *)

LEMMA AskBridge ==
    ASSUME BridgeIInv, NEW r \in Calls, Browser!Ask(r)
    PROVE  BridgeIInv'
<1>. DEFINE m == [id |-> next_id, request |-> r]
<1>. USE Sizes DEF BridgeIInv
<1>1. /\ page[r] = "idle" /\ page' = [page EXCEPT ![r] = "asked"]
      /\ pending' = pending \union {m} /\ inbox' = Append(inbox, m) /\ next_id' = next_id + 1
      /\ UNCHANGED <<delivered, outbox, worker, suspended, call, buffer, app, shown>>
  BY DEF Browser!Ask
<1>2. m \in Message /\ m.id = next_id /\ m.request = r
  BY DEF Message
<1>. HIDE DEF m
<1>3. /\ inbox' \in Seq(Message) /\ Len(inbox') = Len(inbox) + 1
      /\ \A i \in 1..Len(inbox) : inbox'[i] = inbox[i]
      /\ inbox'[Len(inbox) + 1] = m
  BY <1>1, <1>2, OneMore DEF BridgeTypes
<1>4. BridgeTypes'
  BY <1>1, <1>2, <1>3 DEF BridgeTypes
<1>5. NextUp' = NextUp /\ Unanswered' = Unanswered
  BY <1>1, <1>3 DEF NextUp, Unanswered
<1>6. Incoming'
  <2>1. ASSUME NEW i \in 1..Len(inbox')
        PROVE  inbox'[i] \in pending' /\ inbox'[i].id = next_id' - Len(inbox') + i - 1
    <3>1. CASE i = Len(inbox) + 1
      BY <3>1, <1>1, <1>2, <1>3, SMTT(30)
    <3>2. CASE i \in 1..Len(inbox)
      <4>1. inbox[i] \in pending /\ inbox[i].id = next_id - Len(inbox) + i - 1
        BY <3>2 DEF Incoming
      <4>2. next_id' - Len(inbox') = next_id - Len(inbox)
        BY <1>1, <1>3
      <4>. QED  BY <3>2, <4>1, <4>2, <1>1, <1>3
    <3>. QED  BY <2>1, <3>1, <3>2, <1>3
  <2>. QED  BY <2>1, <1>1, <1>5 DEF Incoming
<1>7. Current'
  BY <1>1, <1>5 DEF Current
<1>8. Outgoing'
  BY <1>1, <1>5 DEF Outgoing, IsResponse
<1>9. ASSUME NEW p \in pending PROVE p.id < next_id /\ p.request # r
  BY <1>1 DEF Awaited, Promises
<1>10. Unanswered =< next_id
  OBVIOUS
<1>11. Awaited'
  <2>1. ASSUME NEW p \in pending'
        PROVE  /\ p.id < next_id'
               /\ p.id < Unanswered' =>
                    \E i \in 1..Len(outbox) : IsResponse(i)' /\ outbox[i].id = p.id
    BY <1>1, <1>2, <1>5, <1>9, <1>10 DEF Awaited, IsResponse
  <2>2. ASSUME NEW p \in pending', NEW q \in pending', p.id = q.id \/ p.request = q.request
        PROVE  p = q
    BY <2>2, <1>1, <1>2, <1>9 DEF Awaited
  <2>. QED  BY <2>1, <2>2, <1>1 DEF Awaited
<1>12. Progress'
  <2>1. \A i \in 1..Len(outbox) : IsResponse(i) => outbox[i].id # next_id
    BY <1>10 DEF Outgoing
  <2>. QED  BY <2>1, <1>1, <1>2 DEF Progress, Told, IsResponse
<1>13. Promises'
  <2>1. \A q \in Calls : (\E p \in pending' : p.request = q)
                            <=> q = r \/ \E p \in pending : p.request = q
    BY <1>1, <1>2
  <2>. QED  BY <2>1, <1>1 DEF Promises, BridgeTypes
<1>14. Once'
  BY <1>1, <1>2, <1>5 DEF Once, BridgeTypes
<1>15. Behind'
  BY <1>1 DEF Behind
<1>16. MessagesInOrder'
  <2>1. ASSUME NEW p \in pending', NEW id \in p.id..(next_id' - 1)
        PROVE  \E q \in pending' : q.id = id
    <3>1. CASE id = next_id
      BY <3>1, <1>1, <1>2
    <3>2. CASE id # next_id
      <4>1. p \in pending /\ id \in p.id..(next_id - 1)
        BY <3>2, <1>1, <1>2
      <4>. QED  BY <4>1, <1>1 DEF MessagesInOrder, Browser!MessagesInOrder
    <3>. QED  BY <3>1, <3>2
  <2>2. \A b \in Benchmarks : page'[b] = "answered" => b \in shown'
    BY <1>1, CallsAssumption DEF MessagesInOrder, Browser!MessagesInOrder, BridgeTypes
  <2>. QED  BY <2>1, <2>2 DEF MessagesInOrder, Browser!MessagesInOrder
<1>. QED  BY <1>4, <1>6, <1>7, <1>8, <1>11, <1>12, <1>13, <1>14, <1>15, <1>16

LEMMA OnMessageBridge ==
    ASSUME BridgeIInv, Browser!OnMessage
    PROVE  BridgeIInv'
<1>. DEFINE m == Head(outbox)
            resolved == {p \in pending : p.id = m.id}
<1>. USE Sizes DEF BridgeIInv
<1>1. /\ outbox # <<>> /\ outbox' = Tail(outbox)
      /\ UNCHANGED <<next_id, inbox, worker, suspended, call, buffer, app>>
  BY DEF Browser!OnMessage
<1>2. /\ m \in Posted /\ m = outbox[1]
      /\ outbox' \in Seq(Posted) /\ Len(outbox) \in Nat \ {0} /\ Len(outbox') = Len(outbox) - 1
      /\ \A i \in 1..Len(outbox) - 1 : outbox'[i] = outbox[i + 1]
  BY <1>1, FirstTaken DEF BridgeTypes
<1>3. NextUp' = NextUp /\ Unanswered' = Unanswered
  BY <1>1 DEF NextUp, Unanswered
<1>4. \A i \in 1..Len(outbox') : /\ i + 1 \in 1..Len(outbox) /\ outbox'[i] = outbox[i + 1]
                                 /\ IsResponse(i)' <=> IsResponse(i + 1)
  BY <1>2, SMTT(30) DEF IsResponse
<1>5. Behind'
  BY <1>1 DEF Behind
<1>6. CASE m.type = "progress"
  <2>1. PICK b \in Calls : m.value = <<b>>
    BY <1>2, <1>6 DEF Outgoing, IsResponse
  <2>2. shown' = shown \union {b} /\ UNCHANGED <<page, delivered, pending>>
    BY <1>6, <2>1 DEF Browser!OnMessage
  <2>. HIDE DEF m
  <2>3. ~IsResponse(1) /\ outbox[1].value = <<b>>
    BY <1>2, <1>6, <2>1 DEF IsResponse
  <2>4. ASSUME NEW c \in Calls, NEW n \in 1..Len(outbox), Told(c, n)
        PROVE  Told(c, n - 1)'
    <3>1. CASE c \in shown
      BY <3>1, <2>2 DEF Told
    <3>2. ASSUME NEW i \in 1..n, ~IsResponse(i), outbox[i].value = <<c>>
          PROVE  Told(c, n - 1)'
      <4>1. CASE i = 1
        BY <4>1, <3>2, <2>2, <2>3 DEF Told
      <4>2. CASE i # 1
        <5>1. /\ i - 1 \in 1..(n - 1) /\ i - 1 \in 1..Len(outbox')
              /\ (i - 1) + 1 = i
          BY <4>2, <2>4, <1>2
        <5>. QED  BY <5>1, <3>2, <1>4 DEF Told
      <4>. QED  BY <4>1, <4>2
    <3>. QED  BY <3>1, <3>2, <2>4 DEF Told
  <2>5. BridgeTypes'
    BY <1>1, <1>2, <2>2 DEF BridgeTypes
  <2>6. Incoming' /\ Current'
    BY <1>1, <1>3, <2>2 DEF Incoming, Current
  <2>7. Outgoing'
    <3>1. ASSUME NEW i \in 1..Len(outbox')
          PROVE  IF IsResponse(i)'
                 THEN /\ outbox'[i].id < Unanswered'
                      /\ \E p \in pending' : p.id = outbox'[i].id
                 ELSE \E c \in Calls : outbox'[i].value = <<c>>
      BY <1>3, <1>4, <2>2 DEF Outgoing
    <3>2. ASSUME NEW i \in 1..Len(outbox'), NEW j \in 1..Len(outbox'),
                 IsResponse(i)', IsResponse(j)', i < j
          PROVE  outbox'[i].id < outbox'[j].id
      <4>1. i + 1 \in 1..Len(outbox) /\ IsResponse(i + 1) /\ outbox'[i] = outbox[i + 1]
        BY <3>2, <1>4
      <4>2. j + 1 \in 1..Len(outbox) /\ IsResponse(j + 1) /\ outbox'[j] = outbox[j + 1]
        BY <3>2, <1>4
      <4>3. i + 1 < j + 1
        BY <3>2, <1>2
      <4>. QED  BY <4>1, <4>2, <4>3 DEF Outgoing
    <3>. QED  BY <3>1, <3>2 DEF Outgoing
  <2>8. Awaited'
    <3>1. ASSUME NEW p \in pending, p.id < Unanswered
          PROVE  \E i \in 1..Len(outbox') : IsResponse(i)' /\ outbox'[i].id = p.id
      <4>1. PICK i \in 1..Len(outbox) : IsResponse(i) /\ outbox[i].id = p.id
        BY <3>1 DEF Awaited
      <4>2. i - 1 \in 1..Len(outbox') /\ (i - 1) + 1 = i
        BY <4>1, <2>3, <1>2
      <4>. QED  BY <4>1, <4>2, <1>4
    <3>. QED  BY <3>1, <1>1, <1>3, <2>2 DEF Awaited
  <2>9. Progress'
    <3>1. ASSUME call.request \in Benchmarks, call.at \in {"reported", "read"}
          PROVE  Told(call.request, Len(outbox))'
      <4>1. PICK c \in Calls : c = call.request /\ Told(c, Len(outbox))
        BY <3>1, CallsAssumption DEF Progress
      <4>2. PICK n \in 1..Len(outbox) : n = Len(outbox)
        BY <1>2
      <4>3. Told(c, n - 1)'
        BY <4>1, <4>2, <2>4
      <4>4. call'.request = c /\ Len(outbox') = n - 1
        BY <4>1, <4>2, <1>1, <1>2
      <4>. QED  BY <4>3, <4>4 DEF Told
    <3>2. ASSUME NEW p \in pending, NEW i \in 1..Len(outbox'), p.request \in Benchmarks,
                 IsResponse(i)', outbox'[i].id = p.id, outbox'[i].value # None
          PROVE  Told(p.request, i)'
      <4>1. Told(p.request, i + 1)
        BY <3>2, <1>4 DEF Progress
      <4>2. Told(p.request, (i + 1) - 1)'
        BY <4>1, <2>2, <2>4, <1>4
      <4>3. (i + 1) - 1 = i
        BY <3>2, <1>2
      <4>. QED  BY <4>2, <4>3
    <3>. QED  BY <3>1, <3>2, <1>1, <2>2 DEF Progress
  <2>10. Promises' /\ Once' /\ MessagesInOrder'
    BY <1>1, <1>3, <2>2 DEF Promises, Once, MessagesInOrder, Browser!MessagesInOrder
  <2>. QED  BY <2>5, <2>6, <2>7, <2>8, <2>9, <2>10, <1>5
<1>7. CASE m.type # "progress"
  <2>1. PICK p \in pending : p.id = m.id
    BY <1>2, <1>7 DEF Outgoing, IsResponse, Posted
  <2>2. resolved = {p} /\ \A q \in pending : q.request = p.request => q = p
    BY <2>1 DEF Awaited
  <2>3. /\ pending' = pending \ {p} /\ UNCHANGED shown
        /\ page' = [page EXCEPT ![p.request] =
                       IF m.value = None THEN "failed" ELSE "answered"]
        /\ delivered' = [delivered EXCEPT ![p.request] = m.value]
    <3>1. /\ pending' = pending \ resolved /\ UNCHANGED shown
          /\ page' = [r \in Calls |-> IF r \in {q.request : q \in resolved}
                                      THEN IF m.value = None THEN "failed" ELSE "answered"
                                      ELSE page[r]]
          /\ delivered' = [r \in Calls |-> IF r \in {q.request : q \in resolved}
                                           THEN m.value ELSE delivered[r]]
      BY <1>7 DEF Browser!OnMessage
    <3>2. {q.request : q \in resolved} = {p.request}
      BY <2>2
    <3>. HIDE DEF m, resolved
    <3>. QED  BY <3>1, <3>2, <2>2 DEF BridgeTypes
  <2>. HIDE DEF m, resolved
  <2>4. IsResponse(1) /\ outbox[1].id = p.id /\ p.id < Unanswered
    <3>1. IsResponse(1)
      BY <1>2, <1>7 DEF IsResponse, Posted
    <3>. QED  BY <3>1, <1>2, <2>1 DEF Outgoing
  <2>5. BridgeTypes'
    <3>1. m.value \in Seq(Calls) \union {None}
      BY <1>2 DEF Posted
    <3>. QED  BY <3>1, <1>1, <1>2, <2>3 DEF BridgeTypes
  <2>6. \A q \in pending : q.id = p.id => q = p
    BY DEF Awaited
  <2>7. Incoming'
    <3>1. ASSUME NEW i \in 1..Len(inbox) PROVE inbox[i] # p
      BY <2>4, SMTT(30) DEF Incoming
    <3>2. ASSUME NEW i \in 1..Len(suspended) PROVE suspended[i] # p
      <4>1. suspended[i].id = NextUp + i - 1
        BY DEF Incoming
      <4>2. NextUp + i - 1 >= NextUp /\ NextUp >= Unanswered
        BY SMTT(30)
      <4>. QED  BY <4>1, <4>2, <2>4
    <3>. QED  BY <3>1, <3>2, <1>1, <1>3, <2>3 DEF Incoming
  <2>8. Current'
    <3>1. call.at # "none" => [id |-> call.id, request |-> call.request] # p
      BY <2>4, CurrentCall
    <3>. QED  BY <3>1, <1>1, <1>3, <2>3 DEF Current
  <2>9. Outgoing'
    <3>1. ASSUME NEW i \in 1..Len(outbox')
          PROVE  IF IsResponse(i)'
                 THEN /\ outbox'[i].id < Unanswered'
                      /\ \E q \in pending' : q.id = outbox'[i].id
                 ELSE \E c \in Calls : outbox'[i].value = <<c>>
      <4>1. CASE IsResponse(i + 1)
        <5>1. PICK q \in pending : q.id = outbox[i + 1].id
          BY <4>1, <1>4 DEF Outgoing
        <5>2. outbox[1].id < outbox[i + 1].id /\ outbox[i + 1].id < Unanswered
          BY <4>1, <1>2, <1>4, <2>4, SMTT(30) DEF Outgoing
        <5>3. q # p
          BY <5>1, <5>2, <2>4
        <5>. QED  BY <4>1, <5>1, <5>2, <5>3, <1>3, <1>4, <2>3
      <4>2. CASE ~IsResponse(i + 1)
        <5>1. /\ i + 1 \in 1..Len(outbox) /\ outbox'[i] = outbox[i + 1]
              /\ IsResponse(i)' <=> IsResponse(i + 1)
          BY <1>4
        <5>2. \E c \in Calls : outbox[i + 1].value = <<c>>
          BY <4>2, <5>1 DEF Outgoing
        <5>. QED  BY <4>2, <5>1, <5>2
      <4>. QED  BY <4>1, <4>2
    <3>2. ASSUME NEW i \in 1..Len(outbox'), NEW j \in 1..Len(outbox'),
                 IsResponse(i)', IsResponse(j)', i < j
          PROVE  outbox'[i].id < outbox'[j].id
      <4>1. i + 1 \in 1..Len(outbox) /\ IsResponse(i + 1) /\ outbox'[i] = outbox[i + 1]
        BY <3>2, <1>4
      <4>2. j + 1 \in 1..Len(outbox) /\ IsResponse(j + 1) /\ outbox'[j] = outbox[j + 1]
        BY <3>2, <1>4
      <4>3. i + 1 < j + 1
        BY <3>2, <1>2
      <4>. QED  BY <4>1, <4>2, <4>3 DEF Outgoing
    <3>. QED  BY <3>1, <3>2 DEF Outgoing
  <2>10. Awaited'
    <3>1. ASSUME NEW q \in pending', q.id < Unanswered
          PROVE  \E i \in 1..Len(outbox') : IsResponse(i)' /\ outbox'[i].id = q.id
      <4>1. q \in pending /\ q.id # p.id
        BY <2>3, <2>6
      <4>2. PICK i \in 1..Len(outbox) : IsResponse(i) /\ outbox[i].id = q.id
        BY <3>1, <4>1 DEF Awaited
      <4>3. i - 1 \in 1..Len(outbox') /\ (i - 1) + 1 = i
        BY <4>1, <4>2, <2>4, <1>2, SMTT(30)
      <4>. QED  BY <4>2, <4>3, <1>4
    <3>. QED  BY <3>1, <1>1, <1>3, <2>3 DEF Awaited
  <2>11. ASSUME NEW c, NEW n \in 1..Len(outbox), Told(c, n)
         PROVE  Told(c, n - 1)'
    <3>1. ASSUME NEW i \in 1..n, ~IsResponse(i), outbox[i].value = <<c>>
          PROVE  /\ i - 1 \in 1..(n - 1) /\ ~IsResponse(i - 1)'
                 /\ outbox'[i - 1].value = <<c>>
      <4>1. /\ i - 1 \in 1..(n - 1) /\ i - 1 \in 1..Len(outbox')
            /\ (i - 1) + 1 = i
        BY <3>1, <2>4, <2>11, <1>2
      <4>. QED  BY <4>1, <3>1, <1>4
    <3>. QED  BY <3>1, <2>3, <2>11 DEF Told
  <2>12. Progress'
    <3>1. ASSUME call.request \in Benchmarks, call.at \in {"reported", "read"}
          PROVE  Told(call.request, Len(outbox))'
      <4>1. PICK c \in Calls : c = call.request /\ Told(c, Len(outbox))
        BY <3>1, CallsAssumption DEF Progress
      <4>2. PICK n \in 1..Len(outbox) : n = Len(outbox)
        BY <1>2
      <4>3. Told(c, n - 1)'
        BY <4>1, <4>2, <2>11
      <4>4. call'.request = c /\ Len(outbox') = n - 1
        BY <4>1, <4>2, <1>1, <1>2
      <4>. QED  BY <4>3, <4>4 DEF Told
    <3>2. ASSUME NEW q \in pending, NEW i \in 1..Len(outbox'), q.request \in Benchmarks,
                 IsResponse(i)', outbox'[i].id = q.id, outbox'[i].value # None
          PROVE  Told(q.request, i)'
      <4>1. Told(q.request, i + 1)
        BY <3>2, <1>4 DEF Progress
      <4>2. Told(q.request, (i + 1) - 1)'
        BY <4>1, <2>11, <1>4
      <4>3. (i + 1) - 1 = i
        BY <3>2, <1>2
      <4>. QED  BY <4>2, <4>3
    <3>. QED  BY <3>1, <3>2, <1>1, <2>3 DEF Progress
  <2>13. Promises'
    <3>1. page[p.request] = "asked" /\ delivered[p.request] = None /\ p.request \in Calls
      BY <2>1 DEF Promises
    <3>2. \A r \in Calls : (\E q \in pending' : q.request = r)
                              <=> r # p.request /\ \E q \in pending : q.request = r
      BY <2>2, <2>3
    <3>. QED  BY <3>1, <3>2, <2>3 DEF Promises, BridgeTypes
  <2>14. Once'
    <3>1. ASSUME NEW i \in 1..Len(app.log), NEW q \in pending', q.request = app.log[i]
          PROVE  q.id < NextUp' /\ (q.id = call'.id => call'.at \in {"read", "throw", "none"})
      BY <3>1, <1>1, <1>3, <2>3 DEF Once
    <3>2. ASSUME NEW i \in 1..Len(app.log) PROVE page'[app.log[i]] # "idle"
      <4>1. page[app.log[i]] # "idle" /\ app.log[i] \in Calls
        BY DEF Once, BridgeTypes
      <4>. QED  BY <4>1, <2>3 DEF BridgeTypes
    <3>. QED  BY <3>1, <3>2, <1>1 DEF Once
  <2>15. MessagesInOrder'
    <3>1. ASSUME NEW q \in pending', NEW id \in q.id..(next_id - 1)
          PROVE  \E o \in pending' : o.id = id
      <4>1. q \in pending /\ q.id # p.id
        BY <2>3, <2>6
      <4>2. PICK o \in pending : o.id = id
        BY <4>1 DEF MessagesInOrder, Browser!MessagesInOrder
      <4>3. p.id < q.id
        <5>1. CASE q.id < Unanswered
          <6>1. PICK i \in 1..Len(outbox) : IsResponse(i) /\ outbox[i].id = q.id
            BY <4>1, <5>1 DEF Awaited
          <6>2. 1 < i
            BY <4>1, <6>1, <2>4
          <6>3. outbox[1].id < outbox[i].id
            <7>1. 1 \in 1..Len(outbox)
              BY <1>2
            <7>2. \A k, j \in 1..Len(outbox) :
                    IsResponse(k) /\ IsResponse(j) /\ k < j => outbox[k].id < outbox[j].id
              BY DEF Outgoing
            <7>. QED  BY <7>1, <7>2, <6>1, <6>2, <2>4
          <6>. QED  BY <6>1, <6>3, <2>4
        <5>2. CASE ~(q.id < Unanswered)
          BY <4>1, <5>2, <2>4
        <5>. QED  BY <5>1, <5>2
      <4>4. o # p
        BY <4>1, <4>2, <4>3, <3>1
      <4>. QED  BY <4>2, <4>4, <2>3
    <3>2. ASSUME NEW b \in Benchmarks, page'[b] = "answered"
          PROVE  b \in shown
      <4>1. CASE b = p.request
        <5>1. m.value # None
          BY <3>2, <4>1, <2>1, <2>3 DEF BridgeTypes
        <5>2. Told(b, 1)
          BY <4>1, <5>1, <1>2, <2>1, <2>4, <3>2 DEF Progress
        <5>. QED  BY <5>2, <2>4 DEF Told
      <4>2. CASE b # p.request
        BY <3>2, <4>2, <2>3, CallsAssumption
           DEF MessagesInOrder, Browser!MessagesInOrder, BridgeTypes
      <4>. QED  BY <4>1, <4>2
    <3>. QED  BY <3>1, <3>2, <1>1, <2>3 DEF MessagesInOrder, Browser!MessagesInOrder
  <2>. QED  BY <2>5, <2>7, <2>8, <2>9, <2>10, <2>12, <2>13, <2>14, <2>15, <1>5
<1>. QED  BY <1>6, <1>7

-----------------------------------------------------------------------------
(* Steps of the worker, and of the instance in it *)

LEMMA InstantiateBridge ==
    ASSUME BridgeIInv, Browser!Instantiate
    PROVE  BridgeIInv'
<1>. USE DEF BridgeIInv
<1>1. /\ worker' \in {"ready", "failed"}
      /\ UNCHANGED <<page, delivered, next_id, pending, inbox, outbox, suspended,
                     call, buffer, app, shown>>
  BY DEF Browser!Instantiate
<1>2. NextUp' = NextUp /\ Unanswered' = Unanswered
  BY <1>1 DEF NextUp, Unanswered
<1>3. BridgeTypes'
  BY <1>1 DEF BridgeTypes
<1>4. Incoming' /\ Current' /\ Awaited'
  BY <1>1, <1>2 DEF Incoming, Current, Awaited, IsResponse
<1>5. Outgoing' /\ Progress'
  BY <1>1, <1>2 DEF Outgoing, Progress, IsResponse, Told
<1>6. Promises' /\ Once' /\ Behind' /\ MessagesInOrder'
  BY <1>1, <1>2 DEF Promises, Once, Behind, MessagesInOrder, Browser!MessagesInOrder
<1>. QED  BY <1>3, <1>4, <1>5, <1>6

LEMMA ReceiveBridge ==
    ASSUME BridgeIInv, Browser!Receive
    PROVE  BridgeIInv'
<1>. DEFINE m == Head(inbox)
<1>. USE Sizes DEF BridgeIInv
<1>1. /\ inbox # <<>> /\ inbox' = Tail(inbox) /\ suspended' = Append(suspended, m)
      /\ UNCHANGED <<page, delivered, next_id, pending, outbox, worker, call, buffer,
                     app, shown>>
  BY DEF Browser!Receive
<1>2. /\ m \in Message /\ m = inbox[1]
      /\ inbox' \in Seq(Message) /\ Len(inbox) \in Nat \ {0} /\ Len(inbox') = Len(inbox) - 1
      /\ \A i \in 1..Len(inbox) - 1 : inbox'[i] = inbox[i + 1]
  BY <1>1, FirstTaken DEF BridgeTypes
<1>3. /\ suspended' \in Seq(Message) /\ Len(suspended') = Len(suspended) + 1
      /\ \A i \in 1..Len(suspended) : suspended'[i] = suspended[i]
      /\ suspended'[Len(suspended) + 1] = m
  <2>. HIDE DEF m
  <2>. QED  BY <1>1, <1>2, OneMore DEF BridgeTypes
<1>. HIDE DEF m
<1>4. NextUp' = NextUp
  BY <1>1, <1>2, <1>3 DEF NextUp
<1>5. Unanswered' = Unanswered
  BY <1>1, <1>4 DEF Unanswered
<1>6. BridgeTypes'
  BY <1>1, <1>2, <1>3 DEF BridgeTypes
<1>7. Incoming'
  <2>1. ASSUME NEW i \in 1..Len(inbox')
        PROVE  inbox'[i] \in pending /\ inbox'[i].id = next_id - Len(inbox') + i - 1
    <3>1. i + 1 \in 1..Len(inbox) /\ inbox'[i] = inbox[i + 1]
      BY <1>2
    <3>2. inbox[i + 1] \in pending /\ inbox[i + 1].id = next_id - Len(inbox) + (i + 1) - 1
      BY <3>1 DEF Incoming
    <3>3. next_id - Len(inbox) + (i + 1) - 1 = next_id - Len(inbox') + i - 1
      BY <1>2, <3>1, SMTT(30)
    <3>. QED  BY <3>1, <3>2, <3>3
  <2>2. ASSUME NEW i \in 1..Len(suspended')
        PROVE  suspended'[i] \in pending /\ suspended'[i].id = NextUp + i - 1
    <3>1. CASE i = Len(suspended) + 1
      <4>1. 1 \in 1..Len(inbox)
        BY <1>2
      <4>2. m \in pending /\ m.id = next_id - Len(inbox) + 1 - 1
        BY <4>1, <1>2 DEF Incoming
      <4>. QED  BY <3>1, <4>2, <1>3
    <3>2. CASE i \in 1..Len(suspended)
      BY <3>2, <1>3 DEF Incoming
    <3>. QED  BY <3>1, <3>2, <1>3
  <2>3. 0 < Unanswered
    BY DEF Incoming
  <2>. QED  BY <2>1, <2>2, <2>3, <1>1, <1>4, <1>5 DEF Incoming
<1>8. Current' /\ Awaited'
  BY <1>1, <1>4, <1>5 DEF Current, Awaited, IsResponse
<1>9. Outgoing' /\ Progress'
  <2>1. Outgoing'
    <3>1. \A i \in 1..Len(outbox) : IsResponse(i)' <=> IsResponse(i)
      BY <1>1 DEF IsResponse
    <3>. HIDE DEF NextUp, Unanswered
    <3>. QED  BY <3>1, <1>1, <1>5 DEF Outgoing
  <2>2. \A b \in Calls : \A n \in Nat : Told(b, n)' <=> Told(b, n)
    BY <1>1 DEF Told, IsResponse
  <2>3. Progress'
    <3>1. call.request \in Benchmarks /\ call.at \in {"reported", "read"} =>
              call.request \in Calls /\ Len(outbox) \in Nat
      BY CallsAssumption DEF BridgeTypes
    <3>2. \A q \in pending : q.request \in Calls
      BY DEF BridgeTypes, Message
    <3>. QED  BY <3>1, <3>2, <2>2, <1>1 DEF Progress, IsResponse
  <2>. QED  BY <2>1, <2>3
<1>10. Promises' /\ Once' /\ Behind' /\ MessagesInOrder'
  BY <1>1, <1>4 DEF Promises, Once, Behind, MessagesInOrder, Browser!MessagesInOrder
<1>. QED  BY <1>6, <1>7, <1>8, <1>9, <1>10

LEMMA ResumeBridge ==
    ASSUME BridgeIInv, Browser!Resume
    PROVE  BridgeIInv'
<1>. DEFINE m == Head(suspended)
<1>. USE Sizes DEF BridgeIInv
<1>1. PICK at \in {"lock", "throw"} :
        call' = [id |-> m.id, request |-> m.request, at |-> at]
  BY DEF Browser!Resume
<1>2. /\ suspended # <<>> /\ suspended' = Tail(suspended) /\ call = Browser!NoCall
      /\ UNCHANGED <<page, delivered, next_id, pending, inbox, outbox, worker, buffer,
                     app, shown>>
  BY DEF Browser!Resume, Browser!WorkerIdle
<1>3. /\ m \in Message /\ m = suspended[1]
      /\ suspended' \in Seq(Message) /\ Len(suspended) \in Nat \ {0}
      /\ Len(suspended') = Len(suspended) - 1
      /\ \A i \in 1..Len(suspended) - 1 : suspended'[i] = suspended[i + 1]
  BY <1>2, FirstTaken DEF BridgeTypes
<1>. HIDE DEF m
<1>4. call.at = "none" /\ call'.at \in {"lock", "throw"} /\ call'.id = m.id
      /\ call'.request = m.request
  BY <1>1, <1>2 DEF Browser!NoCall
<1>5. NextUp' = NextUp + 1
  BY <1>2, <1>3 DEF NextUp
<1>6. Unanswered' = Unanswered
  BY <1>4, <1>5 DEF Unanswered
<1>7. m \in pending /\ m.id = NextUp
  <2>1. 1 \in 1..Len(suspended)
    BY <1>3
  <2>2. m \in pending /\ m.id = NextUp + 1 - 1
    BY <2>1, <1>3 DEF Incoming
  <2>. QED  BY <2>2
<1>8. BridgeTypes'
  <2>1. m.id \in Nat /\ m.request \in Calls
    BY <1>3 DEF Message
  <2>2. call' \in [id : Nat, request : Calls \union {None},
                   at : {"none", "lock", "route", "reported", "read", "throw"}]
    BY <2>1, <1>1
  <2>. QED  BY <2>2, <1>2, <1>3 DEF BridgeTypes
<1>9. Incoming'
  <2>1. ASSUME NEW i \in 1..Len(suspended')
        PROVE  suspended'[i] \in pending /\ suspended'[i].id = NextUp' + i - 1
    <3>1. i + 1 \in 1..Len(suspended) /\ suspended'[i] = suspended[i + 1]
      BY <1>3
    <3>2. suspended[i + 1] \in pending /\ suspended[i + 1].id = NextUp + (i + 1) - 1
      BY <3>1 DEF Incoming
    <3>3. NextUp + (i + 1) - 1 = NextUp' + i - 1
      BY <1>5
    <3>. QED  BY <3>1, <3>2, <3>3
  <2>2. 0 < Unanswered
    BY DEF Incoming
  <2>. QED  BY <2>1, <2>2, <1>2, <1>6 DEF Incoming
<1>10. Current'
  <2>1. [id |-> m.id, request |-> m.request] = m
    BY <1>3 DEF Message
  <2>. QED  BY <2>1, <1>2, <1>4, <1>5, <1>7 DEF Current
<1>11. Outgoing' /\ Awaited'
  BY <1>2, <1>6 DEF Outgoing, Awaited, IsResponse
<1>12. Progress'
  BY <1>2, <1>4 DEF Progress, IsResponse, Told
<1>13. Promises' /\ MessagesInOrder'
  BY <1>2 DEF Promises, MessagesInOrder, Browser!MessagesInOrder
<1>14. Once'
  <2>1. ASSUME NEW i \in 1..Len(app.log), NEW p \in pending, p.request = app.log[i]
        PROVE  p.id < NextUp' /\ p.id # call'.id
    <3>1. p.id < NextUp
      BY <2>1 DEF Once
    <3>. QED  BY <3>1, <1>4, <1>5, <1>7
  <2>2. \A i \in 1..Len(app.log) : page[app.log[i]] # "idle"
    BY DEF Once
  <2>. QED  BY <2>1, <2>2, <1>2 DEF Once
<1>15. Behind'
  BY <1>2, <1>4 DEF Behind
<1>. QED  BY <1>8, <1>9, <1>10, <1>11, <1>12, <1>13, <1>14, <1>15

\* What a step of the current call leaves alone, when it posts nothing and the page and
\* the queues stay as they are.
LEMMA CallGoesOn ==
    ASSUME BridgeIInv, call.at # "none", call'.at # "none",
           call'.id = call.id, call'.request = call.request,
           UNCHANGED <<page, delivered, next_id, pending, inbox, suspended>>
    PROVE  /\ NextUp' = NextUp /\ Unanswered' = Unanswered
           /\ Incoming' /\ Current' /\ Promises'
<1>1. NextUp' = NextUp
  BY DEF NextUp
<1>2. Unanswered' = Unanswered
  BY <1>1 DEF Unanswered
<1>. QED  BY <1>1, <1>2 DEF BridgeIInv, Incoming, Current, Promises

LEMMA LockAppBridge ==
    ASSUME BridgeIInv, Browser!LockApp
    PROVE  BridgeIInv'
<1>. USE DEF BridgeIInv
<1>1. /\ call.at = "lock"
      /\ UNCHANGED <<page, delivered, next_id, pending, inbox, outbox, worker, suspended,
                     buffer, shown>>
  BY DEF Browser!LockApp
<1>2. /\ call'.id = call.id /\ call'.request = call.request
      /\ \/ call'.at = "throw" /\ app' = app
         \/ /\ call'.at = "route" /\ ~app.locked
            /\ app'.log = app.log /\ app'.torn = app.torn /\ app'.locked = TRUE
      /\ BridgeTypes'
  <2>1. CASE app.locked
    <3>1. call' = [call EXCEPT !.at = "throw"] /\ app' = app
      BY <1>1, <2>1 DEF Browser!LockApp
    <3>. QED  BY <1>1, <3>1 DEF BridgeTypes
  <2>2. CASE ~app.locked
    <3>1. call' = [call EXCEPT !.at = "route"] /\ app' = [app EXCEPT !.locked = TRUE]
      BY <1>1, <2>2 DEF Browser!LockApp
    <3>. QED  BY <1>1, <2>2, <3>1 DEF BridgeTypes
  <2>. QED  BY <2>1, <2>2
<1>3. /\ NextUp' = NextUp /\ Unanswered' = Unanswered
      /\ Incoming' /\ Current' /\ Promises'
  <2>1. call.at # "none" /\ call'.at # "none"
    BY <1>1, <1>2
  <2>. QED  BY <2>1, <1>1, <1>2, CallGoesOn
<1>4. Outgoing' /\ Awaited'
  BY <1>1, <1>3 DEF Outgoing, Awaited, IsResponse
<1>5. Progress'
  BY <1>1, <1>2 DEF Progress, IsResponse, Told
<1>6. MessagesInOrder'
  BY <1>1 DEF MessagesInOrder, Browser!MessagesInOrder
<1>7. Once'
  BY <1>1, <1>2, <1>3 DEF Once
<1>8. Behind'
  BY <1>1, <1>2 DEF Behind
<1>. QED  BY <1>2, <1>3, <1>4, <1>5, <1>6, <1>7, <1>8

LEMMA TrapBridge ==
    ASSUME BridgeIInv, Browser!Trap
    PROVE  BridgeIInv'
<1>. USE DEF BridgeIInv
<1>1. /\ call.at \in {"route", "reported"}
      /\ UNCHANGED <<page, delivered, next_id, pending, inbox, outbox, worker, suspended,
                     buffer, shown>>
  BY DEF Browser!Trap
<1>2. /\ call'.id = call.id /\ call'.request = call.request /\ call'.at = "throw"
      /\ app'.log = app.log /\ app'.torn = TRUE /\ app'.locked = app.locked
      /\ BridgeTypes'
  <2>1. call' = [call EXCEPT !.at = "throw"] /\ app' = [app EXCEPT !.torn = TRUE]
    BY DEF Browser!Trap
  <2>2. /\ call' \in [id : Nat, request : Calls \union {None},
                      at : {"none", "lock", "route", "reported", "read", "throw"}]
        /\ call'.id = call.id /\ call'.request = call.request /\ call'.at = "throw"
    BY <2>1 DEF BridgeTypes
  <2>3. /\ app' \in [log : Seq(Calls), torn : BOOLEAN, locked : BOOLEAN]
        /\ app'.log = app.log /\ app'.torn = TRUE /\ app'.locked = app.locked
    BY <2>1 DEF BridgeTypes
  <2>. QED  BY <2>2, <2>3, <1>1 DEF BridgeTypes
<1>3. /\ NextUp' = NextUp /\ Unanswered' = Unanswered
      /\ Incoming' /\ Current' /\ Promises'
  <2>1. call.at # "none" /\ call'.at # "none"
    BY <1>1, <1>2
  <2>. QED  BY <2>1, <1>1, <1>2, CallGoesOn
<1>4. Outgoing' /\ Awaited'
  BY <1>1, <1>3 DEF Outgoing, Awaited, IsResponse
<1>5. Progress'
  BY <1>1, <1>2, SMTT(30) DEF Progress, IsResponse, Told
<1>6. MessagesInOrder'
  BY <1>1 DEF MessagesInOrder, Browser!MessagesInOrder
<1>7. Once'
  BY <1>1, <1>2, <1>3 DEF Once
<1>8. app.locked
  BY <1>1 DEF Behind
<1>9. Behind'
  BY <1>1, <1>2, <1>8 DEF Behind
<1>. QED  BY <1>2, <1>3, <1>4, <1>5, <1>6, <1>7, <1>9

LEMMA EmitProgressBridge ==
    ASSUME BridgeIInv, Browser!EmitProgress
    PROVE  BridgeIInv'
<1>. DEFINE m == [type |-> "progress", id |-> 0, value |-> <<call.request>>]
<1>. USE Sizes DEF BridgeIInv
<1>1. /\ call.at = "route" /\ outbox' = Append(outbox, m)
      /\ UNCHANGED <<page, delivered, next_id, pending, inbox, worker, suspended,
                     buffer, app, shown>>
  BY DEF Browser!EmitProgress
<1>2. /\ call'.id = call.id /\ call'.request = call.request /\ call'.at = "reported"
      /\ call' \in [id : Nat, request : Calls \union {None},
                    at : {"none", "lock", "route", "reported", "read", "throw"}]
  BY DEF Browser!EmitProgress, BridgeTypes
<1>3. call.request \in Calls
  BY <1>1, CurrentCall
<1>4. m \in Posted /\ m.type = "progress" /\ m.value = <<call.request>>
  BY <1>3 DEF Posted
<1>. HIDE DEF m
<1>5. /\ outbox' \in Seq(Posted) /\ Len(outbox') = Len(outbox) + 1
      /\ \A i \in 1..Len(outbox) : outbox'[i] = outbox[i]
      /\ outbox'[Len(outbox) + 1] = m
  BY <1>1, <1>4, OneMore DEF BridgeTypes
<1>6. \A i \in 1..Len(outbox) : IsResponse(i)' <=> IsResponse(i)
  BY <1>5 DEF IsResponse
<1>7. \A i \in 1..Len(outbox') : IsResponse(i)' => i \in 1..Len(outbox)
  BY <1>4, <1>5 DEF IsResponse
<1>8. /\ NextUp' = NextUp /\ Unanswered' = Unanswered
      /\ Incoming' /\ Current' /\ Promises'
  <2>1. call.at # "none" /\ call'.at # "none"
    BY <1>1, <1>2
  <2>. QED  BY <2>1, <1>1, <1>2, CallGoesOn
<1>9. BridgeTypes'
  BY <1>1, <1>2, <1>5 DEF BridgeTypes
<1>10. Outgoing'
  <2>1. ASSUME NEW i \in 1..Len(outbox')
        PROVE  IF IsResponse(i)'
               THEN /\ outbox'[i].id < Unanswered
                    /\ \E p \in pending : p.id = outbox'[i].id
               ELSE \E b \in Calls : outbox'[i].value = <<b>>
    <3>1. CASE i \in 1..Len(outbox)
      BY <3>1, <1>5, <1>6 DEF Outgoing
    <3>2. CASE i = Len(outbox) + 1
      <4>1. ~IsResponse(i)' /\ outbox'[i].value = <<call.request>>
        BY <3>2, <1>4, <1>5 DEF IsResponse
      <4>. QED  BY <4>1, <1>3
    <3>. QED  BY <3>1, <3>2, <1>5
  <2>2. ASSUME NEW i \in 1..Len(outbox'), NEW j \in 1..Len(outbox'),
               IsResponse(i)', IsResponse(j)', i < j
        PROVE  outbox'[i].id < outbox'[j].id
    <3>1. i \in 1..Len(outbox) /\ IsResponse(i) /\ outbox'[i] = outbox[i]
      BY <2>2, <1>5, <1>6, <1>7
    <3>2. j \in 1..Len(outbox) /\ IsResponse(j) /\ outbox'[j] = outbox[j]
      BY <2>2, <1>5, <1>6, <1>7
    <3>. QED  BY <2>2, <3>1, <3>2 DEF Outgoing
  <2>. QED  BY <2>1, <2>2, <1>1, <1>8 DEF Outgoing
<1>11. Awaited'
  <2>1. ASSUME NEW p \in pending, p.id < Unanswered
        PROVE  \E i \in 1..Len(outbox') : IsResponse(i)' /\ outbox'[i].id = p.id
    <3>1. PICK i \in 1..Len(outbox) : IsResponse(i) /\ outbox[i].id = p.id
      BY <2>1 DEF Awaited
    <3>. QED  BY <3>1, <1>5, <1>6
  <2>. QED  BY <2>1, <1>1, <1>8 DEF Awaited
<1>12. Progress'
  <2>1. ASSUME call'.request \in Benchmarks, call'.at \in {"reported", "read"}
        PROVE  Told(call.request, Len(outbox))'
    <3>1. PICK n \in Nat : n = Len(outbox) + 1
      OBVIOUS
    <3>2. n \in 1..Len(outbox') /\ outbox'[n] = m
      BY <3>1, <1>5
    <3>3. ~IsResponse(n)' /\ outbox'[n].value = <<call'.request>>
      BY <3>2, <1>2, <1>4 DEF IsResponse
    <3>. QED  BY <3>2, <3>3 DEF Told
  <2>2. ASSUME NEW p \in pending, NEW i \in 1..Len(outbox'), p.request \in Benchmarks,
               IsResponse(i)', outbox'[i].id = p.id, outbox'[i].value # None
        PROVE  Told(p.request, i)'
    <3>1. i \in 1..Len(outbox) /\ IsResponse(i) /\ outbox'[i] = outbox[i]
      BY <2>2, <1>5, <1>6, <1>7
    <3>2. Told(p.request, i)
      BY <2>2, <3>1 DEF Progress
    <3>3. \A j \in 1..i : j \in 1..Len(outbox)
      BY <3>1
    <3>. QED  BY <3>2, <3>3, <1>1, <1>5, <1>6 DEF Told
  <2>. QED  BY <2>1, <2>2, <1>1 DEF Progress
<1>13. MessagesInOrder'
  BY <1>1 DEF MessagesInOrder, Browser!MessagesInOrder
<1>14. Once'
  BY <1>1, <1>2, <1>8 DEF Once
<1>15. Behind'
  BY <1>1, <1>2 DEF Behind
<1>. QED  BY <1>8, <1>9, <1>10, <1>11, <1>12, <1>13, <1>14, <1>15

LEMMA HandleBridge ==
    ASSUME BridgeIInv, Browser!Handle
    PROVE  /\ BridgeIInv'
           /\ call.request \in Calls /\ call.at \in {"route", "reported"}
           /\ app'.log = app.log \/ app'.log = Append(app.log, call.request)
           /\ \/ call'.at = "read" /\ buffer' = app'.log
              \/ call'.at = "throw" /\ buffer' = buffer
           /\ call'.id = call.id /\ call'.request = call.request
<1>. USE Sizes DEF BridgeIInv
<1>1. /\ call.at = IF call.request \in Benchmarks THEN "reported" ELSE "route"
      /\ UNCHANGED <<page, delivered, next_id, pending, inbox, outbox, worker, suspended,
                     shown>>
  BY DEF Browser!Handle
<1>2. call.at \in {"route", "reported"} /\ call.request \in Calls /\ ~app.torn
  <2>1. call.at \in {"route", "reported"}
    BY <1>1
  <2>. QED  BY <2>1, CurrentCall DEF Behind, BridgeTypes
<1>3. PICK entry \in {<<>>, <<call.request>>} :
        /\ app' = [log |-> app.log \o entry, torn |-> FALSE, locked |-> FALSE]
        /\ \/ /\ buffer' = app.log \o entry
              /\ call' = [call EXCEPT !.at = "read"]
           \/ /\ call' = [call EXCEPT !.at = "throw"]
              /\ UNCHANGED buffer
  BY <1>2 DEF Browser!Handle, Browser!MayAdd
<1>4. /\ app.log \in Seq(Calls)
      /\ app.log \o <<>> = app.log
      /\ app.log \o <<call.request>> = Append(app.log, call.request)
  BY <1>2 DEF BridgeTypes
<1>5. /\ app'.log = app.log \/ app'.log = Append(app.log, call.request)
      /\ app'.torn = FALSE /\ app'.locked = FALSE
      /\ app' \in [log : Seq(Calls), torn : BOOLEAN, locked : BOOLEAN]
      /\ app'.log \in Seq(Calls)
  <2>1. Append(app.log, call.request) \in Seq(Calls)
    BY <1>2, <1>4, OneMore
  <2>2. \/ app.log \o entry = app.log
        \/ app.log \o entry = Append(app.log, call.request)
    BY <1>3, <1>4
  <2>. QED  BY <2>1, <2>2, <1>3, <1>4
<1>6. /\ \/ call'.at = "read" /\ buffer' = app'.log
         \/ call'.at = "throw" /\ buffer' = buffer
      /\ call'.id = call.id /\ call'.request = call.request
      /\ call' \in [id : Nat, request : Calls \union {None},
                    at : {"none", "lock", "route", "reported", "read", "throw"}]
  BY <1>3 DEF BridgeTypes
<1>7. /\ NextUp' = NextUp /\ Unanswered' = Unanswered
      /\ Incoming' /\ Current' /\ Promises'
  <2>1. call.at # "none" /\ call'.at # "none"
    BY <1>2, <1>6
  <2>. QED  BY <2>1, <1>1, <1>6, CallGoesOn
<1>8. BridgeTypes'
  BY <1>1, <1>5, <1>6 DEF BridgeTypes
<1>9. Outgoing' /\ Awaited'
  BY <1>1, <1>7 DEF Outgoing, Awaited, IsResponse
<1>10. Progress'
  <2>1. call.request \in Benchmarks => Told(call.request, Len(outbox))
    BY <1>1 DEF Progress
  <2>2. call'.request \in Benchmarks => Told(call.request, Len(outbox))'
    BY <2>1, <1>1, <1>6 DEF Told, IsResponse
  <2>3. ASSUME NEW p \in pending, NEW i \in 1..Len(outbox), p.request \in Benchmarks,
               IsResponse(i), outbox[i].id = p.id, outbox[i].value # None
        PROVE  Told(p.request, i)'
    <3>1. Told(p.request, i)
      BY <2>3 DEF Progress
    <3>. QED  BY <3>1, <1>1 DEF Told, IsResponse
  <2>. QED  BY <2>2, <2>3, <1>1 DEF Progress, IsResponse
<1>11. MessagesInOrder'
  BY <1>1 DEF MessagesInOrder, Browser!MessagesInOrder
<1>12. Once'
  <2>1. ASSUME NEW i \in 1..Len(app'.log)
        PROVE  \/ i \in 1..Len(app.log) /\ app'.log[i] = app.log[i]
               \/ app'.log[i] = call.request
    BY <1>4, <1>5, <1>2, OneMore, SMTT(30)
  <2>2. /\ \A p \in pending : p.request = call.request => p.id < NextUp
        /\ page[call.request] # "idle"
    <3>1. [id |-> call.id, request |-> call.request] \in pending /\ call.id = NextUp - 1
      BY <1>2, CurrentCall
    <3>2. \A p \in pending : p.request = call.request => p.id = call.id
      BY <1>2, CurrentCall
    <3>3. page[call.request] = "asked"
      BY <3>1, <1>2 DEF Promises
    <3>. QED  BY <3>1, <3>2, <3>3
  <2>3. call'.at \in {"read", "throw"}
    BY <1>6
  <2>4. ASSUME NEW i \in 1..Len(app'.log)
        PROVE  /\ page[app'.log[i]] # "idle"
               /\ \A p \in pending : p.request = app'.log[i] => p.id < NextUp
    BY <2>1, <2>2 DEF Once
  <2>. QED  BY <2>3, <2>4, <1>1, <1>7 DEF Once
<1>13. Behind'
  BY <1>5, <1>6 DEF Behind
<1>. QED  BY <1>2, <1>5, <1>6, <1>7, <1>8, <1>9, <1>10, <1>11, <1>12, <1>13

\* An answer: what the buffer held, or None for an error.
Post(v) ==
    /\ call.at # "none" /\ call' = Browser!NoCall
    /\ outbox' = Append(outbox, [type |-> "response", id |-> call.id, value |-> v])
    /\ UNCHANGED <<page, delivered, next_id, pending, inbox, worker, suspended,
                   buffer, app, shown>>

LEMMA Posting ==
    /\ Browser!PostResponse => Post(buffer) /\ call.at = "read"
    /\ Browser!PostError => Post(None) /\ call.at = "throw"
BY DEF Browser!PostResponse, Browser!PostError, Browser!Post, Post

LEMMA PostBridge ==
    ASSUME BridgeIInv, NEW v \in Seq(Calls) \union {None}, Post(v),
           v # None => call.at = "read"
    PROVE  /\ BridgeIInv'
           /\ outbox'[Len(outbox) + 1] = [type |-> "response", id |-> call.id, value |-> v]
           /\ Len(outbox') = Len(outbox) + 1
           /\ \A i \in 1..Len(outbox) : outbox'[i] = outbox[i]
<1>. DEFINE m == [type |-> "response", id |-> call.id, value |-> v]
            p0 == [id |-> call.id, request |-> call.request]
<1>. USE Sizes DEF BridgeIInv
<1>1. /\ call.at # "none" /\ outbox' = Append(outbox, m)
      /\ UNCHANGED <<page, delivered, next_id, pending, inbox, worker, suspended,
                     buffer, app, shown>>
  BY DEF Post
<1>2. /\ call'.id = 0 /\ call'.request = None /\ call'.at = "none" /\ call' = Browser!NoCall
      /\ call' \in [id : Nat, request : Calls \union {None},
                    at : {"none", "lock", "route", "reported", "read", "throw"}]
  BY DEF Post, Browser!NoCall
<1>3. /\ p0 \in pending /\ p0.id = call.id /\ p0.request = call.request
      /\ call.request \in Calls /\ call.id = NextUp - 1 /\ call.id = Unanswered
      /\ \A q \in pending : q.id = call.id => q = p0
  BY <1>1, CurrentCall
<1>4. m \in Posted /\ m.type = "response" /\ m.id = call.id /\ m.value = v
  BY DEF Posted
<1>. HIDE DEF m, p0
<1>5. /\ outbox' \in Seq(Posted) /\ Len(outbox') = Len(outbox) + 1
      /\ \A i \in 1..Len(outbox) : outbox'[i] = outbox[i]
      /\ outbox'[Len(outbox) + 1] = m
  BY <1>1, <1>4, OneMore DEF BridgeTypes
<1>6. NextUp' = NextUp
  BY <1>1 DEF NextUp
<1>7. Unanswered' = Unanswered + 1
  BY <1>1, <1>2, <1>6 DEF Unanswered
<1>8. \A i \in 1..Len(outbox) : IsResponse(i)' <=> IsResponse(i)
  BY <1>5 DEF IsResponse
<1>9. PICK n \in 1..Len(outbox') : n = Len(outbox) + 1
  BY <1>5
<1>10. IsResponse(n)' /\ outbox'[n] = m /\ \A i \in 1..Len(outbox') : i = n \/ i \in 1..Len(outbox)
  BY <1>4, <1>5, <1>9 DEF IsResponse
<1>11. BridgeTypes'
  BY <1>1, <1>2, <1>5 DEF BridgeTypes
<1>12. Incoming'
  BY <1>1, <1>6, <1>7 DEF Incoming
<1>13. Current'
  BY <1>2 DEF Current
<1>14. Outgoing'
  <2>1. ASSUME NEW i \in 1..Len(outbox')
        PROVE  IF IsResponse(i)'
               THEN /\ outbox'[i].id < Unanswered'
                    /\ \E p \in pending : p.id = outbox'[i].id
               ELSE \E b \in Calls : outbox'[i].value = <<b>>
    <3>1. CASE i = n
      BY <3>1, <1>3, <1>4, <1>7, <1>10, SMTT(30)
    <3>2. CASE i \in 1..Len(outbox)
      <4>1. IF IsResponse(i)
            THEN /\ outbox[i].id < Unanswered
                 /\ \E p \in pending : p.id = outbox[i].id
            ELSE \E b \in Calls : outbox[i].value = <<b>>
        BY <3>2 DEF Outgoing
      <4>2. outbox'[i] = outbox[i] /\ (IsResponse(i)' <=> IsResponse(i))
        BY <3>2, <1>5, <1>8
      <4>3. \A id \in Nat : id < Unanswered => id < Unanswered'
        BY <1>7
      <4>. QED  BY <3>2, <4>1, <4>2, <4>3
    <3>. QED  BY <3>1, <3>2, <1>10
  <2>2. ASSUME NEW i \in 1..Len(outbox'), NEW j \in 1..Len(outbox'),
               IsResponse(i)', IsResponse(j)', i < j
        PROVE  outbox'[i].id < outbox'[j].id
    <3>1. i \in 1..Len(outbox) /\ IsResponse(i) /\ outbox'[i] = outbox[i]
      BY <2>2, <1>5, <1>8, <1>9
    <3>2. CASE j = n
      BY <3>1, <3>2, <1>3, <1>4, <1>10 DEF Outgoing
    <3>3. CASE j \in 1..Len(outbox)
      <4>1. IsResponse(j) /\ outbox'[j] = outbox[j]
        BY <2>2, <3>3, <1>5, <1>8
      <4>. QED  BY <2>2, <3>1, <3>3, <4>1 DEF Outgoing
    <3>. QED  BY <3>2, <3>3, <1>10
  <2>. QED  BY <2>1, <2>2, <1>1 DEF Outgoing
<1>15. Awaited'
  <2>1. ASSUME NEW p \in pending, p.id < Unanswered'
        PROVE  \E i \in 1..Len(outbox') : IsResponse(i)' /\ outbox'[i].id = p.id
    <3>1. CASE p.id = call.id
      BY <3>1, <1>4, <1>10
    <3>2. CASE p.id # call.id
      <4>1. p.id < Unanswered
        BY <2>1, <3>2, <1>3, <1>7, SMTT(30)
      <4>2. PICK i \in 1..Len(outbox) : IsResponse(i) /\ outbox[i].id = p.id
        BY <4>1 DEF Awaited
      <4>. QED  BY <4>2, <1>5, <1>8, SMTT(30)
    <3>. QED  BY <3>1, <3>2
  <2>. QED  BY <2>1, <1>1 DEF Awaited
<1>16. Progress'
  <2>1. call'.at \notin {"reported", "read"}
    BY <1>2
  <2>2. ASSUME NEW p \in pending, NEW i \in 1..Len(outbox'), p.request \in Benchmarks,
               IsResponse(i)', outbox'[i].id = p.id, outbox'[i].value # None
        PROVE  Told(p.request, i)'
    <3>1. CASE i = n
      <4>1. p.request = call.request /\ call.at = "read"
        BY <2>2, <3>1, <1>3, <1>4, <1>10
      <4>2. Told(p.request, Len(outbox))
        BY <2>2, <4>1 DEF Progress
      <4>3. \A j \in 1..Len(outbox) : j \in 1..i
        BY <3>1, <1>9
      <4>. QED  BY <4>2, <4>3, <1>1, <1>5, <1>8 DEF Told
    <3>2. CASE i \in 1..Len(outbox)
      <4>1. IsResponse(i) /\ outbox'[i] = outbox[i]
        BY <2>2, <3>2, <1>5, <1>8
      <4>2. Told(p.request, i)
        BY <2>2, <3>2, <4>1 DEF Progress
      <4>3. \A j \in 1..i : j \in 1..Len(outbox)
        BY <3>2
      <4>. QED  BY <4>2, <4>3, <1>1, <1>5, <1>8 DEF Told
    <3>. QED  BY <3>1, <3>2, <1>10
  <2>. QED  BY <2>1, <2>2, <1>1 DEF Progress
<1>17. Promises' /\ MessagesInOrder'
  BY <1>1 DEF Promises, MessagesInOrder, Browser!MessagesInOrder
<1>18. Once'
  <2>1. \A i \in 1..Len(app.log) :
          /\ page[app.log[i]] # "idle"
          /\ \A p \in pending : p.request = app.log[i] => p.id < NextUp
    BY DEF Once
  <2>. QED  BY <2>1, <1>1, <1>2, <1>6 DEF Once
<1>19. Behind'
  BY <1>1, <1>2 DEF Behind
<1>. QED  BY <1>5, <1>11, <1>12, <1>13, <1>14, <1>15, <1>16, <1>17, <1>18, <1>19 DEF m

LEMMA BridgeStays ==
    ASSUME BridgeIInv, UNCHANGED browserVars
    PROVE  BridgeIInv'
<1>. USE DEF BridgeIInv
<1>1. UNCHANGED <<page, delivered, next_id, pending, inbox, outbox, worker, suspended,
                  call, buffer, app, shown>>
  BY DEF browserVars
<1>2. NextUp' = NextUp /\ Unanswered' = Unanswered
  BY <1>1 DEF NextUp, Unanswered
<1>3. BridgeTypes'
  BY <1>1 DEF BridgeTypes
<1>4. Incoming' /\ Current' /\ Awaited'
  BY <1>1, <1>2 DEF Incoming, Current, Awaited, IsResponse
<1>5. Outgoing' /\ Progress'
  BY <1>1, <1>2 DEF Outgoing, Progress, IsResponse, Told
<1>6. Promises' /\ Once' /\ Behind' /\ MessagesInOrder'
  BY <1>1, <1>2 DEF Promises, Once, Behind, MessagesInOrder, Browser!MessagesInOrder
<1>. QED  BY <1>3, <1>4, <1>5, <1>6

LEMMA NextBridge ==
    ASSUME BridgeIInv, Browser!Next
    PROVE  BridgeIInv'
<1>1. ASSUME Browser!PostResponse PROVE BridgeIInv'
  <2>1. buffer \in Seq(Calls) \union {None}
    BY DEF BridgeIInv, BridgeTypes
  <2>. QED  BY <1>1, <2>1, Posting, PostBridge
<1>2. ASSUME Browser!PostError PROVE BridgeIInv'
  BY <1>2, Posting, PostBridge
<1>. QED
  BY <1>1, <1>2, AskBridge, OnMessageBridge, InstantiateBridge, ReceiveBridge, ResumeBridge,
     LockAppBridge, EmitProgressBridge, HandleBridge, TrapBridge
     DEF Browser!Next, Browser!WorkerStep

-----------------------------------------------------------------------------
(* What a request has been shown, and the refinement *)

\* The parts of Browser!Value: where the value of a call is looked for, in this order.
Way(r) == Browser!Responses(r)
ValueOnWay(r) == (CHOOSE m \in Way(r) : m.value # None).value
InLog(r) == SubSeq(app.log, 1, CHOOSE i \in Browser!Entries(r) : TRUE)

LEMMA ValueIs ==
    ASSUME NEW r
    PROVE  Browser!Value(r) =
             IF delivered[r] # None THEN delivered[r]
             ELSE IF \E m \in Way(r) : m.value # None THEN ValueOnWay(r)
             ELSE IF call.request = r /\ call.at = "read" THEN buffer
             ELSE IF Browser!Entries(r) # {} THEN InLog(r)
             ELSE None
BY DEF Browser!Value, Way, ValueOnWay, InLog

\* The value of a call depends on nothing but these.
LEMMA ValueStays ==
    ASSUME NEW r, delivered'[r] = delivered[r], Way(r)' = Way(r),
           UNCHANGED app.log,
           call.request = r /\ call.at = "read" <=> call'.request = r /\ call'.at = "read",
           call.request = r /\ call.at = "read" => buffer' = buffer
    PROVE  Browser!Value(r)' = Browser!Value(r)
<1>1. Browser!Entries(r)' = Browser!Entries(r)
  BY DEF Browser!Entries
<1>2. ValueOnWay(r)' = ValueOnWay(r) /\ InLog(r)' = InLog(r)
  BY <1>1 DEF ValueOnWay, InLog
<1>3. Browser!Value(r)' =
             IF delivered'[r] # None THEN delivered'[r]
             ELSE IF \E m \in Way(r)' : m.value # None THEN ValueOnWay(r)'
             ELSE IF call'.request = r /\ call'.at = "read" THEN buffer'
             ELSE IF Browser!Entries(r)' # {} THEN InLog(r)'
             ELSE None
  BY DEF Browser!Value, Way, ValueOnWay, InLog
<1>. QED  BY <1>1, <1>2, <1>3, ValueIs

\* Responses on their way to a call that is pending are those with its id.
LEMMA OnTheWay ==
    ASSUME BridgeIInv, NEW r \in Calls
    PROVE  /\ \A p \in pending : p.request = r =>
                Way(r) = {outbox[i] : i \in {j \in 1..Len(outbox) :
                                               IsResponse(j) /\ outbox[j].id = p.id}}
           /\ (\A p \in pending : p.request # r) => Way(r) = {}
<1>. USE Sizes DEF BridgeIInv
<1>1. DOMAIN outbox = 1..Len(outbox)
  BY DEF BridgeTypes
<1>2. Way(r) = {m \in {outbox[i] : i \in 1..Len(outbox)} :
                  m.type = "response" /\ [id |-> m.id, request |-> r] \in pending}
  BY <1>1 DEF Way, Browser!Responses
<1>3. ASSUME NEW p \in pending, p.request = r, NEW id
      PROVE  [id |-> id, request |-> r] \in pending <=> id = p.id
  <2>1. p = [id |-> p.id, request |-> r]
    BY <1>3 DEF BridgeTypes, Message
  <2>2. ASSUME [id |-> id, request |-> r] \in pending PROVE id = p.id
    BY <1>3, <2>2 DEF Awaited
  <2>. QED  BY <1>3, <2>1, <2>2
<1>4. ASSUME NEW p \in pending, p.request = r
      PROVE  Way(r) = {outbox[i] : i \in {j \in 1..Len(outbox) :
                                            IsResponse(j) /\ outbox[j].id = p.id}}
  BY <1>2, <1>3, <1>4, SMTT(30) DEF IsResponse
<1>5. ASSUME \A p \in pending : p.request # r
      PROVE  Way(r) = {}
  BY <1>2, <1>5
<1>. QED  BY <1>4, <1>5

\* The call that is worked on has been sent no response.
LEMMA NothingSent ==
    ASSUME BridgeIInv, call.at # "none"
    PROVE  /\ call.request \in Calls /\ Way(call.request) = {}
           /\ delivered[call.request] = None /\ page[call.request] = "asked"
<1>. USE Sizes DEF BridgeIInv
<1>. DEFINE p == [id |-> call.id, request |-> call.request]
<1>1. p \in pending /\ p.request = call.request /\ p.id = call.id /\ call.request \in Calls
      /\ call.id = Unanswered
  BY CurrentCall
<1>. HIDE DEF p
<1>2. ASSUME NEW j \in 1..Len(outbox), IsResponse(j) PROVE outbox[j].id # p.id
  BY <1>1, <1>2 DEF Outgoing
<1>3. PICK r \in Calls : r = call.request
  BY <1>1
<1>4. Way(r) = {}
  <2>1. Way(r) = {outbox[i] : i \in {j \in 1..Len(outbox) :
                                       IsResponse(j) /\ outbox[j].id = p.id}}
    BY <1>1, <1>3, OnTheWay
  <2>2. {j \in 1..Len(outbox) : IsResponse(j) /\ outbox[j].id = p.id} = {}
    BY <1>2
  <2>. QED  BY <2>1, <2>2
<1>5. page[call.request] = "asked" /\ delivered[call.request] = None
  BY <1>1 DEF Promises
<1>. QED  BY <1>1, <1>3, <1>4, <1>5

LEMMA SeenStays ==
    ASSUME UNCHANGED app.log, \A r \in Calls : Browser!Value(r)' = Browser!Value(r)
    PROVE  UNCHANGED <<Browser!Log, Browser!Seen>>
BY DEF Browser!Log, Browser!Seen

\* Steps that neither answer nor take effect.
LEMMA QuietStep ==
    ASSUME BridgeIInv, call.at # "read", call'.at # "read",
           UNCHANGED <<page, delivered, app.log>>,
           \A r \in Calls : Way(r)' = Way(r)
    PROVE  UNCHANGED Browser!Service!vars
<1>1. \A r \in Calls : Browser!Value(r)' = Browser!Value(r)
  BY ValueStays
<1>. QED  BY <1>1, SeenStays DEF Browser!Service!vars

LEMMA AskRefines ==
    ASSUME BridgeIInv, NEW r \in Calls, Browser!Ask(r)
    PROVE  Browser!Service!Ask(r)
<1>. DEFINE m == [id |-> next_id, request |-> r]
<1>. USE Sizes DEF BridgeIInv
<1>1. /\ page[r] = "idle" /\ page' = [page EXCEPT ![r] = "asked"]
      /\ pending' = pending \union {m} /\ next_id' = next_id + 1
      /\ UNCHANGED <<delivered, outbox, worker, suspended, call, buffer, app, shown>>
  BY DEF Browser!Ask
<1>2. DOMAIN outbox = 1..Len(outbox)
  BY DEF BridgeTypes
<1>3. ASSUME NEW i \in 1..Len(outbox), IsResponse(i) PROVE outbox[i].id # next_id
  <2>1. outbox[i].id < Unanswered
    BY <1>3 DEF Outgoing
  <2>2. Unanswered =< next_id
    OBVIOUS
  <2>. QED  BY <2>1, <2>2
<1>4. ASSUME NEW q \in Calls PROVE Way(q)' = Way(q)
  <2>1. ASSUME NEW i \in 1..Len(outbox), IsResponse(i)
        PROVE  [id |-> outbox[i].id, request |-> q] # m
    BY <1>3, <2>1
  <2>. HIDE DEF m
  <2>. QED  BY <1>1, <1>2, <2>1 DEF Way, Browser!Responses, IsResponse
<1>5. \A q \in Calls : Browser!Value(q)' = Browser!Value(q)
  BY <1>1, <1>4, ValueStays
<1>. QED  BY <1>1, <1>5, SeenStays DEF Browser!Service!Ask

LEMMA EmitProgressRefines ==
    ASSUME BridgeIInv, Browser!EmitProgress
    PROVE  UNCHANGED Browser!Service!vars
<1>. DEFINE m == [type |-> "progress", id |-> 0, value |-> <<call.request>>]
<1>1. /\ call.at = "route" /\ outbox' = Append(outbox, m)
      /\ UNCHANGED <<page, delivered, next_id, pending, inbox, worker, suspended,
                     buffer, app, shown>>
      /\ call'.at = "reported"
  BY DEF Browser!EmitProgress, BridgeIInv, BridgeTypes
<1>2. m \in Posted /\ m.type = "progress"
  <2>1. call.request \in Calls
    BY <1>1, CurrentCall
  <2>. QED  BY <2>1 DEF Posted
<1>. HIDE DEF m
<1>3. /\ DOMAIN outbox = 1..Len(outbox) /\ DOMAIN outbox' = 1..Len(outbox) + 1
      /\ Len(outbox) \in Nat
      /\ \A i \in 1..Len(outbox) : outbox'[i] = outbox[i]
      /\ outbox'[Len(outbox) + 1] = m
  BY <1>1, <1>2, OneMore DEF BridgeIInv, BridgeTypes
<1>4. {outbox'[i] : i \in DOMAIN outbox'} = {outbox[i] : i \in DOMAIN outbox} \union {m}
  <2>1. DOMAIN outbox' = DOMAIN outbox \union {Len(outbox) + 1}
    BY <1>3
  <2>. QED  BY <1>3, <2>1
<1>5. ASSUME NEW r \in Calls PROVE Way(r)' = Way(r)
  BY <1>1, <1>2, <1>4 DEF Way, Browser!Responses
<1>. QED  BY <1>1, <1>5, QuietStep

LEMMA QuietRefines ==
    ASSUME BridgeIInv,
           \/ Browser!Instantiate \/ Browser!Receive \/ Browser!Resume
           \/ Browser!LockApp \/ Browser!Trap
    PROVE  UNCHANGED Browser!Service!vars
<1>1. \/ /\ Browser!Instantiate
         /\ call' = call
      \/ call.at # "read" /\ call'.at # "read"
  BY DEF Browser!Instantiate, Browser!Receive, Browser!Resume, Browser!LockApp, Browser!Trap,
         Browser!WorkerIdle, Browser!NoCall, BridgeIInv, BridgeTypes
<1>2. UNCHANGED <<page, delivered, pending, outbox, buffer>> /\ app'.log = app.log
  BY DEF Browser!Instantiate, Browser!Receive, Browser!Resume, Browser!LockApp, Browser!Trap,
         BridgeIInv, BridgeTypes
<1>3. \A r \in Calls : Way(r)' = Way(r)
  BY <1>2 DEF Way, Browser!Responses
<1>4. \A r \in Calls : Browser!Value(r)' = Browser!Value(r)
  BY <1>1, <1>2, <1>3, ValueStays
<1>. QED  BY <1>2, <1>4, SeenStays DEF Browser!Service!vars

\* A log that has grown by another request shows what it showed.
LEMMA LongerInLog ==
    ASSUME NEW l \in Seq(Calls), NEW e \in Calls
    PROVE  /\ \A k \in 1..Len(l) : SubSeq(Append(l, e), 1, k) = SubSeq(l, 1, k)
           /\ SubSeq(Append(l, e), 1, Len(l) + 1) = Append(l, e)
           /\ DOMAIN l = 1..Len(l) /\ DOMAIN Append(l, e) = 1..Len(l) + 1
<1>. DEFINE new == Append(l, e)
<1>1. /\ new \in Seq(Calls) /\ Len(l) \in Nat /\ Len(new) = Len(l) + 1
      /\ \A i \in 1..Len(l) : new[i] = l[i]
  BY OneMore
<1>2. DOMAIN l = 1..Len(l) /\ DOMAIN new = 1..Len(l) + 1
  BY <1>1
<1>. HIDE DEF new
<1>3. ASSUME NEW k \in 1..Len(l) PROVE SubSeq(new, 1, k) = SubSeq(l, 1, k)
  <2>1. \A i \in 1..k : i \in 1..Len(l)
    BY <1>1
  <2>2. /\ SubSeq(new, 1, k) = [i \in 1..k |-> new[i]]
        /\ SubSeq(l, 1, k) = [i \in 1..k |-> l[i]]
    BY <1>1
  <2>. QED  BY <2>1, <2>2, <1>1
<1>4. SubSeq(new, 1, Len(l) + 1) = new
  <2>1. SubSeq(new, 1, Len(l) + 1) = [i \in 1..Len(l) + 1 |-> new[i]]
    BY <1>1
  <2>2. new = [i \in 1..Len(l) + 1 |-> new[i]]
    BY <1>1, <1>2
  <2>. QED  BY <2>1, <2>2
<1>. QED  BY <1>2, <1>3, <1>4 DEF new

LEMMA HandleRefines ==
    ASSUME BridgeIInv, Browser!Handle
    PROVE  \/ UNCHANGED Browser!Service!vars
           \/ \E r \in Calls : Browser!Service!TakeEffect(r)
<1>. USE DEF BridgeIInv
<1>1. PICK r \in Calls : r = call.request
  BY HandleBridge
<1>2. /\ call.at \in {"route", "reported"}
      /\ app'.log = app.log \/ app'.log = Append(app.log, r)
      /\ \/ call'.at = "read" /\ buffer' = app'.log
         \/ call'.at = "throw" /\ buffer' = buffer
      /\ call'.request = r
  BY <1>1, HandleBridge
<1>3. UNCHANGED <<page, delivered, pending, outbox>>
  BY DEF Browser!Handle
<1>4. Way(r) = {} /\ delivered[r] = None /\ page[r] = "asked"
  BY <1>1, <1>2, NothingSent
<1>5. \A q \in Calls : Way(q)' = Way(q)
  BY <1>3 DEF Way, Browser!Responses
<1>6. /\ app.log \in Seq(Calls) /\ DOMAIN app.log = 1..Len(app.log) /\ Len(app.log) \in Nat
      /\ app'.log \in Seq(Calls) /\ DOMAIN app'.log = 1..Len(app'.log) /\ app'.log # None
  <2>1. app'.log \in Seq(Calls)
    BY HandleBridge DEF BridgeTypes
  <2>. QED  BY <2>1, CallsAssumption DEF BridgeTypes
<1>7. Browser!Entries(r) = {}
  <2>1. ASSUME NEW i \in 1..Len(app.log), app.log[i] = r PROVE FALSE
    <3>1. PICK p \in pending : p.request = r /\ p.id = call.id
      BY <1>1, <1>2, CurrentCall
    <3>2. call.at \in {"read", "throw", "none"}
      BY <2>1, <3>1 DEF Once
    <3>. QED  BY <3>2, <1>2
  <2>. QED  BY <2>1, <1>6 DEF Browser!Entries
<1>8. Browser!Value(r) = None
  BY <1>2, <1>4, <1>7, ValueIs
<1>9. ASSUME NEW q \in Calls, q # r PROVE Browser!Value(q)' = Browser!Value(q)
  <2>1. CASE app'.log = app.log
    BY <2>1, <1>1, <1>2, <1>3, <1>5, <1>9, ValueStays
  <2>2. CASE app'.log = Append(app.log, r)
    <3>1. /\ Len(app'.log) = Len(app.log) + 1
          /\ \A i \in 1..Len(app.log) : app'.log[i] = app.log[i]
          /\ app'.log[Len(app.log) + 1] = r
      BY <2>2, <1>6, OneMore
    <3>2. Browser!Entries(q)' = Browser!Entries(q)
      BY <3>1, <1>6, <1>9 DEF Browser!Entries
    <3>3. ASSUME Browser!Entries(q) # {} PROVE InLog(q)' = InLog(q)
      <4>1. PICK k \in 1..Len(app.log) : k = CHOOSE i \in Browser!Entries(q) : TRUE
        BY <3>3, <1>6 DEF Browser!Entries
      <4>2. SubSeq(app'.log, 1, k) = SubSeq(app.log, 1, k)
        BY <2>2, <1>6, LongerInLog
      <4>. QED  BY <3>2, <4>1, <4>2 DEF InLog
    <3>4. ValueOnWay(q)' = ValueOnWay(q)
      BY <1>5 DEF ValueOnWay
    <3>5. Browser!Value(q)' =
             IF delivered'[q] # None THEN delivered'[q]
             ELSE IF \E m \in Way(q)' : m.value # None THEN ValueOnWay(q)'
             ELSE IF call'.request = q /\ call'.at = "read" THEN buffer'
             ELSE IF Browser!Entries(q)' # {} THEN InLog(q)'
             ELSE None
      BY DEF Browser!Value, Way, ValueOnWay, InLog
    <3>. QED  BY <3>2, <3>3, <3>4, <3>5, <1>1, <1>2, <1>3, <1>5, <1>9, ValueIs
  <2>. QED  BY <2>1, <2>2, <1>2
<1>10. Browser!Value(r)' = IF call'.at = "read" THEN buffer'
                           ELSE IF Browser!Entries(r)' # {} THEN InLog(r)' ELSE None
  <2>1. delivered'[r] = None /\ Way(r)' = {}
    BY <1>3, <1>4, <1>5
  <2>. QED  BY <2>1, <1>2 DEF Browser!Value, Way, ValueOnWay, InLog
<1>11. ASSUME Browser!Value(r)' = app'.log
       PROVE  Browser!Service!TakeEffect(r)
  <2>1. Browser!Seen[r] = None /\ page[r] \notin {"idle", "answered"}
    BY <1>4, <1>8 DEF Browser!Seen
  <2>2. Browser!Log' \in {Browser!Log, Append(Browser!Log, r)}
    BY <1>2 DEF Browser!Log
  <2>3. Browser!Seen' = [Browser!Seen EXCEPT ![r] = Browser!Log']
    BY <1>9, <1>11 DEF Browser!Seen, Browser!Log
  <2>. QED  BY <2>1, <2>2, <2>3, <1>3 DEF Browser!Service!TakeEffect
<1>12. CASE call'.at = "read"
  BY <1>2, <1>10, <1>11, <1>12
<1>13. CASE call'.at = "throw" /\ app'.log = Append(app.log, r)
  <2>1. /\ Len(app'.log) = Len(app.log) + 1
        /\ \A i \in 1..Len(app.log) : app'.log[i] = app.log[i]
        /\ app'.log[Len(app.log) + 1] = r
    BY <1>6, <1>13, OneMore
  <2>2. Browser!Entries(r)' = {Len(app.log) + 1}
    BY <2>1, <1>6, <1>7, SMTT(30) DEF Browser!Entries
  <2>3. InLog(r)' = app'.log
    <3>1. (CHOOSE i \in Browser!Entries(r)' : TRUE) = Len(app.log) + 1
      BY <2>2
    <3>. QED  BY <3>1, <1>6, <1>13, LongerInLog DEF InLog
  <2>. QED  BY <2>2, <2>3, <1>10, <1>11, <1>13
<1>14. CASE call'.at = "throw" /\ app'.log = app.log
  <2>1. Browser!Entries(r)' = {}
    BY <1>7, <1>14 DEF Browser!Entries
  <2>2. Browser!Value(r)' = Browser!Value(r)
    BY <2>1, <1>8, <1>10, <1>14
  <2>. QED  BY <2>2, <1>3, <1>9, <1>14, SeenStays DEF Browser!Service!vars
<1>. QED  BY <1>2, <1>12, <1>13, <1>14

LEMMA PostRefines ==
    ASSUME BridgeIInv, NEW v \in {buffer, None}, Post(v),
           \/ v = buffer /\ call.at = "read"
           \/ v = None /\ call.at = "throw"
    PROVE  UNCHANGED Browser!Service!vars
<1>. DEFINE m == [type |-> "response", id |-> call.id, value |-> v]
<1>. USE DEF BridgeIInv
<1>1. /\ call.at # "none" /\ outbox' = Append(outbox, m)
      /\ UNCHANGED <<page, delivered, pending, app, buffer>>
      /\ call'.request = None /\ call'.at = "none"
  BY DEF Post, Browser!NoCall
<1>2. buffer # None /\ v \in Seq(Calls) \union {None}
  BY CallsAssumption DEF BridgeTypes
<1>3. m \in Posted /\ m.type = "response" /\ m.id = call.id /\ m.value = v
  BY <1>2 DEF Posted, BridgeTypes
<1>4. PICK r \in Calls : r = call.request
  BY <1>1, NothingSent
<1>5. Way(r) = {} /\ delivered[r] = None
  BY <1>1, <1>4, NothingSent
<1>6. \A q \in Calls : [id |-> call.id, request |-> q] \in pending <=> q = r
  <2>1. ASSUME NEW q \in Calls, [id |-> call.id, request |-> q] \in pending PROVE q = r
    <3>1. [id |-> call.id, request |-> q] = [id |-> call.id, request |-> call.request]
      BY <1>1, <2>1, CurrentCall
    <3>. QED  BY <3>1, <1>4
  <2>. QED  BY <2>1, <1>1, <1>4, CurrentCall
<1>. HIDE DEF m
<1>7. {outbox'[i] : i \in DOMAIN outbox'} = {outbox[i] : i \in DOMAIN outbox} \union {m}
  <2>1. /\ DOMAIN outbox = 1..Len(outbox) /\ DOMAIN outbox' = 1..Len(outbox) + 1
        /\ Len(outbox) \in Nat
        /\ \A i \in 1..Len(outbox) : outbox'[i] = outbox[i]
        /\ outbox'[Len(outbox) + 1] = m
    BY <1>1, <1>3, OneMore DEF BridgeTypes
  <2>2. DOMAIN outbox' = DOMAIN outbox \union {Len(outbox) + 1}
    BY <2>1
  <2>. QED  BY <2>1, <2>2
<1>8. Way(r)' = Way(r) \union {m}
  BY <1>1, <1>3, <1>6, <1>7 DEF Way, Browser!Responses
<1>9. ASSUME NEW q \in Calls, q # r PROVE Browser!Value(q)' = Browser!Value(q)
  <2>1. Way(q)' = Way(q)
    BY <1>1, <1>3, <1>6, <1>7, <1>9 DEF Way, Browser!Responses
  <2>2. call.request # q /\ call'.request # q
    BY <1>1, <1>4, <1>9, CallsAssumption
  <2>. QED  BY <2>1, <2>2, <1>1, ValueStays
<1>10. Browser!Value(r)' = Browser!Value(r)
  <2>1. Way(r)' = {m} /\ delivered'[r] = None /\ call'.request # r
    BY <1>1, <1>4, <1>5, <1>8, CallsAssumption
  <2>2. Browser!Value(r)' = IF v # None THEN v
                            ELSE IF Browser!Entries(r)' # {} THEN InLog(r)' ELSE None
    <3>1. ValueOnWay(r)' = IF v # None THEN v ELSE ValueOnWay(r)'
      BY <2>1, <1>3 DEF ValueOnWay
    <3>2. (\E x \in Way(r)' : x.value # None) <=> v # None
      BY <2>1, <1>3
    <3>. QED  BY <2>1, <3>1, <3>2, <1>1 DEF Browser!Value, Way, ValueOnWay, InLog
  <2>3. Browser!Entries(r)' = Browser!Entries(r) /\ InLog(r)' = InLog(r)
    BY <1>1 DEF Browser!Entries, InLog
  <2>4. Browser!Value(r) = IF call.at = "read" THEN buffer
                           ELSE IF Browser!Entries(r) # {} THEN InLog(r) ELSE None
    BY <1>4, <1>5, ValueIs
  <2>. QED  BY <2>2, <2>3, <2>4, <1>2
<1>. QED  BY <1>1, <1>9, <1>10, SeenStays DEF Browser!Service!vars

LEMMA OnMessageRefines ==
    ASSUME BridgeIInv, Browser!OnMessage
    PROVE  \/ UNCHANGED Browser!Service!vars
           \/ \E r \in Calls : Browser!Service!Answer(r) \/ Browser!Service!GiveUp(r)
<1>. DEFINE m == Head(outbox)
            resolved == {p \in pending : p.id = m.id}
<1>. USE Sizes DEF BridgeIInv
<1>1. /\ outbox # <<>> /\ outbox' = Tail(outbox)
      /\ UNCHANGED <<call, buffer, app>>
  BY DEF Browser!OnMessage
<1>2. /\ m \in Posted /\ m = outbox[1]
      /\ outbox' \in Seq(Posted) /\ Len(outbox) \in Nat \ {0} /\ Len(outbox') = Len(outbox) - 1
      /\ \A i \in 1..Len(outbox) - 1 : outbox'[i] = outbox[i + 1]
      /\ DOMAIN outbox = 1..Len(outbox) /\ DOMAIN outbox' = 1..Len(outbox')
  BY <1>1, FirstTaken DEF BridgeTypes
<1>3. {outbox[i] : i \in DOMAIN outbox} = {outbox'[i] : i \in DOMAIN outbox'} \union {m}
  <2>. HIDE DEF m
  <2>1. ASSUME NEW i \in 1..Len(outbox), i # 1
        PROVE  outbox[i] \in {outbox'[k] : k \in DOMAIN outbox'}
    <3>1. i - 1 \in 1..Len(outbox) - 1 /\ (i - 1) + 1 = i
      BY <2>1, <1>2
    <3>2. outbox'[i - 1] = outbox[i] /\ i - 1 \in DOMAIN outbox'
      BY <3>1, <1>2
    <3>. QED  BY <3>2
  <2>2. ASSUME NEW i \in DOMAIN outbox' PROVE outbox'[i] \in {outbox[k] : k \in DOMAIN outbox}
    <3>1. i \in 1..Len(outbox) - 1 /\ i + 1 \in 1..Len(outbox)
      BY <1>2
    <3>. QED  BY <3>1, <1>2
  <2>3. 1 \in DOMAIN outbox
    BY <1>2
  <2>4. {outbox[i] : i \in DOMAIN outbox} \subseteq {outbox'[i] : i \in DOMAIN outbox'} \union {m}
    <3>1. ASSUME NEW i \in DOMAIN outbox
          PROVE  outbox[i] \in {outbox'[k] : k \in DOMAIN outbox'} \union {m}
      BY <2>1, <1>2
    <3>. QED  BY <3>1
  <2>5. {outbox'[i] : i \in DOMAIN outbox'} \union {m} \subseteq {outbox[i] : i \in DOMAIN outbox}
    <3>1. m \in {outbox[i] : i \in DOMAIN outbox}
      BY <2>3, <1>2
    <3>. QED  BY <3>1, <2>2
  <2>. QED  BY <2>4, <2>5
<1>4. CASE m.type = "progress"
  <2>1. UNCHANGED <<page, delivered, pending>>
    BY <1>4 DEF Browser!OnMessage
  <2>. HIDE DEF m
  <2>2. \A r \in Calls : Way(r)' = Way(r)
    BY <2>1, <1>3, <1>4 DEF Way, Browser!Responses
  <2>3. \A r \in Calls : Browser!Value(r)' = Browser!Value(r)
    BY <2>1, <2>2, <1>1, ValueStays
  <2>. QED  BY <2>1, <2>3, <1>1, SeenStays DEF Browser!Service!vars
<1>5. CASE m.type # "progress"
  <2>1. PICK p \in pending : p.id = m.id
    <3>. HIDE DEF m
    <3>1. 1 \in 1..Len(outbox)
      BY <1>2
    <3>2. IsResponse(1)
      BY <1>2, <1>5 DEF IsResponse, Posted
    <3>. QED  BY <3>1, <3>2, <1>2 DEF Outgoing
  <2>2. resolved = {p} /\ \A q \in pending : q.request = p.request => q = p
    BY <2>1 DEF Awaited
  <2>3. PICK r \in Calls : r = p.request
    OBVIOUS
  <2>4. /\ pending' = pending \ {p}
        /\ page' = [page EXCEPT ![r] = IF m.value = None THEN "failed" ELSE "answered"]
        /\ delivered' = [delivered EXCEPT ![r] = m.value]
    <3>1. /\ pending' = pending \ resolved
          /\ page' = [q \in Calls |-> IF q \in {x.request : x \in resolved}
                                      THEN IF m.value = None THEN "failed" ELSE "answered"
                                      ELSE page[q]]
          /\ delivered' = [q \in Calls |-> IF q \in {x.request : x \in resolved}
                                           THEN m.value ELSE delivered[q]]
      BY <1>5 DEF Browser!OnMessage
    <3>2. {x.request : x \in resolved} = {r}
      BY <2>2, <2>3
    <3>. HIDE DEF m, resolved
    <3>. QED  BY <3>1, <3>2, <2>2 DEF BridgeTypes
  <2>. HIDE DEF m, resolved
  <2>5. page[r] = "asked" /\ delivered[r] = None
    BY <2>3 DEF Promises
  <2>6. IsResponse(1) /\ outbox[1].id = p.id /\ p.id < Unanswered /\ m.type = "response"
    <3>1. IsResponse(1) /\ m.type = "response"
      BY <1>2, <1>5 DEF IsResponse, Posted
    <3>. QED  BY <3>1, <1>2, <2>1 DEF Outgoing
  <2>7. Way(r) = {m}
    <3>1. ASSUME NEW j \in 1..Len(outbox), IsResponse(j), outbox[j].id = p.id PROVE j = 1
      <4>1. 1 \in 1..Len(outbox)
        BY <1>2
      <4>2. 1 < j => outbox[1].id < outbox[j].id
        BY <4>1, <3>1, <2>6 DEF Outgoing
      <4>. QED  BY <3>1, <4>1, <4>2, <2>6
    <3>2. {j \in 1..Len(outbox) : IsResponse(j) /\ outbox[j].id = p.id} = {1}
      BY <3>1, <2>6, <1>2
    <3>3. Way(r) = {outbox[i] : i \in {j \in 1..Len(outbox) :
                                         IsResponse(j) /\ outbox[j].id = p.id}}
      BY <2>3, OnTheWay
    <3>. QED  BY <3>2, <3>3, <1>2
  <2>8. call.request # r
    <3>1. call.at = "none" => call.request = None
      BY DEF Current, Browser!NoCall
    <3>2. call.at # "none" /\ call.request = r => p.id = call.id /\ call.id = Unanswered
      BY <2>3, CurrentCall
    <3>. QED  BY <3>1, <3>2, <2>6, CallsAssumption
  <2>9. ASSUME NEW q \in Calls, q # r PROVE Browser!Value(q)' = Browser!Value(q)
    <3>1. \A id : [id |-> id, request |-> q] \in pending' <=> [id |-> id, request |-> q] \in pending
      BY <2>3, <2>4, <2>9
    <3>2. [id |-> m.id, request |-> q] \notin pending
      <4>1. ASSUME [id |-> m.id, request |-> q] \in pending PROVE FALSE
        <5>1. [id |-> m.id, request |-> q] = p
          BY <4>1, <2>1 DEF Awaited
        <5>. QED  BY <5>1, <2>3, <2>9
      <4>. QED  BY <4>1
    <3>3. Way(q)' = Way(q)
      BY <3>1, <3>2, <1>3 DEF Way, Browser!Responses
    <3>4. delivered'[q] = delivered[q]
      BY <2>4, <2>9 DEF BridgeTypes
    <3>. QED  BY <3>3, <3>4, <1>1, ValueStays
  <2>10. Way(r)' = {}
    <3>1. \A id : [id |-> id, request |-> r] \notin pending'
      BY <2>2, <2>3, <2>4
    <3>. QED  BY <3>1 DEF Way, Browser!Responses
  <2>11. delivered'[r] = m.value
    BY <2>4 DEF BridgeTypes
  <2>12. Browser!Value(r) = IF m.value # None THEN m.value
                            ELSE IF Browser!Entries(r) # {} THEN InLog(r) ELSE None
    <3>1. ValueOnWay(r) = IF m.value # None THEN m.value ELSE ValueOnWay(r)
      BY <2>7 DEF ValueOnWay
    <3>2. (\E x \in Way(r) : x.value # None) <=> m.value # None
      BY <2>7
    <3>. QED  BY <3>1, <3>2, <2>5, <2>8, ValueIs
  <2>13. Browser!Value(r)' = Browser!Value(r)
    <3>1. Browser!Entries(r)' = Browser!Entries(r) /\ InLog(r)' = InLog(r)
      BY <1>1 DEF Browser!Entries, InLog
    <3>2. Browser!Value(r)' = IF m.value # None THEN m.value
                              ELSE IF Browser!Entries(r)' # {} THEN InLog(r)' ELSE None
      BY <1>1, <2>8, <2>10, <2>11 DEF Browser!Value, Way, ValueOnWay, InLog
    <3>. QED  BY <3>1, <3>2, <2>12
  <2>14. UNCHANGED <<Browser!Log, Browser!Seen>>
    BY <2>9, <2>13, <1>1, SeenStays
  <2>15. m.value # None => Browser!Seen[r] # None
    BY <2>12 DEF Browser!Seen
  <2>16. m.value # None => Browser!Service!Answer(r)
    BY <2>4, <2>5, <2>14, <2>15 DEF Browser!Service!Answer
  <2>17. m.value = None => Browser!Service!GiveUp(r)
    BY <2>4, <2>5, <2>14 DEF Browser!Service!GiveUp
  <2>. QED  BY <2>16, <2>17
<1>. QED  BY <1>4, <1>5

LEMMA BridgeStep ==
    ASSUME BridgeIInv, Browser!Next
    PROVE  [Browser!Service!Next]_Browser!Service!vars
<1>1. ASSUME NEW r \in Calls, Browser!Ask(r) PROVE Browser!Service!Next
  BY <1>1, AskRefines DEF Browser!Service!Next
<1>2. ASSUME Browser!Handle PROVE [Browser!Service!Next]_Browser!Service!vars
  BY <1>2, HandleRefines DEF Browser!Service!Next
<1>3. ASSUME Browser!OnMessage PROVE [Browser!Service!Next]_Browser!Service!vars
  BY <1>3, OnMessageRefines DEF Browser!Service!Next
<1>4. ASSUME Browser!PostResponse \/ Browser!PostError PROVE UNCHANGED Browser!Service!vars
  <2>1. CASE Browser!PostResponse
    BY <2>1, Posting, PostRefines
  <2>2. CASE Browser!PostError
    BY <2>2, Posting, PostRefines
  <2>. QED  BY <1>4, <2>1, <2>2
<1>. QED
  BY <1>1, <1>2, <1>3, <1>4, QuietRefines, EmitProgressRefines
     DEF Browser!Next, Browser!WorkerStep

LEMMA BridgeServiceInit == Browser!Init => Browser!Service!Init
<1>. SUFFICES ASSUME Browser!Init PROVE Browser!Service!Init
  OBVIOUS
<1>1. ASSUME NEW r \in Calls PROVE Browser!Value(r) = None
  <2>1. /\ outbox = <<>> /\ app.log = <<>> /\ delivered[r] = None /\ call.at = "none"
    BY <1>1 DEF Browser!Init, Browser!NoCall
  <2>2. Way(r) = {} /\ Browser!Entries(r) = {}
    BY <2>1 DEF Way, Browser!Responses, Browser!Entries
  <2>. QED  BY <2>1, <2>2, ValueIs
<1>2. Browser!Seen = [r \in Calls |-> None]
  BY <1>1 DEF Browser!Seen
<1>3. page = [r \in Calls |-> "idle"] /\ Browser!Log = <<>>
  BY DEF Browser!Init, Browser!Log
<1>. QED  BY <1>2, <1>3 DEF Browser!Service!Init

-----------------------------------------------------------------------------
(* The theorems *)

LEMMA DeploymentStep ==
    ASSUME IInv, BridgeIInv, [DeploymentNext]_<<deployment, vars, browserVars>>
    PROVE  /\ IInv' /\ BridgeIInv'
           /\ [Service!Next]_(Service!vars)
           /\ [Browser!Service!Next]_(Browser!Service!vars)
<1>1. [Next]_vars
  BY DEF DeploymentNext
<1>2. Browser!Next \/ UNCHANGED browserVars
  BY DEF DeploymentNext
<1>3. IInv'
  BY <1>1, NextIInv
<1>4. BridgeIInv'
  BY <1>2, NextBridge, BridgeStays
<1>5. [Service!Next]_(Service!vars)
  BY <1>1, <1>3, NextService
<1>6. CASE Browser!Next
  BY <1>3, <1>4, <1>5, <1>6, BridgeStep
<1>7. CASE UNCHANGED browserVars
  <2>1. UNCHANGED <<page, delivered, pending, outbox, call, buffer, app>>
    BY <1>7 DEF browserVars
  <2>2. \A r \in Calls : Way(r)' = Way(r)
    BY <2>1 DEF Way, Browser!Responses
  <2>3. \A r \in Calls : Browser!Value(r)' = Browser!Value(r)
    BY <2>1, <2>2, ValueStays
  <2>4. UNCHANGED Browser!Service!vars
    BY <2>1, <2>3, SeenStays DEF Browser!Service!vars
  <2>. QED  BY <2>4, <1>3, <1>4, <1>5
<1>. QED  BY <1>2, <1>6, <1>7

\* In both deployments the state is as the two inductive invariants say: for the browser,
\* that the ids of the messages on their way are consecutive and each belongs to a promise.
THEOREM DeploymentInvariance == DeploymentSpec => [](IInv /\ BridgeIInv)
<1>1. DeploymentInit => IInv /\ BridgeIInv
  BY InitIInv, InitBridge DEF DeploymentInit
<1>2. (IInv /\ BridgeIInv) /\ [DeploymentNext]_<<deployment, vars, browserVars>>
        => (IInv /\ BridgeIInv)'
  BY DeploymentStep
<1>. QED  BY <1>1, <1>2, PTL DEF DeploymentSpec

\* The page is answered in the order of its calls, and a benchmark's progress reaches it
\* before the answer does, for any number of calls (boot.js, worker.js, host_progress).
THEOREM AnsweredInOrder == DeploymentSpec => []MessagesInOrder
<1>1. BridgeIInv => MessagesInOrder
  BY DEF BridgeIInv
<1>. QED  BY <1>1, DeploymentInvariance, PTL

\* Both deployments implement RequestService, for any requests, threads and calls.  In the
\* browser a call takes effect when its handler returns: its value is then in the response
\* buffer, next in a message, at last with the page, and no later call can overwrite it
\* before it is read; a call that has trapped leaves the elections behind a lock.
THEOREM DeploymentsImplementService == DeploymentSpec => ImplementsService
<1>1. DeploymentInit => Service!Init /\ Browser!Service!Init
  BY InitService, BridgeServiceInit DEF DeploymentInit
<1>2. IInv /\ BridgeIInv /\ [DeploymentNext]_<<deployment, vars, browserVars>>
        => [Service!Next]_(Service!vars) /\ [Browser!Service!Next]_(Browser!Service!vars)
  BY DeploymentStep
<1>. QED
  BY <1>1, <1>2, DeploymentInvariance, PTL
     DEF DeploymentSpec, ImplementsService, Service!Spec, Browser!Service!Spec
=============================================================================
