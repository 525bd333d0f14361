--------------------------- MODULE DeliveryProofs ---------------------------
(***************************************************************************)
(* The content handler is called once for every notification and no wake   *)
(* that reached the device is forgotten, for every number of events,       *)
(* pushes and failures and every size of the inbox.                        *)
(*                                                                         *)
(* First what the queue operators return; then the inductive invariant     *)
(* DeliveryInv; then that every action keeps it.                           *)
(***************************************************************************)
EXTENDS WakeDelivery, WellFoundedInduction, TLAPS

\* A nonempty set of naturals has a least element.
LEMMA LeastNatural ==
    ASSUME NEW S \in SUBSET Nat, S # {}
    PROVE  \E i \in S : \A j \in S : i <= j
<1> DEFINE R == OpToRel(<, Nat)
<1>1. IsWellFoundedOn(R, Nat)
  BY NatLessThanWellFounded
<1>2. \A i, j \in Nat : i < j => <<i, j>> \in R
  BY DEF OpToRel
<1> HIDE DEF R
<1>3. PICK i \in S : \A j \in S : <<j, i>> \notin R
  BY <1>1, WFMin
<1>4. \A j \in S : i \in Nat /\ j \in Nat /\ ~(j < i)
  BY <1>2, <1>3
<1>5. \A j \in S : i <= j
  BY <1>4
<1> QED BY <1>5
-----------------------------------------------------------------------------
(* The queue. *)

Entries(queue) == {queue[i] : i \in 1 .. Len(queue)}

\* The prefixes of queue without the entries of e, up to m.
Rests(queue, e, m, Rest) ==
    Rest = [n \in 0 .. m |->
              IF n = 0 THEN <<>>
              ELSE IF queue[n].event = e THEN Rest[n - 1]
              ELSE Append(Rest[n - 1], queue[n])]

\* The function Without defines exists.
LEMMA RestExists ==
    ASSUME NEW queue \in Seq(Wakes), NEW e, NEW m \in Nat
    PROVE  \E Rest : Rests(queue, e, m, Rest)
<1> DEFINE Bad == {k \in Nat : ~ \E Rest : Rests(queue, e, k, Rest)}
<1>1. SUFFICES ASSUME Bad # {} PROVE FALSE
  OBVIOUS
<1>2. PICK k \in Bad : \A j \in Bad : k <= j
  BY <1>1, LeastNatural
<1>3. k # 0
  <2> DEFINE Zero == [n \in 0 .. 0 |->
                        IF n = 0 THEN <<>>
                        ELSE IF queue[n].event = e THEN <<>>
                        ELSE Append(<<>>, queue[n])]
  <2>1. Zero = [n \in 0 .. 0 |->
              IF n = 0 THEN <<>>
              ELSE IF queue[n].event = e THEN Zero[n - 1]
              ELSE Append(Zero[n - 1], queue[n])]
    <3>1. \A n \in 0 .. 0 : n = 0
      OBVIOUS
    <3> QED BY <3>1
  <2>2. Rests(queue, e, 0, Zero)
    BY <2>1 DEF Rests
  <2> QED BY <2>2
<1>4. k - 1 \in Nat /\ k - 1 \notin Bad
  BY <1>2, <1>3
<1>5. PICK Rest : Rests(queue, e, k - 1, Rest)
  BY <1>4
<1> DEFINE New == [n \in 0 .. k |->
              IF n = 0 THEN <<>>
              ELSE IF queue[n].event = e THEN Rest[n - 1]
              ELSE Append(Rest[n - 1], queue[n])]
<1>6. \A n \in 0 .. (k - 1) : New[n] = Rest[n]
  <2>1. SUFFICES ASSUME NEW n \in 0 .. (k - 1) PROVE New[n] = Rest[n]
    OBVIOUS
  <2>2. n \in 0 .. k
    BY <1>4, <2>1
  <2>3. New[n] = IF n = 0 THEN <<>>
              ELSE IF queue[n].event = e THEN Rest[n - 1]
              ELSE Append(Rest[n - 1], queue[n])
    BY <2>2
  <2>4. Rest[n] = IF n = 0 THEN <<>>
              ELSE IF queue[n].event = e THEN Rest[n - 1]
              ELSE Append(Rest[n - 1], queue[n])
    BY <1>5, <2>1 DEF Rests
  <2> QED BY <2>3, <2>4
<1>7. \A n \in 0 .. k : n # 0 => New[n - 1] = Rest[n - 1]
  <2>1. \A n \in 0 .. k : n # 0 => n - 1 \in 0 .. (k - 1)
    BY <1>2
  <2> HIDE DEF New
  <2> QED BY <1>6, <2>1
<1>8. New = [n \in 0 .. k |->
              IF n = 0 THEN <<>>
              ELSE IF queue[n].event = e THEN New[n - 1]
              ELSE Append(New[n - 1], queue[n])]
  <2> HIDE DEF New
  <2>1. [n \in 0 .. k |->
              IF n = 0 THEN <<>>
              ELSE IF queue[n].event = e THEN New[n - 1]
              ELSE Append(New[n - 1], queue[n])]
        = [n \in 0 .. k |->
              IF n = 0 THEN <<>>
              ELSE IF queue[n].event = e THEN Rest[n - 1]
              ELSE Append(Rest[n - 1], queue[n])]
    BY <1>7
  <2> QED BY <2>1 DEF New
<1>9. Rests(queue, e, k, New)
  BY <1>8 DEF Rests
<1> QED BY <1>2, <1>9

\* What is left has no entry more, and has exactly the entries of others.
LEMMA AppendEntries ==
    ASSUME NEW S, NEW s \in Seq(S), NEW x \in S
    PROVE  /\ Append(s, x) \in Seq(S) /\ Len(Append(s, x)) = Len(s) + 1
           /\ Entries(Append(s, x)) = Entries(s) \cup {x}
<1> DEFINE t == Append(s, x)
<1>1. t \in Seq(S) /\ Len(t) = Len(s) + 1 /\ Len(s) \in Nat
  OBVIOUS
<1>2. \A i \in 1 .. Len(s) : t[i] = s[i]
  OBVIOUS
<1>3. t[Len(s) + 1] = x
  OBVIOUS
<1> HIDE DEF t
<1>4. Entries(t) \subseteq Entries(s) \cup {x}
  <2>1. SUFFICES ASSUME NEW i \in 1 .. Len(t) PROVE t[i] \in Entries(s) \cup {x}
    BY DEF Entries
  <2>2. CASE i = Len(s) + 1
    BY <2>2, <1>3
  <2>3. CASE i # Len(s) + 1
    <3>1. i \in 1 .. Len(s)
      BY <2>3, <1>1
    <3> QED BY <3>1, <1>2 DEF Entries
  <2> QED BY <2>2, <2>3
<1>5. x \in Entries(t)
  <2>1. Len(s) + 1 \in 1 .. Len(t)
    BY <1>1
  <2> QED BY <2>1, <1>3 DEF Entries
<1>6. Entries(s) \subseteq Entries(t)
  <2>1. \A i \in 1 .. Len(s) : i \in 1 .. Len(t)
    BY <1>1
  <2> QED BY <2>1, <1>2 DEF Entries
<1> QED BY <1>1, <1>4, <1>5, <1>6 DEF t

LEMMA WithoutKeepsOthers ==
    ASSUME NEW queue \in Seq(Wakes), NEW e
    PROVE  /\ Without(queue, e) \in Seq(Wakes)
           /\ Len(Without(queue, e)) <= Len(queue)
           /\ Entries(Without(queue, e)) = {w \in Entries(queue) : w.event # e}
<1> DEFINE Rest == CHOOSE R : Rests(queue, e, Len(queue), R)
<1>1. Without(queue, e) = Rest[Len(queue)]
  BY DEF Without, Rests
<1>2. Len(queue) \in Nat
  OBVIOUS
<1>3. Rests(queue, e, Len(queue), Rest)
  <2>1. \E R : Rests(queue, e, Len(queue), R)
    BY <1>2, RestExists
  <2> QED BY <2>1
<1> HIDE DEF Rest
<1>4. \A n \in 0 .. Len(queue) :
        Rest[n] = IF n = 0 THEN <<>>
                  ELSE IF queue[n].event = e THEN Rest[n - 1]
                  ELSE Append(Rest[n - 1], queue[n])
  BY <1>3 DEF Rests
<1> DEFINE Old(n) == {queue[i] : i \in 1 .. n}
           Good(n) == /\ Rest[n] \in Seq(Wakes) /\ Len(Rest[n]) <= n
                      /\ Entries(Rest[n]) = {w \in Old(n) : w.event # e}
           Bad == {n \in 0 .. Len(queue) : ~Good(n)}
<1>5. Good(0)
  <2>1. Rest[0] = <<>>
    BY <1>2, <1>4
  <2>2. Entries(<<>>) = {} /\ Old(0) = {}
    BY DEF Entries
  <2> QED BY <2>1, <2>2
<1>6. ASSUME NEW n \in 1 .. Len(queue), Good(n - 1)
      PROVE  Good(n)
  <2>1. n \in 0 .. Len(queue) /\ n # 0 /\ n - 1 \in Nat /\ queue[n] \in Wakes
    BY <1>2
  <2>2. Old(n) = Old(n - 1) \cup {queue[n]}
    <3>1. \A i \in 1 .. n : i \in 1 .. (n - 1) \/ i = n
      BY <2>1
    <3>2. \A i \in 1 .. (n - 1) : i \in 1 .. n
      BY <2>1
    <3>3. n \in 1 .. n
      BY <2>1
    <3> QED BY <3>1, <3>2, <3>3
  <2> DEFINE r == Rest[n - 1]
             o == Old(n - 1)
  <2>3. r \in Seq(Wakes) /\ Len(r) <= n - 1 /\ Entries(r) = {w \in o : w.event # e}
    BY <1>6
  <2>4. Rest[n] = IF queue[n].event = e THEN r ELSE Append(r, queue[n])
    BY <1>4, <2>1
  <2>5. Old(n) = o \cup {queue[n]}
    BY <2>2
  <2> HIDE DEF r, o, Old
  <2>6. CASE queue[n].event = e
    <3>1. Rest[n] = r
      BY <2>4, <2>6
    <3>2. {w \in Old(n) : w.event # e} = {w \in o : w.event # e}
      BY <2>5, <2>6
    <3>3. Len(r) <= n
      BY <2>1, <2>3
    <3> QED BY <2>3, <3>1, <3>2, <3>3
  <2>7. CASE queue[n].event # e
    <3>1. Rest[n] = Append(r, queue[n])
      BY <2>4, <2>7
    <3>2. /\ Append(r, queue[n]) \in Seq(Wakes) /\ Len(Append(r, queue[n])) = Len(r) + 1
          /\ Entries(Append(r, queue[n])) = Entries(r) \cup {queue[n]}
      BY <2>1, <2>3, AppendEntries
    <3>3. {w \in Old(n) : w.event # e} = {w \in o : w.event # e} \cup {queue[n]}
      BY <2>5, <2>7
    <3>4. Len(r) + 1 <= n
      BY <2>1, <2>3
    <3> QED BY <2>3, <3>1, <3>2, <3>3, <3>4
  <2> QED BY <2>6, <2>7
<1>7. Bad = {}
  <2>1. SUFFICES ASSUME Bad # {} PROVE FALSE
    OBVIOUS
  <2>2. PICK n \in Bad : \A j \in Bad : n <= j
    <3>1. Bad \in SUBSET Nat
      BY <1>2
    <3> HIDE DEF Bad
    <3> QED BY <2>1, <3>1, LeastNatural
  <2>3. n \in 0 .. Len(queue) /\ ~Good(n)
    BY <2>2
  <2> HIDE DEF Good
  <2>4. n # 0
    BY <1>5, <2>3
  <2>5. n \in 1 .. Len(queue) /\ n - 1 \in 0 .. Len(queue) /\ ~(n <= n - 1)
    BY <1>2, <2>3, <2>4
  <2>6. Good(n - 1)
    BY <2>2, <2>5
  <2> QED BY <1>6, <2>3, <2>5, <2>6
<1>8. Good(Len(queue))
  <2>1. Len(queue) \in 0 .. Len(queue)
    BY <1>2
  <2> HIDE DEF Good
  <2> QED BY <1>7, <2>1
<1>9. Old(Len(queue)) = Entries(queue)
  BY DEF Entries
<1> QED BY <1>1, <1>8, <1>9

LEMMA TailEntries ==
    ASSUME NEW S, NEW s \in Seq(S), s # <<>>
    PROVE  /\ Tail(s) \in Seq(S) /\ Len(Tail(s)) = Len(s) - 1
           /\ Entries(Tail(s)) \subseteq Entries(s)
           /\ Len(s) > 1 => s[Len(s)] \in Entries(Tail(s))
<1> DEFINE t == Tail(s)
<1>1. t \in Seq(S) /\ Len(t) = Len(s) - 1 /\ Len(s) \in Nat /\ Len(s) > 0
  OBVIOUS
<1>2. \A i \in 1 .. Len(t) : t[i] = s[i + 1]
  OBVIOUS
<1> HIDE DEF t
<1>3. \A i \in 1 .. Len(t) : i + 1 \in 1 .. Len(s)
  BY <1>1
<1>4. Entries(t) \subseteq Entries(s)
  BY <1>2, <1>3 DEF Entries
<1>5. ASSUME Len(s) > 1 PROVE s[Len(s)] \in Entries(t)
  <2>1. Len(t) \in 1 .. Len(t) /\ Len(t) + 1 = Len(s)
    BY <1>1, <1>5
  <2>2. t[Len(t)] = s[Len(s)]
    BY <1>2, <2>1
  <2> QED BY <2>1, <2>2 DEF Entries
<1> QED BY <1>1, <1>4, <1>5 DEF t

\* An enqueued wake is in the queue, whatever gives way to it; the queue
\* keeps its limit and one entry per event.
LEMMA EnqueuedKeepsLimit ==
    ASSUME NEW queue \in Seq(Wakes), NEW wake \in Wakes, Len(queue) <= MaxPendingRequests
    PROVE  /\ Enqueued(queue, wake) \in Seq(Wakes)
           /\ Len(Enqueued(queue, wake)) <= MaxPendingRequests
           /\ wake \in Entries(Enqueued(queue, wake))
           /\ Entries(Enqueued(queue, wake)) \subseteq
                {w \in Entries(queue) : w.event # wake.event} \cup {wake}
<1> DEFINE rest == Without(queue, wake.event)
           requests == Append(rest, wake)
<1>1. /\ rest \in Seq(Wakes) /\ Len(rest) <= Len(queue)
      /\ Entries(rest) = {w \in Entries(queue) : w.event # wake.event}
  BY WithoutKeepsOthers
<1>2. /\ requests \in Seq(Wakes) /\ Len(requests) = Len(rest) + 1
      /\ Entries(requests) = Entries(rest) \cup {wake}
  <2> HIDE DEF rest
  <2> QED BY <1>1, AppendEntries
<1>3. requests[Len(requests)] = wake
  <2> HIDE DEF rest
  <2> QED BY <1>1
<1>4. Enqueued(queue, wake) =
        IF Len(requests) > MaxPendingRequests THEN Tail(requests) ELSE requests
  BY DEF Enqueued
<1>5. /\ MaxPendingRequests \in Nat /\ MaxPendingRequests > 0
      /\ Len(queue) \in Nat /\ Len(rest) \in Nat
  <2> HIDE DEF rest
  <2> QED BY <1>1, DeliveryAssumption
<1> HIDE DEF rest, requests
<1>6. Len(requests) <= MaxPendingRequests + 1 /\ Len(requests) \in Nat /\ Len(requests) > 0
  BY <1>1, <1>2, <1>5
<1>7. wake \in Entries(requests)
  BY <1>2
<1>8. CASE Len(requests) > MaxPendingRequests
  <2>1. requests # <<>> /\ Len(requests) > 1
    BY <1>5, <1>6, <1>8
  <2>2. /\ Tail(requests) \in Seq(Wakes) /\ Len(Tail(requests)) = Len(requests) - 1
        /\ Entries(Tail(requests)) \subseteq Entries(requests)
        /\ requests[Len(requests)] \in Entries(Tail(requests))
    BY <1>2, <2>1, TailEntries
  <2>3. Len(requests) - 1 <= MaxPendingRequests
    BY <1>5, <1>6
  <2> QED BY <1>1, <1>2, <1>3, <1>4, <1>8, <2>2, <2>3
<1>9. CASE ~(Len(requests) > MaxPendingRequests)
  <2>1. Len(requests) <= MaxPendingRequests
    BY <1>5, <1>6, <1>9
  <2> QED BY <1>1, <1>2, <1>4, <1>7, <1>9, <2>1
<1> QED BY <1>8, <1>9
-----------------------------------------------------------------------------
(* The inductive invariant. *)

Notifications ==
    [state: {"idle", "active", "finished"}, wake: Wakes, started: BOOLEAN,
     content: Seq(Results \cup {"openApplication"})]
RunRecords ==
    [pc: States, wake: Wakes, cancelled: BOOLEAN,
     seen: {"none", "pending", "completed"}, result: Results \cup {"none"}]

\* The request of e is answered, waits where nothing can kill it, or was
\* given up in a way WakeNotForgotten names.
Safe(e) ==
    \/ event[e] = "terminal" \/ Wake(e, FALSE) \in InInbox(e) \cup notices
    \/ closed[e] # {}

\* A run in these states has a result.
Ended == {"notify", "reload", "complete", "post", "result", "finish", "waiting"}

\* The inbox holds one wake of an event.
InboxOnce ==
    \A w, v \in Entries(inbox) : w.event = v.event => w = v

\* The content handler is called when the coordinator is both started and
\* finished, which it is whichever of start, finish and timeWillExpire is last.
NotificationInv ==
    nse # NoNotification =>
        /\ nse.state = "idle" => ~nse.started
        /\ nse.state = "active" => nse.started
        /\ Len(nse.content) = IF nse.started /\ nse.state = "finished" THEN 1 ELSE 0

\* The extension runs the wake of its notification.
ExtInv ==
    run["ext"].pc # "idle" =>
        nse # NoNotification /\ nse.started /\ run["ext"].wake = nse.wake

\* A task of the application is in flight, runs a wake of its event, and a
\* request it runs is safe without it.
AppInv ==
    \A e \in EventIds : run[e].pc # "idle" =>
        /\ e \in in_flight /\ run[e].wake.event = e
        /\ ~run[e].wake.settlement => Safe(e)

\* What a run knows: its result fits its state, and a completed request is
\* terminal.
ResultsInv ==
    \A r \in Runs : run[r].pc # "idle" =>
        /\ run[r].pc \in Ended => run[r].result # "none"
        /\ run[r].pc \in {"claim", "work"} => ~run[r].wake.settlement
        /\ run[r].pc = "settle" => run[r].wake.settlement
        /\ ~run[r].wake.settlement /\ run[r].result = "completed" =>
              event[EventOf(r)] = "terminal"

\* The extension leaves a request to another process only where that process
\* keeps it.
ProcessedInv ==
    \A e \in EventIds :
        /\ run["ext"].pc # "idle" /\ run["ext"].result = "processed"
        /\ run["ext"].wake = Wake(e, FALSE)
        => Safe(e)

\* The extension is about to hand the request of e over.
Handing(e) ==
    /\ run["ext"].pc = "result" /\ run["ext"].result = "queued"
    /\ run["ext"].wake = Wake(e, FALSE)

\* Whoever holds the claim of e works on e; a claim left behind is of a request
\* that is safe or about to be.
LeaseInv ==
    \A e \in EventIds :
        /\ lease[e] \in Runs => run[lease[e]].pc = "work" /\ EventOf(lease[e]) = e
        /\ lease[e] = "orphan" => Safe(e) \/ Handing(e)

\* Once the extension is done with a request, somebody else answers for it.
HandedInv ==
    \A e \in EventIds :
        /\ nse # NoNotification /\ nse.started /\ nse.wake = Wake(e, FALSE)
        /\ run["ext"].pc \in {"idle", "finish"}
        => Safe(e)

\* A request pushed to the device is safe, or the extension still has it.
PushedInv ==
    \A e \in EventIds :
        pushes[e] > 0 =>
            \/ Safe(e)
            \/ nse # NoNotification /\ nse.wake = Wake(e, FALSE)

DeliveryInv ==
    /\ DeliveryTypeOK /\ InboxOnce /\ NotificationInv /\ ExtInv /\ AppInv
    /\ ResultsInv /\ ProcessedInv /\ LeaseInv /\ HandedInv /\ PushedInv
-----------------------------------------------------------------------------
(* What the invariant says of one run, one notification. *)

LEMMA RunTyped ==
    ASSUME DeliveryTypeOK, NEW r \in Runs, run[r].pc # "idle"
    PROVE  run[r] \in RunRecords
<1>1. run[r] \in {NoRun} \cup RunRecords
  BY DEF DeliveryTypeOK, RunRecords
<1>2. run[r] # NoRun
  BY DEF NoRun
<1> QED BY <1>1, <1>2

LEMMA NotificationTyped ==
    ASSUME DeliveryTypeOK, nse # NoNotification
    PROVE  nse \in Notifications
BY DEF DeliveryTypeOK, Notifications

LEMMA WakeTyped ==
    ASSUME NEW wake \in Wakes
    PROVE  /\ wake = Wake(wake.event, wake.settlement)
           /\ wake.event \in EventIds /\ wake.settlement \in BOOLEAN
BY DEF Wakes, Wake

\* Nobody is named like the extension or like a state of a lease.
LEMMA NamesDiffer ==
    /\ \A e \in EventIds : e \in Runs /\ e # "ext" /\ e # "none" /\ e # "orphan"
    /\ "ext" \in Runs /\ "none" \notin Runs /\ "orphan" \notin Runs
BY DeliveryAssumption DEF Runs

\* No step takes a safe request back.
Keeps == \A e \in EventIds : Safe(e) => Safe(e)'

\* Safety is lost only where the entry or the notice goes.
LEMMA SafeStays ==
    ASSUME NEW e \in EventIds, Safe(e),
           event[e] = "terminal" => event'[e] = "terminal",
           closed[e] \subseteq closed'[e],
           Wake(e, FALSE) \in InInbox(e) \cup notices => Safe(e)'
    PROVE  Safe(e)'
<1>1. CASE event[e] = "terminal"
  BY <1>1 DEF Safe
<1>2. CASE closed[e] # {}
  BY <1>2 DEF Safe
<1> QED BY <1>1, <1>2 DEF Safe

\* A step that leaves the inbox and the notices alone keeps what is safe.
LEMMA QuietKeeps ==
    ASSUME \A e \in EventIds : event[e] = "terminal" => event'[e] = "terminal",
           inbox' = inbox, notices \subseteq notices',
           \A e \in EventIds : closed[e] \subseteq closed'[e]
    PROVE  Keeps
<1>1. SUFFICES ASSUME NEW e \in EventIds, Safe(e) PROVE Safe(e)'
  BY DEF Keeps
<1>2. InInbox(e)' = InInbox(e) /\ Wake(e, FALSE)' = Wake(e, FALSE)
  BY DEF InInbox, Wake
<1>3. Wake(e, FALSE) \in InInbox(e) \cup notices => Safe(e)'
  BY <1>2 DEF Safe
<1> QED BY <1>1, <1>3, SafeStays
-----------------------------------------------------------------------------
(* NwcMobile::handle_wake. *)

\* What a step of handle_wake by r, or its deadline, may do.
RunStep(r, rec) ==
    /\ run[r].pc \notin {"idle", "result", "finish", "waiting"}
    /\ run' = [run EXCEPT ![r] = rec]
    /\ rec.wake = run[r].wake /\ rec.pc \notin {"finish", "waiting"}
    /\ rec.pc \in Ended => rec.result # "none"
    /\ rec.pc \in {"claim", "work"} => ~rec.wake.settlement
    /\ rec.pc = "settle" => rec.wake.settlement
    /\ ~rec.wake.settlement /\ rec.result = "completed" =>
          event'[rec.wake.event] = "terminal"
    /\ r = "ext" /\ ~rec.wake.settlement /\ rec.result = "processed" =>
          Safe(rec.wake.event)
    /\ \A e \in EventIds : event[e] = "terminal" => event'[e] = "terminal"
    /\ \A e \in EventIds :
          \/ lease'[e] = lease[e] /\ (lease[e] = r => rec.pc = "work")
          \/ lease'[e] = "none"
          \/ lease'[e] = r /\ rec.wake.event = e /\ rec.pc = "work"
          \/ lease[e] = r /\ lease'[e] = "orphan" /\ rec.pc = "result" /\ rec.result = "queued"
    /\ event' \in [EventIds -> {"open", "terminal"}]
    /\ lease' \in [EventIds -> Runs \cup {"none", "orphan"}]
    /\ invoice' \in [EventIds -> {"none", "pending", "completed"}]
    /\ server' \in [EventIds -> {"none", "enabled", "disabled"}]
    /\ UNCHANGED <<pushes, hostVars, paid>>

\* The run after Goto and Return.
Moved(r, pc, result) == [run[r] EXCEPT !.pc = pc, !.result = result]

LEMMA MovedTyped ==
    ASSUME DeliveryTypeOK, NEW r \in Runs, run[r].pc # "idle",
           NEW pc \in States, NEW result \in Results \cup {"none"}
    PROVE  /\ Moved(r, pc, result) \in RunRecords
           /\ Moved(r, pc, result).pc = pc /\ Moved(r, pc, result).result = result
           /\ Moved(r, pc, result).wake = run[r].wake
           /\ Return(r, pc, result) => run' = [run EXCEPT ![r] = Moved(r, pc, result)]
           /\ Goto(r, pc) => run' = [run EXCEPT ![r] = Moved(r, pc, run[r].result)]
           /\ run[r].wake \in Wakes /\ EventOf(r) \in EventIds
           /\ run[r].wake.settlement \in BOOLEAN
           /\ run[r].result \in Results \cup {"none"}
<1>1. run[r] \in RunRecords
  BY RunTyped
<1>2. run[r].wake \in Wakes
  BY <1>1 DEF RunRecords
<1>3. /\ Moved(r, pc, result) \in RunRecords
      /\ Moved(r, pc, result).pc = pc /\ Moved(r, pc, result).result = result
      /\ Moved(r, pc, result).wake = run[r].wake
      /\ run[r].result \in Results \cup {"none"}
  BY <1>1 DEF RunRecords, Moved
<1>4. Return(r, pc, result) => run' = [run EXCEPT ![r] = Moved(r, pc, result)]
  BY <1>1, <1>3 DEF Return, Moved, DeliveryTypeOK
<1>5. Goto(r, pc) => run' = [run EXCEPT ![r] = Moved(r, pc, run[r].result)]
  <2>1. [run[r] EXCEPT !.pc = pc] = Moved(r, pc, run[r].result)
    BY <1>1 DEF RunRecords, Moved
  <2> QED BY <2>1 DEF Goto, DeliveryTypeOK
<1> QED BY <1>2, <1>3, <1>4, <1>5, WakeTyped DEF EventOf

\* Who is not at work holds no claim.
LEMMA ClaimsOfRun ==
    ASSUME DeliveryInv, NEW r \in Runs
    PROVE  /\ \A e \in EventIds : lease[e] = r => run[r].pc = "work" /\ EventOf(r) = e
           /\ \A e \in EventIds : lease[e] \in Runs \cup {"none", "orphan"}
BY DEF DeliveryInv, LeaseInv, DeliveryTypeOK

LEMMA ProcessedIsSafe ==
    ASSUME DeliveryInv, NEW r \in Runs, r = "ext", run[r].pc # "idle",
           ~run[r].wake.settlement, run[r].result = "processed"
    PROVE  Safe(EventOf(r))
<1>1. run[r].wake \in Wakes
  BY RunTyped DEF DeliveryInv, RunRecords
<1>2. run[r].wake = Wake(EventOf(r), FALSE) /\ EventOf(r) \in EventIds
  BY <1>1, WakeTyped DEF EventOf
<1> QED BY <1>2 DEF DeliveryInv, ProcessedInv

\* A step that changes neither claims nor events.
LEMMA QuietRunStep ==
    ASSUME DeliveryInv, NEW r \in Runs, NEW pc \in States, NEW result \in Results \cup {"none"},
           run[r].pc \notin {"idle", "work", "result", "finish", "waiting"},
           run' = [run EXCEPT ![r] = Moved(r, pc, result)],
           pc \notin {"finish", "waiting", "work"},
           pc \in Ended => result # "none",
           pc = "claim" => ~run[r].wake.settlement,
           pc = "settle" => run[r].wake.settlement,
           \/ result = run[r].result \/ result \notin {"completed", "processed"}
           \/ run[r].wake.settlement,
           event' = event, lease' = lease,
           invoice' \in [EventIds -> {"none", "pending", "completed"}],
           server' \in [EventIds -> {"none", "enabled", "disabled"}],
           UNCHANGED <<pushes, hostVars, paid>>
    PROVE  /\ Moved(r, pc, result) \in RunRecords
           /\ RunStep(r, Moved(r, pc, result))
<1> DEFINE rec == Moved(r, pc, result)
<1>1. DeliveryTypeOK /\ run[r].pc # "idle"
  BY DEF DeliveryInv
<1>2. /\ rec \in RunRecords /\ rec.pc = pc /\ rec.result = result
      /\ rec.wake = run[r].wake /\ EventOf(r) \in EventIds
  <2>1. r \in Runs /\ pc \in States /\ result \in Results \cup {"none"}
    OBVIOUS
  <2> QED BY ONLY <1>1, <2>1, MovedTyped
<1>3. /\ ~run[r].wake.settlement /\ run[r].result = "completed" =>
            event[EventOf(r)] = "terminal"
      /\ r = "ext" /\ ~run[r].wake.settlement /\ run[r].result = "processed" =>
            Safe(EventOf(r))
  BY <1>1, ProcessedIsSafe DEF DeliveryInv, ResultsInv
<1>4. \A e \in EventIds : lease[e] # r
  BY ClaimsOfRun
<1>5. rec.wake.event = EventOf(r)
  BY <1>2 DEF EventOf
<1> HIDE DEF rec
<1>6. /\ ~rec.wake.settlement /\ rec.result = "completed" =>
            event'[rec.wake.event] = "terminal"
      /\ r = "ext" /\ ~rec.wake.settlement /\ rec.result = "processed" =>
            Safe(rec.wake.event)
  <2> HIDE DEF Safe
  <2> QED BY <1>2, <1>3, <1>5
<1>7. /\ event' \in [EventIds -> {"open", "terminal"}]
      /\ lease' \in [EventIds -> Runs \cup {"none", "orphan"}]
  BY <1>1 DEF DeliveryTypeOK
<1>8. run' = [run EXCEPT ![r] = rec]
  BY DEF rec
<1>9. RunStep(r, rec)
  BY <1>2, <1>4, <1>6, <1>7, <1>8 DEF RunStep
<1> QED BY <1>2, <1>9 DEF rec

LEMMA InvoiceMonitorStep ==
    ASSUME DeliveryInv, NEW r \in Runs, InvoiceMonitor(r)
    PROVE  \E rec \in RunRecords : RunStep(r, rec)
<1>1. DeliveryTypeOK /\ run[r].pc = "monitor"
  BY DEF DeliveryInv, InvoiceMonitor, At
<1>2. UNCHANGED <<pushes, hostVars, ledgerVars, paid, server>>
  BY DEF InvoiceMonitor
<1>3. PICK pc \in {"result", "node"}, result \in Results \cup {"none"} :
        /\ run' = [run EXCEPT ![r] = Moved(r, pc, result)]
        /\ pc = "result" => result \in {"queued", "rejected"}
        /\ pc = "node" => result = run[r].result
  <2>1. "result" \in States /\ "node" \in States /\ {"queued", "rejected"} \subseteq Results
    BY DEF States, Results
  <2>2. CASE Return(r, "result", "queued")
    BY <1>1, <2>1, <2>2, MovedTyped
  <2>3. CASE Return(r, "result", "rejected")
    BY <1>1, <2>1, <2>3, MovedTyped
  <2>4. CASE Goto(r, "node")
    BY <1>1, <2>1, <2>4, MovedTyped
  <2> QED BY <2>2, <2>3, <2>4 DEF InvoiceMonitor
<1>4. /\ pc \in States /\ pc \notin {"finish", "waiting", "work", "claim"}
      /\ pc \in Ended => result # "none"
  BY <1>3 DEF States, Ended
<1>5. result = run[r].result \/ result \notin {"completed", "processed"}
  BY <1>3
<1>6. /\ event' = event /\ lease' = lease
      /\ invoice' \in [EventIds -> {"none", "pending", "completed"}]
      /\ server' \in [EventIds -> {"none", "enabled", "disabled"}]
  BY <1>1, <1>2 DEF DeliveryTypeOK, ledgerVars
<1> QED BY <1>1, <1>2, <1>3, <1>4, <1>5, <1>6, QuietRunStep

LEMMA OpenNodeStep ==
    ASSUME DeliveryInv, NEW r \in Runs, OpenNode(r)
    PROVE  \E rec \in RunRecords : RunStep(r, rec)
<1>1. DeliveryTypeOK /\ run[r].pc = "node"
  BY DEF DeliveryInv, OpenNode, At
<1>2. UNCHANGED <<pushes, hostVars, ledgerVars, paid, server>>
  BY DEF OpenNode
<1>3. PICK pc \in {"result", "settle", "claim"}, result \in Results \cup {"none"} :
        /\ run' = [run EXCEPT ![r] = Moved(r, pc, result)]
        /\ pc = "result" => result = "queued"
        /\ pc # "result" => result = run[r].result
        /\ pc = "claim" => ~run[r].wake.settlement
        /\ pc = "settle" => run[r].wake.settlement
  <2>1. {"result", "settle", "claim"} \subseteq States /\ "queued" \in Results
    BY DEF States, Results
  <2>2. CASE Return(r, "result", "queued")
    BY <1>1, <2>1, <2>2, MovedTyped
  <2>3. CASE Goto(r, IF run[r].wake.settlement THEN "settle" ELSE "claim")
    <3>1. CASE run[r].wake.settlement
      BY <1>1, <2>1, <2>3, <3>1, MovedTyped
    <3>2. CASE ~run[r].wake.settlement
      BY <1>1, <2>1, <2>3, <3>2, MovedTyped
    <3> QED BY <3>1, <3>2
  <2> QED BY <2>2, <2>3 DEF OpenNode
<1>4. /\ pc \in States /\ pc \notin {"finish", "waiting", "work"}
      /\ pc \in Ended => result # "none"
  BY <1>3 DEF States, Ended
<1>5. result = run[r].result \/ result \notin {"completed", "processed"}
  BY <1>3
<1>6. /\ event' = event /\ lease' = lease
      /\ invoice' \in [EventIds -> {"none", "pending", "completed"}]
      /\ server' \in [EventIds -> {"none", "enabled", "disabled"}]
  BY <1>1, <1>2 DEF DeliveryTypeOK, ledgerVars
<1> QED BY <1>1, <1>2, <1>3, <1>4, <1>5, <1>6, QuietRunStep

LEMMA RunNotificationsStep ==
    ASSUME DeliveryInv, NEW r \in Runs, RunNotifications(r)
    PROVE  \E rec \in RunRecords : RunStep(r, rec)
<1>1. DeliveryTypeOK /\ run[r].pc = "notify"
  BY DEF DeliveryInv, RunNotifications, At
<1>2. UNCHANGED <<pushes, hostVars, event, lease, paid, server>>
  BY DEF RunNotifications
<1>3. PICK pc \in {"notify", "reload"} : run' = [run EXCEPT ![r] = Moved(r, pc, run[r].result)]
  <2>1. {"notify", "reload"} \subseteq States /\ Results # {}
    BY DEF States, Results
  <2>2. CASE Goto(r, "notify")
    BY <1>1, <2>1, <2>2, MovedTyped
  <2>3. CASE Goto(r, "reload")
    BY <1>1, <2>1, <2>3, MovedTyped
  <2> QED BY <2>2, <2>3 DEF RunNotifications
<1>4. /\ pc \in States /\ pc \notin {"finish", "waiting", "work", "claim"}
      /\ pc \in Ended => run[r].result # "none"
  BY <1>1, <1>3 DEF States, Ended, DeliveryInv, ResultsInv
<1>5. run[r].result \in Results \cup {"none"}
  BY <1>1, <1>4, MovedTyped DEF Results
<1>6. /\ event' = event /\ lease' = lease
      /\ invoice' \in [EventIds -> {"none", "pending", "completed"}]
      /\ server' \in [EventIds -> {"none", "enabled", "disabled"}]
  <2>1. invoice' = Delivered(Payable) \/ invoice' = invoice
    BY DEF RunNotifications
  <2>2. invoice \in [EventIds -> {"none", "pending", "completed"}]
    BY <1>1 DEF DeliveryTypeOK
  <2>3. invoice' \in [EventIds -> {"none", "pending", "completed"}]
    BY <2>1, <2>2 DEF Delivered
  <2> QED BY <1>1, <1>2, <2>3 DEF DeliveryTypeOK
<1> QED BY <1>1, <1>2, <1>3, <1>4, <1>5, <1>6, QuietRunStep

LEMMA HandleSettlementWakeStep ==
    ASSUME DeliveryInv, NEW r \in Runs, HandleSettlementWake(r)
    PROVE  \E rec \in RunRecords : RunStep(r, rec)
<1>1. DeliveryTypeOK /\ run[r].pc = "settle"
  BY DEF DeliveryInv, HandleSettlementWake, At
<1>2. UNCHANGED <<pushes, hostVars, event, lease, paid, server>>
  BY DEF HandleSettlementWake
<1>3. PICK result \in {"retry", "queued", "completed"} :
        run' = [run EXCEPT ![r] = Moved(r, "reload", result)]
  <2>1. "reload" \in States /\ {"retry", "queued", "completed"} \subseteq Results
    BY DEF States, Results
  <2>2. PICK result \in {"retry", "queued", "completed"} : Return(r, "reload", result)
    BY DEF HandleSettlementWake
  <2> QED BY <1>1, <2>1, <2>2, MovedTyped
<1>4. run[r].wake.settlement
  BY <1>1 DEF DeliveryInv, ResultsInv
<1>5. /\ "reload" \in States /\ "reload" \notin {"finish", "waiting", "work", "claim"}
      /\ result # "none" /\ result \in Results \cup {"none"}
  BY <1>3 DEF States, Results
<1>6. /\ event' = event /\ lease' = lease
      /\ invoice' \in [EventIds -> {"none", "pending", "completed"}]
      /\ server' \in [EventIds -> {"none", "enabled", "disabled"}]
  <2>1. invoice' = Delivered(Payable \cap {EventOf(r)}) \/ invoice' = invoice
    BY DEF HandleSettlementWake
  <2>2. invoice \in [EventIds -> {"none", "pending", "completed"}]
    BY <1>1 DEF DeliveryTypeOK
  <2>3. invoice' \in [EventIds -> {"none", "pending", "completed"}]
    BY <2>1, <2>2 DEF Delivered
  <2> QED BY <1>1, <1>2, <2>3 DEF DeliveryTypeOK
<1> QED BY <1>1, <1>2, <1>3, <1>4, <1>5, <1>6, QuietRunStep

LEMMA ReloadMonitorStep ==
    ASSUME DeliveryInv, NEW r \in Runs, ReloadMonitor(r)
    PROVE  \E rec \in RunRecords : RunStep(r, rec)
<1>1. DeliveryTypeOK /\ run[r].pc = "reload" /\ run[r].result # "none"
  BY DEF DeliveryInv, ReloadMonitor, At, ResultsInv, Ended
<1>2. UNCHANGED <<pushes, hostVars, ledgerVars, paid, server>>
  BY DEF ReloadMonitor
<1>3. PICK pc \in {"result", "complete"}, result \in {"queued", "completed", run[r].result} :
        /\ Return(r, pc, result)
        /\ result = run[r].result \/ result = "queued" \/ run[r].wake.settlement
  BY DEF ReloadMonitor
<1>4. /\ pc \in States /\ pc \notin {"finish", "waiting", "work", "claim"}
      /\ result # "none"
  BY <1>1, <1>3 DEF States
<1>5. run[r].result \in Results \cup {"none"}
  BY <1>1, <1>4, MovedTyped DEF Results
<1>6. result \in Results \cup {"none"}
  BY <1>3, <1>5 DEF Results
<1>7. run' = [run EXCEPT ![r] = Moved(r, pc, result)]
  BY <1>1, <1>3, <1>4, <1>6, MovedTyped
<1>8. /\ event' = event /\ lease' = lease
      /\ invoice' \in [EventIds -> {"none", "pending", "completed"}]
      /\ server' \in [EventIds -> {"none", "enabled", "disabled"}]
  BY <1>1, <1>2 DEF DeliveryTypeOK, ledgerVars
<1> QED BY <1>1, <1>2, <1>3, <1>4, <1>6, <1>7, <1>8, QuietRunStep

LEMMA CompletionPostsStep ==
    ASSUME DeliveryInv, NEW r \in Runs, CompletionPosts(r)
    PROVE  \E rec \in RunRecords : RunStep(r, rec)
<1>1. DeliveryTypeOK /\ run[r].pc = "post" /\ run[r].result # "none"
  BY DEF DeliveryInv, CompletionPosts, At, ResultsInv, Ended
<1>2. UNCHANGED <<pushes, hostVars, ledgerVars, paid>> /\ Goto(r, "result")
  BY DEF CompletionPosts
<1>3. "result" \in States /\ "result" \notin {"finish", "waiting", "work", "claim"}
  BY DEF States
<1>4. /\ run[r].result \in Results \cup {"none"}
      /\ run' = [run EXCEPT ![r] = Moved(r, "result", run[r].result)]
  BY <1>1, <1>2, <1>3, MovedTyped DEF Results
<1>5. /\ event' = event /\ lease' = lease
      /\ invoice' \in [EventIds -> {"none", "pending", "completed"}]
      /\ server' \in [EventIds -> {"none", "enabled", "disabled"}]
  <2>1. \/ server' = server
        \/ \E wanted \in {"disabled", "enabled"} :
              server' = [server EXCEPT ![EventOf(r)] = wanted]
    BY DEF CompletionPosts
  <2>2. server \in [EventIds -> {"none", "enabled", "disabled"}]
    BY <1>1 DEF DeliveryTypeOK
  <2>3. server' \in [EventIds -> {"none", "enabled", "disabled"}]
    BY <2>1, <2>2
  <2> QED BY <1>1, <1>2, <2>3 DEF DeliveryTypeOK, ledgerVars
<1> QED BY <1>1, <1>2, <1>3, <1>4, <1>5, QuietRunStep

LEMMA CompletionReadsStep ==
    ASSUME DeliveryInv, NEW r \in Runs, CompletionReads(r)
    PROVE  \E rec \in RunRecords : RunStep(r, rec)
<1>1. DeliveryTypeOK /\ run[r].pc = "complete" /\ run[r].result # "none"
  BY DEF DeliveryInv, CompletionReads, At, ResultsInv, Ended
<1>2. UNCHANGED <<pushes, hostVars, ledgerVars, paid, server>>
  BY DEF CompletionReads
<1>3. {"result", "post"} \subseteq States
  BY DEF States
<1>4. /\ event' = event /\ lease' = lease
      /\ invoice' \in [EventIds -> {"none", "pending", "completed"}]
      /\ server' \in [EventIds -> {"none", "enabled", "disabled"}]
  BY <1>1, <1>2 DEF DeliveryTypeOK, ledgerVars
<1>5. CASE Goto(r, "result")
  <2>1. /\ run[r].result \in Results \cup {"none"}
        /\ run' = [run EXCEPT ![r] = Moved(r, "result", run[r].result)]
    BY <1>1, <1>3, <1>5, MovedTyped DEF Results
  <2> QED BY <1>1, <1>2, <1>3, <1>4, <2>1, QuietRunStep
<1>6. CASE run' = [run EXCEPT ![r].pc = "post", ![r].seen = invoice[EventOf(r)]]
  <2> DEFINE rec == [run[r] EXCEPT !.pc = "post", !.seen = invoice[EventOf(r)]]
  <2>1. run[r] \in RunRecords
    BY <1>1, RunTyped
  <2>2. EventOf(r) \in EventIds
    BY <2>1, WakeTyped DEF RunRecords, EventOf
  <2>3. invoice[EventOf(r)] \in {"none", "pending", "completed"}
    BY <1>1, <2>2 DEF DeliveryTypeOK
  <2>4. /\ rec \in RunRecords /\ rec.pc = "post" /\ rec.result = run[r].result
        /\ rec.wake = run[r].wake
    BY <1>3, <2>1, <2>3 DEF RunRecords
  <2>5. run' = [run EXCEPT ![r] = rec]
    BY <1>1, <1>6 DEF DeliveryTypeOK
  <2> HIDE DEF rec
  <2>6. /\ ~run[r].wake.settlement /\ run[r].result = "completed" =>
              event[EventOf(r)] = "terminal"
        /\ r = "ext" /\ ~run[r].wake.settlement /\ run[r].result = "processed" =>
              Safe(EventOf(r))
    BY <1>1, ProcessedIsSafe DEF DeliveryInv, ResultsInv
  <2>7. \A e \in EventIds : lease[e] # r
    BY <1>1, ClaimsOfRun
  <2>8. /\ event' \in [EventIds -> {"open", "terminal"}]
        /\ lease' \in [EventIds -> Runs \cup {"none", "orphan"}]
    BY <1>1, <1>4 DEF DeliveryTypeOK
  <2>9. RunStep(r, rec)
    BY <1>1, <1>2, <1>4, <2>4, <2>5, <2>6, <2>7, <2>8 DEF RunStep, EventOf
  <2> QED BY <2>4, <2>9
<1> QED BY <1>5, <1>6 DEF CompletionReads

\* A claim held elsewhere, as the extension finds it, is of a safe request.
LEMMA ClaimedIsSafe ==
    ASSUME DeliveryInv, run["ext"].pc = "claim", NEW e \in EventIds, lease[e] # "none"
    PROVE  Safe(e)
<1>1. CASE lease[e] = "orphan"
  BY <1>1 DEF DeliveryInv, LeaseInv, Handing
<1>2. CASE lease[e] \in Runs
  <2>1. run[lease[e]].pc = "work" /\ run[lease[e]].wake.event = e
    BY <1>2 DEF DeliveryInv, LeaseInv, EventOf
  <2>2. lease[e] \in EventIds
    BY <1>2, <2>1 DEF Runs
  <2>3. /\ run[lease[e]].wake.event = lease[e]
        /\ ~run[lease[e]].wake.settlement => Safe(lease[e])
    BY <2>1, <2>2 DEF DeliveryInv, AppInv
  <2>4. ~run[lease[e]].wake.settlement
    BY <1>2, <2>1 DEF DeliveryInv, ResultsInv
  <2> QED BY <2>1, <2>3, <2>4
<1> QED BY <1>1, <1>2 DEF DeliveryInv, DeliveryTypeOK

LEMMA ClaimEventStep ==
    ASSUME DeliveryInv, NEW r \in Runs, ClaimEvent(r)
    PROVE  \E rec \in RunRecords : RunStep(r, rec)
<1> DEFINE e == EventOf(r)
<1>1. DeliveryTypeOK /\ run[r].pc = "claim" /\ ~run[r].wake.settlement
  BY DEF DeliveryInv, ClaimEvent, At, ResultsInv
<1>2. UNCHANGED <<pushes, hostVars, event, invoice, paid, server>>
  BY DEF ClaimEvent
<1>3. /\ {"notify", "work"} \subseteq States /\ "none" \in Results \cup {"none"}
      /\ {"rejected", "completed", "retry", "processed"} \subseteq Results
  BY DEF States, Results
<1>4. /\ run[r].result \in Results \cup {"none"} /\ run[r].wake \in Wakes
      /\ e \in EventIds
  BY <1>1, <1>3, MovedTyped
<1>5. /\ event' \in [EventIds -> {"open", "terminal"}]
      /\ invoice' \in [EventIds -> {"none", "pending", "completed"}]
      /\ server' \in [EventIds -> {"none", "enabled", "disabled"}]
  BY <1>1, <1>2 DEF DeliveryTypeOK
<1>6. \A x \in EventIds : lease[x] # r
  BY <1>1, ClaimsOfRun
<1>7. /\ run[r].result = "completed" => event[e] = "terminal"
      /\ r = "ext" /\ run[r].result = "processed" => Safe(e)
  BY <1>1, ProcessedIsSafe DEF DeliveryInv, ResultsInv
<1>8. ASSUME NEW result \in {"rejected", "completed", "retry", "processed"},
             Return(r, "notify", result), lease' = lease,
             result = "completed" => event[e] = "terminal",
             result = "processed" => lease[e] # "none"
      PROVE  \E rec \in RunRecords : RunStep(r, rec)
  <2> DEFINE rec == Moved(r, "notify", result)
  <2>1. /\ rec \in RunRecords /\ rec.pc = "notify" /\ rec.result = result
        /\ rec.wake = run[r].wake /\ run' = [run EXCEPT ![r] = rec]
    BY <1>1, <1>3, <1>8, MovedTyped
  <2>2. rec.wake.event = e
    BY <2>1 DEF EventOf
  <2>3. r = "ext" /\ result = "processed" => Safe(e)
    BY <1>1, <1>4, <1>8, ClaimedIsSafe
  <2>4. lease' \in [EventIds -> Runs \cup {"none", "orphan"}]
    BY <1>1, <1>8 DEF DeliveryTypeOK
  <2>5. result # "none" /\ "notify" \notin {"claim", "work", "settle", "finish", "waiting"}
    BY <1>8
  <2> HIDE DEF rec, e
  <2>6. RunStep(r, rec)
    BY <1>1, <1>2, <1>5, <1>6, <1>8, <2>1, <2>2, <2>3, <2>4, <2>5 DEF RunStep
  <2> QED BY <2>1, <2>6
<1>9. ASSUME Goto(r, "work"), lease' = [lease EXCEPT ![e] = r]
      PROVE  \E rec \in RunRecords : RunStep(r, rec)
  <2> DEFINE rec == Moved(r, "work", run[r].result)
  <2>1. /\ rec \in RunRecords /\ rec.pc = "work" /\ rec.result = run[r].result
        /\ rec.wake = run[r].wake /\ run' = [run EXCEPT ![r] = rec]
    BY <1>1, <1>3, <1>4, <1>9, MovedTyped
  <2>2. rec.wake.event = e
    BY <2>1 DEF EventOf
  <2>3. lease \in [EventIds -> Runs \cup {"none", "orphan"}]
    BY <1>1 DEF DeliveryTypeOK
  <2>4. lease' \in [EventIds -> Runs \cup {"none", "orphan"}]
    BY <1>9, <2>3
  <2>5. \A x \in EventIds : lease'[x] = lease[x] \/ (x = e /\ lease'[x] = r)
    BY <1>9, <2>3
  <2>6. "work" \notin Ended /\ "work" \notin {"settle", "finish", "waiting"}
    BY DEF Ended
  <2> HIDE DEF rec, e
  <2>7. RunStep(r, rec)
    BY <1>1, <1>2, <1>5, <1>6, <1>7, <2>1, <2>2, <2>4, <2>5, <2>6 DEF RunStep
  <2> QED BY <2>1, <2>7
<1> HIDE DEF e
<1> QED
  <2>1. \/ \E result \in {"rejected", "completed", "retry", "processed"} :
             /\ Return(r, "notify", result) /\ lease' = lease
             /\ result = "completed" => event[e] = "terminal"
             /\ result = "processed" => lease[e] # "none"
        \/ Goto(r, "work") /\ lease' = [lease EXCEPT ![e] = r]
    BY DEF ClaimEvent, e
  <2> QED BY <1>8, <1>9, <2>1

LEMMA RecordInvoiceStep ==
    ASSUME DeliveryInv, NEW r \in Runs, RecordInvoice(r)
    PROVE  \E rec \in RunRecords : RunStep(r, rec)
<1> DEFINE rec == run[r]
<1>1. DeliveryTypeOK /\ run[r].pc = "work"
  BY DEF DeliveryInv, RecordInvoice, At
<1>2. rec \in RunRecords
  BY <1>1, RunTyped
<1>3. UNCHANGED <<pushes, run, hostVars, event, lease, paid, server>>
  BY DEF RecordInvoice
<1>4. run' = [run EXCEPT ![r] = rec]
  BY <1>1, <1>3 DEF DeliveryTypeOK
<1>5. /\ invoice' \in [EventIds -> {"none", "pending", "completed"}]
      /\ lease' \in [EventIds -> Runs \cup {"none", "orphan"}]
      /\ event' \in [EventIds -> {"open", "terminal"}]
      /\ server' \in [EventIds -> {"none", "enabled", "disabled"}]
  <2>1. invoice \in [EventIds -> {"none", "pending", "completed"}]
    BY <1>1 DEF DeliveryTypeOK
  <2>2. invoice' \in [EventIds -> {"none", "pending", "completed"}]
    BY <2>1 DEF RecordInvoice
  <2> QED BY <1>1, <1>3, <2>2 DEF DeliveryTypeOK
<1>6. /\ ~run[r].wake.settlement
      /\ run[r].result = "completed" => event[EventOf(r)] = "terminal"
      /\ r = "ext" /\ run[r].result = "processed" => Safe(EventOf(r))
  BY <1>1, ProcessedIsSafe DEF DeliveryInv, ResultsInv
<1>7. "work" \notin Ended
  BY DEF Ended
<1>8. RunStep(r, rec)
  BY <1>1, <1>3, <1>4, <1>5, <1>6, <1>7 DEF RunStep, EventOf
<1> QED BY <1>2, <1>8

LEMMA AnswerStep ==
    ASSUME DeliveryInv, NEW r \in Runs, Answer(r)
    PROVE  \E rec \in RunRecords : RunStep(r, rec)
<1> DEFINE e == EventOf(r)
<1>1. DeliveryTypeOK /\ run[r].pc = "work" /\ ~run[r].wake.settlement
  BY DEF DeliveryInv, Answer, At, ResultsInv
<1>2. UNCHANGED <<pushes, hostVars, invoice, paid, server>>
  BY DEF Answer
<1>3. PICK result \in {"completed", "retry", "queued"} :
        /\ Return(r, "notify", result)
        /\ result = "completed" => event' = [event EXCEPT ![e] = "terminal"]
        /\ result # "completed" => event' = event
  BY DEF Answer
<1> DEFINE rec == Moved(r, "notify", result)
<1>4. "notify" \in States /\ result \in Results \cup {"none"} /\ result # "none"
  BY <1>3 DEF States, Results
<1>5. /\ rec \in RunRecords /\ rec.pc = "notify" /\ rec.result = result
      /\ rec.wake = run[r].wake /\ run' = [run EXCEPT ![r] = rec] /\ e \in EventIds
  BY <1>1, <1>3, <1>4, MovedTyped
<1>6. rec.wake.event = e
  BY <1>5 DEF EventOf
<1>7. /\ event' \in [EventIds -> {"open", "terminal"}]
      /\ \A x \in EventIds : event[x] = "terminal" => event'[x] = "terminal"
      /\ result = "completed" => event'[e] = "terminal"
  <2>1. event \in [EventIds -> {"open", "terminal"}]
    BY <1>1 DEF DeliveryTypeOK
  <2> HIDE DEF e
  <2> QED BY <1>3, <1>5, <2>1
<1>8. /\ lease' \in [EventIds -> Runs \cup {"none", "orphan"}]
      /\ \A x \in EventIds : lease'[x] = "none" \/ (lease'[x] = lease[x] /\ lease[x] # r)
  <2>1. lease \in [EventIds -> Runs \cup {"none", "orphan"}]
    BY <1>1 DEF DeliveryTypeOK
  <2>2. lease' = [lease EXCEPT ![e] = "none"]
    BY DEF Answer
  <2>3. \A x \in EventIds : lease[x] = r => x = e
    BY ClaimsOfRun
  <2> HIDE DEF e
  <2> QED BY <2>1, <2>2, <2>3
<1>9. /\ invoice' \in [EventIds -> {"none", "pending", "completed"}]
      /\ server' \in [EventIds -> {"none", "enabled", "disabled"}]
  BY <1>1, <1>2 DEF DeliveryTypeOK
<1> HIDE DEF rec, e
<1>10. RunStep(r, rec)
  BY <1>1, <1>2, <1>3, <1>4, <1>5, <1>6, <1>7, <1>8, <1>9 DEF RunStep
<1> QED BY <1>5, <1>10

LEMMA DeadlineStep ==
    ASSUME DeliveryInv, NEW r \in Runs, Deadline(r)
    PROVE  \E rec \in RunRecords : RunStep(r, rec)
<1> DEFINE rec == Moved(r, "result", "queued")
<1>1. DeliveryTypeOK /\ run[r].pc \notin {"idle", "result", "finish", "waiting"}
  BY DEF DeliveryInv, Deadline
<1>2. UNCHANGED <<pushes, hostVars, event, invoice, paid, server>>
  BY DEF Deadline
<1>3. "result" \in States /\ "queued" \in Results \cup {"none"}
  BY DEF States, Results
<1>4. /\ rec \in RunRecords /\ rec.pc = "result" /\ rec.result = "queued"
      /\ rec.wake = run[r].wake /\ run' = [run EXCEPT ![r] = rec]
  BY <1>1, <1>3, MovedTyped DEF Deadline
<1>5. /\ lease' \in [EventIds -> Runs \cup {"none", "orphan"}]
      /\ \A x \in EventIds : \/ lease'[x] = lease[x] /\ lease[x] # r
                             \/ lease[x] = r /\ lease'[x] = "orphan"
  <2>1. lease \in [EventIds -> Runs \cup {"none", "orphan"}]
    BY <1>1 DEF DeliveryTypeOK
  <2>2. lease' = [x \in EventIds |-> IF lease[x] \in {r} THEN "orphan" ELSE lease[x]]
    BY DEF Deadline, Orphaned
  <2> QED BY <2>1, <2>2
<1>6. /\ event' \in [EventIds -> {"open", "terminal"}]
      /\ invoice' \in [EventIds -> {"none", "pending", "completed"}]
      /\ server' \in [EventIds -> {"none", "enabled", "disabled"}]
  BY <1>1, <1>2 DEF DeliveryTypeOK
<1> HIDE DEF rec
<1>7. RunStep(r, rec)
  BY <1>1, <1>2, <1>4, <1>5, <1>6 DEF RunStep
<1> QED BY <1>4, <1>7

\* Every step of handle_wake, and its deadline, keeps the invariant.
LEMMA RunStepHolds ==
    ASSUME DeliveryInv, NEW r \in Runs, NEW rec \in RunRecords, RunStep(r, rec)
    PROVE  DeliveryInv'
<1>1. /\ run' = [run EXCEPT ![r] = rec] /\ run[r].pc \notin {"idle", "result", "finish", "waiting"}
      /\ UNCHANGED <<pushes, hostVars, paid>>
      /\ rec.wake = run[r].wake /\ rec.pc \notin {"idle", "finish", "waiting"}
  BY DEF RunStep, RunRecords, States
<1>2. UNCHANGED <<nse, inbox, notices, app, in_flight, retry_attempts, closed>>
  BY <1>1 DEF hostVars
<1>3. /\ run'[r] = rec
      /\ \A q \in Runs : q # r => run'[q] = run[q]
  BY <1>1 DEF DeliveryInv, DeliveryTypeOK
<1>4. Keeps
  <2>1. \A e \in EventIds : event[e] = "terminal" => event'[e] = "terminal"
    BY DEF RunStep
  <2> QED BY <1>2, <2>1, QuietKeeps
<1>5. DeliveryTypeOK'
  <2>1. run' \in [Runs -> {NoRun} \cup RunRecords]
    BY <1>1 DEF DeliveryInv, DeliveryTypeOK, RunRecords
  <2>2. /\ event' \in [EventIds -> {"open", "terminal"}]
        /\ lease' \in [EventIds -> Runs \cup {"none", "orphan"}]
        /\ invoice' \in [EventIds -> {"none", "pending", "completed"}]
        /\ server' \in [EventIds -> {"none", "enabled", "disabled"}]
    BY DEF RunStep
  <2> QED BY <1>1, <1>2, <2>1, <2>2 DEF DeliveryInv, DeliveryTypeOK, RunRecords
<1>6. InboxOnce' /\ NotificationInv'
  BY <1>2 DEF DeliveryInv, InboxOnce, Entries, NotificationInv
<1>7. ExtInv'
  BY <1>1, <1>2, <1>3, NamesDiffer DEF DeliveryInv, ExtInv
<1>8. AppInv'
  <2>1. SUFFICES ASSUME NEW e \in EventIds, run'[e].pc # "idle"
                 PROVE  /\ e \in in_flight' /\ run'[e].wake.event = e
                        /\ ~run'[e].wake.settlement => Safe(e)'
    BY DEF AppInv
  <2>2. run[e].pc # "idle" /\ run'[e].wake = run[e].wake
    BY <1>1, <1>3, <2>1, NamesDiffer
  <2>3. /\ e \in in_flight /\ run[e].wake.event = e
        /\ ~run[e].wake.settlement => Safe(e)
    BY <2>2 DEF DeliveryInv, AppInv
  <2> QED BY <1>2, <1>4, <2>2, <2>3 DEF Keeps
<1>9. ResultsInv'
  <2>1. SUFFICES ASSUME NEW q \in Runs, run'[q].pc # "idle"
                 PROVE  /\ run'[q].pc \in Ended => run'[q].result # "none"
                        /\ run'[q].pc \in {"claim", "work"} => ~run'[q].wake.settlement
                        /\ run'[q].pc = "settle" => run'[q].wake.settlement
                        /\ ~run'[q].wake.settlement /\ run'[q].result = "completed" =>
                              event'[run'[q].wake.event] = "terminal"
    BY DEF ResultsInv, EventOf, Ended
  <2>2. run'[q].wake.event \in EventIds
    <3>1. run'[q] \in {NoRun} \cup RunRecords
      BY <1>5 DEF DeliveryTypeOK, RunRecords
    <3>2. run'[q] # NoRun
      BY <2>1 DEF NoRun
    <3>3. run'[q].wake \in Wakes
      BY <3>1, <3>2 DEF RunRecords
    <3> QED BY <3>3, WakeTyped
  <2>3. CASE q = r
    <3>1. /\ rec.pc \in Ended => rec.result # "none"
          /\ rec.pc \in {"claim", "work"} => ~rec.wake.settlement
          /\ rec.pc = "settle" => rec.wake.settlement
          /\ ~rec.wake.settlement /\ rec.result = "completed" =>
                event'[rec.wake.event] = "terminal"
      BY DEF RunStep
    <3>2. run'[q] = rec
      BY <1>3, <2>3
    <3> QED BY <3>1, <3>2
  <2>4. CASE q # r
    <3>1. run'[q] = run[q]
      BY <1>3, <2>4
    <3>2. /\ run[q].pc \in Ended => run[q].result # "none"
          /\ run[q].pc \in {"claim", "work"} => ~run[q].wake.settlement
          /\ run[q].pc = "settle" => run[q].wake.settlement
          /\ ~run[q].wake.settlement /\ run[q].result = "completed" =>
                event[run[q].wake.event] = "terminal"
      BY <2>1, <3>1 DEF DeliveryInv, ResultsInv, EventOf
    <3>3. event[run[q].wake.event] = "terminal" => event'[run[q].wake.event] = "terminal"
      BY <2>2, <3>1 DEF RunStep
    <3> QED BY <3>1, <3>2, <3>3
  <2> QED BY <2>3, <2>4
<1>10. LeaseInv'
  <2>1. SUFFICES ASSUME NEW e \in EventIds
                 PROVE  /\ lease'[e] \in Runs => /\ run'[lease'[e]].pc = "work"
                                                 /\ run'[lease'[e]].wake.event = e
                        /\ lease'[e] = "orphan" =>
                              \/ Safe(e)'
                              \/ /\ run'["ext"].pc = "result" /\ run'["ext"].result = "queued"
                                 /\ run'["ext"].wake = Wake(e, FALSE)
    BY DEF LeaseInv, EventOf, Wake, Handing
  <2>2. /\ lease[e] \in Runs => run[lease[e]].pc = "work" /\ run[lease[e]].wake.event = e
        /\ lease[e] = "orphan" =>
              \/ Safe(e)
              \/ /\ run["ext"].pc = "result" /\ run["ext"].result = "queued"
                 /\ run["ext"].wake = Wake(e, FALSE)
    BY DEF DeliveryInv, LeaseInv, EventOf, Handing
  <2>3. \/ lease'[e] = lease[e] /\ (lease[e] = r => rec.pc = "work")
        \/ lease'[e] = "none"
        \/ lease'[e] = r /\ rec.wake.event = e /\ rec.pc = "work"
        \/ lease[e] = r /\ lease'[e] = "orphan" /\ rec.pc = "result" /\ rec.result = "queued"
    BY DEF RunStep
  <2>4. CASE lease'[e] = lease[e] /\ (lease[e] = r => rec.pc = "work")
    <3>1. lease'[e] \in Runs => run'[lease'[e]].pc = "work" /\ run'[lease'[e]].wake.event = e
      BY <1>1, <1>3, <2>2, <2>4
    <3>2. ASSUME lease'[e] = "orphan", ~Safe(e)
          PROVE  run'["ext"] = run["ext"]
      BY <1>1, <1>3, <2>2, <2>4, <3>2, NamesDiffer
    <3> QED BY <1>4, <2>2, <2>4, <3>1, <3>2 DEF Keeps
  <2>5. CASE lease'[e] = "none"
    BY <2>5, NamesDiffer
  <2>6. CASE lease'[e] = r /\ rec.wake.event = e /\ rec.pc = "work"
    BY <1>3, <2>6, NamesDiffer
  <2>7. CASE lease[e] = r /\ lease'[e] = "orphan" /\ rec.pc = "result" /\ rec.result = "queued"
    <3>1. run[r].pc = "work" /\ run[r].wake.event = e
      BY <2>2, <2>7
    <3>2. ~run[r].wake.settlement
      BY <3>1 DEF DeliveryInv, ResultsInv
    <3>3. run[r].wake = Wake(e, FALSE)
      <4>1. run[r].wake \in Wakes
        BY <3>1, RunTyped DEF DeliveryInv, RunRecords
      <4>2. run[r].wake.settlement = FALSE
        BY <3>2, <4>1, WakeTyped
      <4> QED BY <3>1, <4>1, <4>2, WakeTyped
    <3>4. CASE r = "ext"
      BY <1>1, <1>3, <2>7, <3>3, <3>4, NamesDiffer
    <3>5. CASE r # "ext"
      <4>1. r \in EventIds
        BY <3>5 DEF Runs
      <4>2. r = e /\ Safe(e)
        BY <3>1, <3>2, <4>1 DEF DeliveryInv, AppInv
      <4> QED BY <1>4, <2>7, <4>2, NamesDiffer DEF Keeps
    <3> QED BY <3>4, <3>5
  <2> QED BY <2>3, <2>4, <2>5, <2>6, <2>7
<1>11. HandedInv'
  <2>1. SUFFICES ASSUME NEW e \in EventIds, nse # NoNotification, nse.started,
                        nse.wake = Wake(e, FALSE), run'["ext"].pc \in {"idle", "finish"}
                 PROVE  Safe(e)'
    BY <1>2 DEF HandedInv, Wake
  <2>2. run["ext"].pc \in {"idle", "finish"}
    BY <1>1, <1>3, <2>1, NamesDiffer
  <2>3. Safe(e)
    BY <2>1, <2>2 DEF DeliveryInv, HandedInv
  <2> QED BY <1>4, <2>3 DEF Keeps
<1>12. PushedInv'
  BY <1>1, <1>2, <1>4 DEF DeliveryInv, PushedInv, Keeps, Wake
<1>13. ProcessedInv'
  <2>1. SUFFICES ASSUME NEW e \in EventIds, run'["ext"].pc # "idle",
                        run'["ext"].result = "processed", run'["ext"].wake = Wake(e, FALSE)
                 PROVE  Safe(e)'
    BY DEF ProcessedInv, Wake
  <2>2. CASE r = "ext"
    <3>1. rec.result = "processed" /\ ~rec.wake.settlement /\ rec.wake.event = e
      BY <1>3, <2>1, <2>2 DEF Wake
    <3>2. Safe(e)
      BY <2>2, <3>1 DEF RunStep
    <3> QED BY <1>4, <3>2 DEF Keeps
  <2>3. CASE r # "ext"
    <3>1. Safe(e)
      BY <1>3, <2>1, <2>3, NamesDiffer DEF DeliveryInv, ProcessedInv
    <3> QED BY <1>4, <3>1 DEF Keeps
  <2> QED BY <2>2, <2>3
<1> QED BY <1>5, <1>6, <1>7, <1>8, <1>9, <1>10, <1>11, <1>12, <1>13 DEF DeliveryInv

LEMMA HandleWakeHolds ==
    ASSUME DeliveryInv, NEW r \in Runs, HandleWake(r) \/ Deadline(r)
    PROVE  DeliveryInv'
<1>1. \E rec \in RunRecords : RunStep(r, rec)
  BY InvoiceMonitorStep, OpenNodeStep, ClaimEventStep, RecordInvoiceStep, AnswerStep,
     RunNotificationsStep, HandleSettlementWakeStep, ReloadMonitorStep,
     CompletionReadsStep, CompletionPostsStep, DeadlineStep DEF HandleWake
<1> QED BY <1>1, RunStepHolds
-----------------------------------------------------------------------------
(* What the other actions have in common. *)

\* The run of r goes on as it was, but for its cancellation and its disposition.
Continues(r) ==
    /\ run[r].pc # "idle" /\ run'[r].wake = run[r].wake
    /\ run'[r].result = run[r].result \/ run'[r].result = "queued"
    /\ \/ run'[r].pc = run[r].pc
       \/ run[r].pc = "result" /\ run'[r].pc \in {"finish", "waiting"}

\* r starts on a wake: the extension on any, a task on the inbox's.
Begins(r) ==
    \E wake \in Wakes : run'[r] = Begin(wake) /\ (r \in EventIds => wake \in InInbox(r))

\* Tasks that go on or start keep what the invariant says of runs.
LEMMA RunsKept ==
    ASSUME DeliveryInv, Keeps, event' = event,
           \A r \in Runs : run'[r].pc # "idle" => Continues(r) \/ Begins(r),
           \A e \in EventIds : run'[e].pc # "idle" => e \in in_flight'
    PROVE  AppInv' /\ ResultsInv' /\ ProcessedInv'
<1>1. ASSUME NEW r \in Runs, Begins(r)
      PROVE  /\ run'[r].pc = "monitor" /\ run'[r].result = "none"
             /\ r \in EventIds => /\ run'[r].wake.event = r
                                  /\ ~run'[r].wake.settlement => Safe(r)
  <2>1. PICK wake \in Wakes :
          run'[r] = Begin(wake) /\ (r \in EventIds => wake \in InInbox(r))
    BY <1>1 DEF Begins
  <2>2. run'[r].pc = "monitor" /\ run'[r].result = "none" /\ run'[r].wake = wake
    BY <2>1 DEF Begin
  <2>3. ASSUME r \in EventIds
        PROVE  wake.event = r /\ (~wake.settlement => Safe(r))
    <3>1. wake \in InInbox(r) /\ wake.event = r
      BY <2>1, <2>3 DEF InInbox
    <3>2. ASSUME ~wake.settlement PROVE wake = Wake(r, FALSE)
      BY <3>1, <3>2, WakeTyped
    <3> QED BY <3>1, <3>2 DEF Safe
  <2> QED BY <2>2, <2>3
<1>2. AppInv'
  <2>1. SUFFICES ASSUME NEW e \in EventIds, run'[e].pc # "idle"
                 PROVE  /\ e \in in_flight' /\ run'[e].wake.event = e
                        /\ ~run'[e].wake.settlement => Safe(e)'
    BY DEF AppInv
  <2>2. e \in Runs /\ e \in in_flight'
    BY <2>1, NamesDiffer
  <2>3. run'[e].wake.event = e /\ (~run'[e].wake.settlement => Safe(e))
    <3>1. CASE Continues(e)
      BY <3>1 DEF DeliveryInv, AppInv, Continues
    <3>2. CASE Begins(e)
      BY <1>1, <2>2, <3>2
    <3> QED BY <2>1, <2>2, <3>1, <3>2
  <2> QED BY <2>2, <2>3 DEF Keeps
<1>3. ResultsInv'
  <2>1. SUFFICES ASSUME NEW r \in Runs, run'[r].pc # "idle"
                 PROVE  /\ run'[r].pc \in Ended => run'[r].result # "none"
                        /\ run'[r].pc \in {"claim", "work"} => ~run'[r].wake.settlement
                        /\ run'[r].pc = "settle" => run'[r].wake.settlement
                        /\ ~run'[r].wake.settlement /\ run'[r].result = "completed" =>
                              event'[run'[r].wake.event] = "terminal"
    BY DEF ResultsInv, EventOf, Ended
  <2>2. CASE Continues(r)
    BY <2>2 DEF DeliveryInv, ResultsInv, Continues, EventOf, Ended
  <2>3. CASE Begins(r)
    BY <1>1, <2>3 DEF Ended
  <2> QED BY <2>1, <2>2, <2>3
<1>4. ProcessedInv'
  <2>1. SUFFICES ASSUME NEW e \in EventIds, run'["ext"].pc # "idle",
                        run'["ext"].result = "processed", run'["ext"].wake = Wake(e, FALSE)
                 PROVE  Safe(e)'
    BY DEF ProcessedInv, Wake
  <2>2. "ext" \in Runs /\ ~Begins("ext")
    BY <1>1, <2>1, NamesDiffer
  <2>3. Continues("ext")
    BY <2>1, <2>2
  <2>4. Safe(e)
    BY <2>1, <2>3 DEF DeliveryInv, ProcessedInv, Continues
  <2> QED BY <2>4 DEF Keeps
<1> QED BY <1>2, <1>3, <1>4

\* Claims stay with whoever works on them, or are left behind by a run whose
\* request is safe.
LEMMA LeasesKept ==
    ASSUME DeliveryInv, Keeps,
           \A e \in EventIds :
              \/ /\ lease'[e] = lease[e]
                 /\ lease[e] \in Runs => /\ run'[lease[e]].pc = run[lease[e]].pc
                                         /\ run'[lease[e]].wake = run[lease[e]].wake
              \/ lease'[e] = "none"
              \/ lease'[e] = "orphan" /\ Safe(e)',
           \A e \in EventIds : Handing(e) => Safe(e)' \/ Handing(e)'
    PROVE  LeaseInv'
<1>1. SUFFICES ASSUME NEW e \in EventIds
               PROVE  /\ lease'[e] \in Runs => /\ run'[lease'[e]].pc = "work"
                                               /\ run'[lease'[e]].wake.event = e
                      /\ lease'[e] = "orphan" => Safe(e)' \/ Handing(e)'
  BY DEF LeaseInv, EventOf
<1>2. /\ lease[e] \in Runs => run[lease[e]].pc = "work" /\ run[lease[e]].wake.event = e
      /\ lease[e] = "orphan" => Safe(e) \/ Handing(e)
  BY DEF DeliveryInv, LeaseInv, EventOf
<1>3. Safe(e) => Safe(e)'
  BY DEF Keeps
<1> QED BY <1>1, <1>2, <1>3, NamesDiffer

\* The extension and its notification are as they were.
LEMMA ExtensionQuiet ==
    ASSUME DeliveryInv, Keeps, pushes' = pushes, nse' = nse, run'["ext"] = run["ext"]
    PROVE  NotificationInv' /\ ExtInv' /\ HandedInv' /\ PushedInv'
<1>1. NotificationInv' /\ ExtInv'
  BY DEF DeliveryInv, NotificationInv, ExtInv
<1>2. HandedInv'
  BY DEF DeliveryInv, HandedInv, Keeps, Wake
<1>3. PushedInv'
  BY DEF DeliveryInv, PushedInv, Keeps, Wake
<1> QED BY <1>1, <1>2, <1>3

\* NwcWakeFileInbox::enqueue loses no request but one it names in closed, and
\* what it is given is safe.
LEMMA EnqueueKeeps ==
    ASSUME DeliveryInv, NEW wake \in Wakes, Enqueue(wake), event' = event,
           notices \ {wake} \subseteq notices'
    PROVE  /\ Keeps /\ InboxOnce'
           /\ inbox' \in Seq(Wakes) /\ Len(inbox') <= MaxPendingRequests
           /\ closed' \in [EventIds ->
                 SUBSET {"replaced", "evicted", "exhausted", "rejected", "owned elsewhere"}]
           /\ \A e \in EventIds : wake = Wake(e, FALSE) => Safe(e)'
<1>1. /\ inbox' = Enqueued(inbox, wake)
      /\ closed' = [e \in EventIds |-> closed[e] \cup Displaced(wake, e)]
  BY DEF Enqueue
<1>2. /\ inbox' \in Seq(Wakes) /\ Len(inbox') <= MaxPendingRequests
      /\ wake \in Entries(inbox')
      /\ Entries(inbox') \subseteq {w \in Entries(inbox) : w.event # wake.event} \cup {wake}
  BY <1>1, EnqueuedKeepsLimit DEF DeliveryInv, DeliveryTypeOK
<1>3. \A e \in EventIds : Displaced(wake, e) \subseteq {"replaced", "evicted"}
  BY DEF Displaced
<1>4. closed' \in [EventIds ->
         SUBSET {"replaced", "evicted", "exhausted", "rejected", "owned elsewhere"}]
  <2>1. closed \in [EventIds ->
           SUBSET {"replaced", "evicted", "exhausted", "rejected", "owned elsewhere"}]
    BY DEF DeliveryInv, DeliveryTypeOK
  <2> QED BY <1>1, <1>3, <2>1
<1>5. InboxOnce'
  <2>1. \A w, v \in Entries(inbox) : w.event = v.event => w = v
    BY DEF DeliveryInv, InboxOnce
  <2>2. \A w, v \in Entries(inbox') : w.event = v.event => w = v
    BY <1>2, <2>1
  <2> QED BY <2>2 DEF InboxOnce, Entries
<1>6. \A e \in EventIds : /\ InInbox(e) = {w \in Entries(inbox) : w.event = e}
                          /\ InInbox(e)' = {w \in Entries(inbox') : w.event = e}
                          /\ Wake(e, FALSE).event = e
  BY DEF InInbox, Entries, Wake
<1>7. \A e \in EventIds : Wake(e, FALSE) \in Entries(inbox') => Safe(e)'
  BY <1>6 DEF Safe, Wake
<1>8. \A e \in EventIds : wake = Wake(e, FALSE) => Safe(e)'
  BY <1>2, <1>7
<1>9. Keeps
  <2>1. SUFFICES ASSUME NEW e \in EventIds, Safe(e) PROVE Safe(e)'
    BY DEF Keeps
  <2>2. ASSUME Wake(e, FALSE) \in InInbox(e)
        PROVE  Safe(e)'
    <3>1. Wake(e, FALSE) \in Entries(inbox)
      BY <1>6, <2>2
    <3>2. CASE e = wake.event /\ wake.settlement
      <4>1. "replaced" \in closed'[e]
        BY <1>1, <2>2, <3>2 DEF Displaced
      <4> QED BY <4>1 DEF Safe
    <3>3. CASE e = wake.event /\ ~wake.settlement
      BY <1>8, <3>3, WakeTyped
    <3>4. CASE /\ e # wake.event
               /\ \E i \in 1 .. Len(Enqueued(inbox, wake)) : Enqueued(inbox, wake)[i].event = e
      <4>1. PICK x \in Entries(inbox') : x.event = e
        BY <1>1, <3>4 DEF Entries
      <4>2. x \in Entries(inbox)
        BY <1>2, <3>4, <4>1
      <4>3. x = Wake(e, FALSE)
        BY <1>6, <3>1, <4>1, <4>2 DEF DeliveryInv, InboxOnce
      <4> QED BY <1>7, <4>1, <4>3
    <3>5. CASE /\ e # wake.event
               /\ ~\E i \in 1 .. Len(Enqueued(inbox, wake)) : Enqueued(inbox, wake)[i].event = e
      <4>1. "evicted" \in closed'[e]
        BY <1>1, <2>2, <3>5 DEF Displaced
      <4> QED BY <4>1 DEF Safe
    <3> QED BY <3>2, <3>3, <3>4, <3>5
  <2>3. ASSUME Wake(e, FALSE) \in notices
        PROVE  Safe(e)'
    <3>1. CASE wake = Wake(e, FALSE)
      BY <1>8, <3>1
    <3>2. CASE wake # Wake(e, FALSE)
      <4>1. Wake(e, FALSE) \in notices'
        BY <2>3, <3>2
      <4> QED BY <4>1 DEF Safe, Wake
    <3> QED BY <3>1, <3>2
  <2>4. closed[e] \subseteq closed'[e]
    BY <1>1
  <2> QED BY <2>1, <2>2, <2>3, <2>4, SafeStays
<1> QED BY <1>2, <1>4, <1>5, <1>8, <1>9
-----------------------------------------------------------------------------
(* The notification extension. *)

LEMMA DidReceiveHolds ==
    ASSUME DeliveryInv, NEW wake \in Wakes, DidReceive(wake)
    PROVE  DeliveryInv'
<1>1. /\ nse = NoNotification /\ run["ext"].pc = "idle" /\ wake.event \in EventIds
      /\ nse' = [state |-> "idle", wake |-> wake, started |-> FALSE, content |-> <<>>]
      /\ UNCHANGED <<run, inbox, notices, app, in_flight, retry_attempts, closed,
                     ledgerVars, paid, server>>
  BY WakeTyped DEF DidReceive, At
<1>2. UNCHANGED <<event, lease, invoice>>
  BY <1>1 DEF ledgerVars
<1>3. Keeps
  BY <1>1, <1>2, QuietKeeps
<1>4. /\ nse' \in Notifications /\ nse' # NoNotification /\ nse'.wake = wake
      /\ nse'.state = "idle" /\ nse'.started = FALSE /\ nse'.content = <<>>
  <2>1. nse' \in Notifications
    BY <1>1 DEF Notifications
  <2> QED BY <1>1, <2>1 DEF NoNotification
<1>5. /\ pushes' \in [EventIds -> Nat]
      /\ \A e \in EventIds : pushes'[e] = pushes[e] \/ wake = Wake(e, FALSE)
  <2>1. pushes \in [EventIds -> Nat]
    BY DEF DeliveryInv, DeliveryTypeOK
  <2>2. CASE wake.settlement
    BY <2>1, <2>2 DEF DidReceive
  <2>3. CASE ~wake.settlement
    <3>1. wake = Wake(wake.event, FALSE)
      BY <2>3, WakeTyped
    <3>2. pushes' = [pushes EXCEPT ![wake.event] = @ + 1]
      BY <2>3 DEF DidReceive
    <3>3. pushes' \in [EventIds -> Nat]
      BY <1>1, <2>1, <3>2
    <3>4. \A e \in EventIds : e # wake.event => pushes'[e] = pushes[e]
      BY <1>1, <2>1, <3>2
    <3>5. \A e \in EventIds : e = wake.event => wake = Wake(e, FALSE)
      BY <3>1
    <3> QED BY <3>3, <3>4, <3>5
  <2> QED BY <2>2, <2>3
<1>6. DeliveryTypeOK'
  BY <1>1, <1>2, <1>4, <1>5 DEF DeliveryInv, DeliveryTypeOK, Notifications
<1>7. InboxOnce'
  BY <1>1 DEF DeliveryInv, InboxOnce, Entries
<1>8. NotificationInv'
  BY <1>4 DEF NotificationInv
<1>9. ExtInv' /\ HandedInv'
  BY <1>1, <1>4 DEF ExtInv, HandedInv
<1>10. AppInv' /\ ResultsInv' /\ ProcessedInv'
  <2>1. \A r \in Runs : run'[r].pc # "idle" => Continues(r)
    BY <1>1 DEF Continues
  <2>2. \A e \in EventIds : run'[e].pc # "idle" => e \in in_flight'
    BY <1>1 DEF DeliveryInv, AppInv
  <2> QED BY <1>2, <1>3, <2>1, <2>2, RunsKept
<1>11. LeaseInv'
  <2>1. \A e \in EventIds : Handing(e) => Handing(e)'
    BY <1>1 DEF Handing, Wake
  <2> QED BY <1>1, <1>2, <1>3, <2>1, LeasesKept
<1>12. PushedInv'
  <2>1. SUFFICES ASSUME NEW e \in EventIds, pushes'[e] > 0, wake # Wake(e, FALSE)
                 PROVE  Safe(e)'
    BY <1>4 DEF PushedInv, Wake
  <2>2. Safe(e)
    BY <1>1, <1>5, <2>1 DEF DeliveryInv, PushedInv
  <2> QED BY <1>3, <2>2 DEF Keeps
<1> QED BY <1>6, <1>7, <1>8, <1>9, <1>10, <1>11, <1>12 DEF DeliveryInv

LEMMA StartHolds ==
    ASSUME DeliveryInv, Start
    PROVE  DeliveryInv'
<1>1. /\ nse # NoNotification /\ ~nse.started
      /\ UNCHANGED <<pushes, inbox, app, in_flight, retry_attempts, closed, ledgerVars,
                     paid, server>>
  BY DEF Start
<1>2. UNCHANGED <<event, lease, invoice>>
  BY <1>1 DEF ledgerVars
<1>3. /\ nse \in Notifications /\ nse.wake \in Wakes
      /\ nse.state \in {"idle", "active", "finished"}
      /\ nse.content \in Seq(Results \cup {"openApplication"})
  BY <1>1, NotificationTyped DEF DeliveryInv, Notifications
<1>4. run["ext"].pc = "idle"
  BY <1>1 DEF DeliveryInv, ExtInv
<1>5. nse.state # "active" /\ Len(nse.content) = 0
  BY <1>1 DEF DeliveryInv, NotificationInv
<1>6. /\ nse' \in Notifications /\ nse' # NoNotification
      /\ nse'.wake = nse.wake /\ nse'.started
      /\ nse.state = "idle" => nse'.state = "active" /\ Len(nse'.content) = 0
      /\ nse.state = "finished" => nse'.state = "finished" /\ Len(nse'.content) = 1
  <2>1. CASE nse.state = "idle"
    <3>1. nse' = [nse EXCEPT !.started = TRUE, !.state = "active"]
      BY <2>1 DEF Start
    <3>2. nse' \in Notifications
      BY <1>3, <3>1 DEF Notifications
    <3>3. nse' # NoNotification
      BY <3>2 DEF Notifications, NoNotification
    <3> QED BY <1>3, <1>5, <2>1, <3>1, <3>2, <3>3 DEF Notifications
  <2>2. CASE nse.state # "idle"
    <3>1. nse' = [nse EXCEPT !.started = TRUE, !.content = Append(@, "openApplication")]
      BY <2>2 DEF Start
    <3>2. /\ Append(nse.content, "openApplication") \in Seq(Results \cup {"openApplication"})
          /\ Len(Append(nse.content, "openApplication")) = 1
      BY <1>3, <1>5
    <3>3. nse' \in Notifications
      BY <1>3, <3>1, <3>2 DEF Notifications
    <3>4. nse' # NoNotification
      BY <3>3 DEF Notifications, NoNotification
    <3> QED BY <1>3, <2>2, <3>1, <3>2, <3>3, <3>4 DEF Notifications
  <2> QED BY <2>1, <2>2
<1>7. /\ notices \subseteq notices' /\ notices' \subseteq Wakes
      /\ nse.state # "idle" => nse.wake \in notices'
  BY <1>3 DEF Start, DeliveryInv, DeliveryTypeOK
<1>8. Keeps
  BY <1>1, <1>2, <1>7, QuietKeeps
<1>9. /\ \A e \in EventIds : run'[e] = run[e]
      /\ run'["ext"] = IF nse.state = "idle" THEN Begin(nse.wake) ELSE run["ext"]
      /\ run' \in [Runs -> {NoRun} \cup RunRecords]
  <2>1. run \in [Runs -> {NoRun} \cup RunRecords]
    BY DEF DeliveryInv, DeliveryTypeOK, RunRecords
  <2>2. Begin(nse.wake) \in RunRecords
    BY <1>3 DEF Begin, RunRecords, States, Results
  <2>3. run' = IF nse.state = "idle" THEN [run EXCEPT !["ext"] = Begin(nse.wake)] ELSE run
    BY DEF Start
  <2> QED BY <2>1, <2>2, <2>3, NamesDiffer
<1>10. DeliveryTypeOK'
  BY <1>1, <1>2, <1>6, <1>7, <1>9 DEF DeliveryInv, DeliveryTypeOK, Notifications, RunRecords
<1>11. InboxOnce'
  BY <1>1 DEF DeliveryInv, InboxOnce, Entries
<1>12. NotificationInv'
  BY <1>3, <1>5, <1>6 DEF NotificationInv
<1>13. Begin(nse.wake).pc = "monitor" /\ Begin(nse.wake).wake = nse.wake
  BY DEF Begin
<1>14. ExtInv'
  BY <1>4, <1>6, <1>9, <1>13 DEF ExtInv
<1>15. AppInv' /\ ResultsInv' /\ ProcessedInv'
  <2>1. \A e \in EventIds : run'[e].pc # "idle" => Continues(e) /\ e \in in_flight'
    BY <1>1, <1>9 DEF Continues, DeliveryInv, AppInv
  <2>2. run'["ext"].pc # "idle" => Begins("ext")
    BY <1>3, <1>4, <1>9, NamesDiffer DEF Begins
  <2>3. \A r \in Runs : r = "ext" \/ r \in EventIds
    BY DEF Runs
  <2> QED BY <1>2, <1>8, <2>1, <2>2, <2>3, RunsKept
<1>16. LeaseInv'
  <2>1. \A e \in EventIds : ~Handing(e)
    BY <1>4 DEF Handing
  <2>2. \A e \in EventIds : lease[e] \in Runs => lease[e] # "ext"
    BY <1>4 DEF DeliveryInv, LeaseInv
  <2>3. \A e \in EventIds : lease[e] \in Runs => run'[lease[e]] = run[lease[e]]
    BY <1>9, <2>2 DEF Runs
  <2> QED BY <1>2, <1>8, <2>1, <2>3, LeasesKept
<1>17. HandedInv'
  <2>1. SUFFICES ASSUME NEW e \in EventIds, nse.wake = Wake(e, FALSE),
                        run'["ext"].pc \in {"idle", "finish"}
                 PROVE  Safe(e)'
    BY <1>6 DEF HandedInv, Wake
  <2>2. Wake(e, FALSE) \in notices'
    BY <1>7, <1>9, <1>13, <2>1
  <2> QED BY <2>2 DEF Safe, Wake
<1>18. PushedInv'
  BY <1>1, <1>6, <1>8 DEF DeliveryInv, PushedInv, Keeps, Wake
<1> QED BY <1>10, <1>11, <1>12, <1>14, <1>15, <1>16, <1>17, <1>18 DEF DeliveryInv

LEMMA TimeWillExpireHolds ==
    ASSUME DeliveryInv, TimeWillExpire
    PROVE  DeliveryInv'
<1>1. /\ nse # NoNotification /\ nse.state # "finished"
      /\ UNCHANGED <<pushes, inbox, notices, app, in_flight, retry_attempts, closed,
                     ledgerVars, paid, server>>
  BY DEF TimeWillExpire
<1>2. UNCHANGED <<event, lease, invoice>>
  BY <1>1 DEF ledgerVars
<1>3. /\ nse \in Notifications /\ nse.wake \in Wakes /\ nse.started \in BOOLEAN
      /\ nse.state \in {"idle", "active", "finished"}
      /\ nse.content \in Seq(Results \cup {"openApplication"})
  BY <1>1, NotificationTyped DEF DeliveryInv, Notifications
<1>4. /\ nse.state = "idle" => ~nse.started
      /\ nse.state = "active" => nse.started
      /\ Len(nse.content) = 0
  BY <1>1 DEF DeliveryInv, NotificationInv
<1>5. Keeps
  BY <1>1, <1>2, QuietKeeps
<1>6. /\ nse' \in Notifications /\ nse' # NoNotification
      /\ nse'.wake = nse.wake /\ nse'.started = nse.started /\ nse'.state = "finished"
      /\ Len(nse'.content) = IF nse.started THEN 1 ELSE 0
  <2>1. CASE nse.state = "idle"
    <3>1. nse' = [nse EXCEPT !.state = "finished"]
      BY <2>1 DEF TimeWillExpire
    <3>2. nse' \in Notifications
      BY <1>3, <3>1 DEF Notifications
    <3>3. nse' # NoNotification
      BY <3>2 DEF Notifications, NoNotification
    <3> QED BY <1>3, <1>4, <2>1, <3>1, <3>2, <3>3 DEF Notifications
  <2>2. CASE nse.state = "active"
    <3>1. nse' = [nse EXCEPT !.state = "finished", !.content = Append(@, "openApplication")]
      BY <2>2 DEF TimeWillExpire
    <3>2. /\ Append(nse.content, "openApplication") \in Seq(Results \cup {"openApplication"})
          /\ Len(Append(nse.content, "openApplication")) = 1
      BY <1>3, <1>4
    <3>3. nse' \in Notifications
      BY <1>3, <3>1, <3>2 DEF Notifications
    <3>4. nse' # NoNotification
      BY <3>3 DEF Notifications, NoNotification
    <3> QED BY <1>3, <1>4, <2>2, <3>1, <3>2, <3>3, <3>4 DEF Notifications
  <2> QED BY <1>1, <1>3, <2>1, <2>2
<1>7. /\ \A e \in EventIds : run'[e] = run[e]
      /\ run'["ext"].pc = run["ext"].pc
      /\ run["ext"].pc # "idle" => /\ run'["ext"].wake = run["ext"].wake
                                   /\ run'["ext"].result = run["ext"].result
      /\ run' \in [Runs -> {NoRun} \cup RunRecords]
  <2>1. run \in [Runs -> {NoRun} \cup RunRecords]
    BY DEF DeliveryInv, DeliveryTypeOK, RunRecords
  <2>2. CASE nse.state = "active"
    <3>1. run' = [run EXCEPT !["ext"] = [run["ext"] EXCEPT !.cancelled = TRUE]]
      BY <2>1, <2>2 DEF TimeWillExpire
    <3>2. run'["ext"] = [run["ext"] EXCEPT !.cancelled = TRUE]
      BY <2>1, <3>1, NamesDiffer
    <3>3. CASE run["ext"] = NoRun
      <4>1. run'["ext"] = NoRun
        BY <3>2, <3>3 DEF NoRun
      <4> QED BY <2>1, <3>1, <3>3, <4>1, NamesDiffer DEF NoRun
    <3>4. CASE run["ext"] \in RunRecords
      <4>1. /\ run'["ext"] \in RunRecords /\ run'["ext"].pc = run["ext"].pc
            /\ run'["ext"].wake = run["ext"].wake /\ run'["ext"].result = run["ext"].result
        BY <3>2, <3>4 DEF RunRecords
      <4> QED BY <2>1, <3>1, <4>1, NamesDiffer
    <3> QED BY <2>1, <3>3, <3>4, NamesDiffer
  <2>3. CASE nse.state # "active"
    BY <2>1, <2>3 DEF TimeWillExpire
  <2> QED BY <2>2, <2>3
<1>8. DeliveryTypeOK'
  BY <1>1, <1>2, <1>6, <1>7 DEF DeliveryInv, DeliveryTypeOK, Notifications, RunRecords
<1>9. InboxOnce'
  BY <1>1 DEF DeliveryInv, InboxOnce, Entries
<1>10. NotificationInv'
  BY <1>3, <1>6 DEF NotificationInv
<1>11. ExtInv'
  BY <1>6, <1>7 DEF DeliveryInv, ExtInv
<1>12. AppInv' /\ ResultsInv' /\ ProcessedInv'
  <2>1. \A e \in EventIds : run'[e].pc # "idle" => Continues(e) /\ e \in in_flight'
    BY <1>1, <1>7 DEF Continues, DeliveryInv, AppInv
  <2>2. run'["ext"].pc # "idle" => Continues("ext")
    BY <1>7 DEF Continues
  <2>3. \A r \in Runs : r = "ext" \/ r \in EventIds
    BY DEF Runs
  <2> QED BY <1>2, <1>5, <2>1, <2>2, <2>3, RunsKept
<1>13. LeaseInv'
  <2>1. \A e \in EventIds : Handing(e) => Handing(e)'
    BY <1>7 DEF Handing, Wake
  <2>2. \A e \in EventIds : lease[e] \in Runs =>
           run'[lease[e]].pc = run[lease[e]].pc /\ run'[lease[e]].wake = run[lease[e]].wake
    BY <1>7 DEF Runs, DeliveryInv, LeaseInv
  <2> QED BY <1>2, <1>5, <2>1, <2>2, LeasesKept
<1>14. HandedInv'
  <2>1. SUFFICES ASSUME NEW e \in EventIds, nse.started, nse.wake = Wake(e, FALSE),
                        run["ext"].pc \in {"idle", "finish"}
                 PROVE  Safe(e)'
    BY <1>6, <1>7 DEF HandedInv, Wake
  <2>2. Safe(e)
    BY <1>1, <2>1 DEF DeliveryInv, HandedInv
  <2> QED BY <1>5, <2>2 DEF Keeps
<1>15. PushedInv'
  BY <1>1, <1>5, <1>6 DEF DeliveryInv, PushedInv, Keeps, Wake
<1> QED BY <1>8, <1>9, <1>10, <1>11, <1>12, <1>13, <1>14, <1>15 DEF DeliveryInv

LEMMA HandOverHolds ==
    ASSUME DeliveryInv, HandOver
    PROVE  DeliveryInv'
<1> DEFINE result == Disposition("ext")
<1>1. /\ run["ext"].pc = "result" /\ Return("ext", "finish", result)
      /\ UNCHANGED <<pushes, nse, notices, app, in_flight, retry_attempts, ledgerVars,
                     paid, server>>
  BY DEF HandOver, At
<1>2. UNCHANGED <<event, lease, invoice>>
  BY <1>1 DEF ledgerVars
<1>3. /\ nse # NoNotification /\ nse.started /\ run["ext"].wake = nse.wake
  BY <1>1 DEF DeliveryInv, ExtInv
<1>4. /\ nse \in Notifications /\ nse.wake \in Wakes /\ nse.wake.event \in EventIds
  BY <1>3, NotificationTyped, WakeTyped DEF DeliveryInv, Notifications
<1>5. result \in Results /\ (result = run["ext"].result \/ result = "queued")
  <2>1. run["ext"] \in RunRecords
    BY <1>1, RunTyped, NamesDiffer DEF DeliveryInv
  <2>2. run["ext"].result # "none"
    BY <1>1, NamesDiffer DEF DeliveryInv, ResultsInv, Ended
  <2> QED BY <2>1, <2>2 DEF RunRecords, Disposition, Results
<1>6. /\ \A e \in EventIds : run'[e] = run[e]
      /\ run'["ext"] \in RunRecords
      /\ run'["ext"].pc = "finish" /\ run'["ext"].wake = run["ext"].wake
      /\ run'["ext"].result = result
      /\ run' \in [Runs -> {NoRun} \cup RunRecords]
  <2>1. run \in [Runs -> {NoRun} \cup RunRecords] /\ "finish" \in States /\ DeliveryTypeOK
    BY DEF DeliveryInv, DeliveryTypeOK, RunRecords, States
  <2> HIDE DEF result
  <2>2. /\ run' = [run EXCEPT !["ext"] = Moved("ext", "finish", result)]
        /\ Moved("ext", "finish", result) \in RunRecords
        /\ Moved("ext", "finish", result).pc = "finish"
        /\ Moved("ext", "finish", result).wake = run["ext"].wake
        /\ Moved("ext", "finish", result).result = result
    BY <1>1, <1>5, <2>1, MovedTyped, NamesDiffer
  <2> QED BY <2>1, <2>2, NamesDiffer
<1>7. /\ Keeps /\ InboxOnce'
      /\ inbox' \in Seq(Wakes) /\ Len(inbox') <= MaxPendingRequests
      /\ closed' \in [EventIds ->
            SUBSET {"replaced", "evicted", "exhausted", "rejected", "owned elsewhere"}]
      /\ \A e \in EventIds : nse.wake = Wake(e, FALSE) => Safe(e)'
  <2>1. CASE result \in {"retry", "queued"}
    <3>1. Enqueue(nse.wake)
      BY <2>1 DEF HandOver
    <3> QED BY <1>1, <1>2, <1>4, <3>1, EnqueueKeeps
  <2>2. CASE result \notin {"retry", "queued"}
    <3>1. /\ inbox' = inbox
          /\ closed' = IF result = "rejected" /\ ~nse.wake.settlement
                         THEN [closed EXCEPT ![nse.wake.event] = @ \cup {"rejected"}]
                         ELSE closed
      BY <2>2 DEF HandOver
    <3>2. closed \in [EventIds ->
             SUBSET {"replaced", "evicted", "exhausted", "rejected", "owned elsewhere"}]
      BY DEF DeliveryInv, DeliveryTypeOK
    <3>3. /\ closed' \in [EventIds ->
               SUBSET {"replaced", "evicted", "exhausted", "rejected", "owned elsewhere"}]
          /\ \A e \in EventIds : closed[e] \subseteq closed'[e]
      BY <1>4, <3>1, <3>2
    <3>4. Keeps
      BY <1>1, <1>2, <3>1, <3>3, QuietKeeps
    <3>5. ASSUME NEW e \in EventIds, nse.wake = Wake(e, FALSE)
          PROVE  Safe(e)'
      <4>1. nse.wake.event = e /\ ~nse.wake.settlement /\ EventOf("ext") = e
        BY <1>3, <3>5 DEF Wake, EventOf
      <4>2. run["ext"].result = result /\ result \in {"completed", "processed", "rejected"}
        BY <1>5, <2>2 DEF Results
      <4>3. CASE result = "rejected"
        <5>1. "rejected" \in closed'[e]
          BY <1>4, <3>1, <3>2, <4>1, <4>3
        <5> QED BY <5>1 DEF Safe
      <4>4. CASE result = "completed"
        <5>1. event[e] = "terminal"
          BY <1>1, <1>3, <4>1, <4>2, <4>4, NamesDiffer DEF DeliveryInv, ResultsInv
        <5> QED BY <1>2, <5>1 DEF Safe
      <4>5. CASE result = "processed"
        <5>1. Safe(e)
          BY <1>1, <1>3, <3>5, <4>2, <4>5 DEF DeliveryInv, ProcessedInv
        <5> QED BY <3>4, <5>1 DEF Keeps
      <4> QED BY <4>2, <4>3, <4>4, <4>5
    <3>6. InboxOnce'
      BY <3>1 DEF DeliveryInv, InboxOnce, Entries
    <3> QED BY <3>1, <3>3, <3>4, <3>5, <3>6 DEF DeliveryInv, DeliveryTypeOK
  <2> QED BY <2>1, <2>2
<1> HIDE DEF result
<1>8. DeliveryTypeOK'
  BY <1>1, <1>2, <1>6, <1>7 DEF DeliveryInv, DeliveryTypeOK, RunRecords
<1>9. NotificationInv'
  BY <1>1 DEF DeliveryInv, NotificationInv
<1>10. ExtInv'
  BY <1>1, <1>3, <1>6 DEF ExtInv
<1>11. AppInv' /\ ResultsInv' /\ ProcessedInv'
  <2>1. \A e \in EventIds : run'[e].pc # "idle" => Continues(e) /\ e \in in_flight'
    BY <1>1, <1>6 DEF Continues, DeliveryInv, AppInv
  <2>2. Continues("ext")
    BY <1>1, <1>5, <1>6 DEF Continues
  <2>3. \A r \in Runs : r = "ext" \/ r \in EventIds
    BY DEF Runs
  <2> QED BY <1>2, <1>7, <2>1, <2>2, <2>3, RunsKept
<1>12. LeaseInv'
  <2>1. \A e \in EventIds : Handing(e) => Safe(e)'
    BY <1>3, <1>7 DEF Handing
  <2>2. \A e \in EventIds : lease[e] \in Runs => run'[lease[e]] = run[lease[e]]
    BY <1>1, <1>6 DEF Runs, DeliveryInv, LeaseInv
  <2> QED BY <1>2, <1>7, <2>1, <2>2, LeasesKept
<1>13. HandedInv'
  BY <1>1, <1>7 DEF HandedInv, Wake
<1>14. PushedInv'
  BY <1>1, <1>7 DEF DeliveryInv, PushedInv, Keeps, Wake
<1> QED BY <1>7, <1>8, <1>9, <1>10, <1>11, <1>12, <1>13, <1>14 DEF DeliveryInv

LEMMA FinishHolds ==
    ASSUME DeliveryInv, Finish
    PROVE  DeliveryInv'
<1>1. /\ run["ext"].pc = "finish" /\ run' = [run EXCEPT !["ext"] = NoRun]
      /\ UNCHANGED <<pushes, inbox, notices, app, in_flight, retry_attempts, closed,
                     ledgerVars, paid, server>>
  BY DEF Finish, At
<1>2. UNCHANGED <<event, lease, invoice>>
  BY <1>1 DEF ledgerVars
<1>3. nse # NoNotification /\ nse.started
  BY <1>1 DEF DeliveryInv, ExtInv
<1>4. /\ nse \in Notifications
      /\ nse.state \in {"idle", "active", "finished"}
      /\ nse.content \in Seq(Results \cup {"openApplication"})
  BY <1>3, NotificationTyped DEF DeliveryInv, Notifications
<1>5. /\ nse.state # "idle"
      /\ Len(nse.content) = IF nse.state = "finished" THEN 1 ELSE 0
  BY <1>3 DEF DeliveryInv, NotificationInv
<1>6. run["ext"].result \in Results
  <2>1. run["ext"] \in RunRecords
    BY <1>1, RunTyped, NamesDiffer DEF DeliveryInv
  <2>2. run["ext"].result # "none"
    BY <1>1, NamesDiffer DEF DeliveryInv, ResultsInv, Ended
  <2> QED BY <2>1, <2>2 DEF RunRecords
<1>7. Keeps
  BY <1>1, <1>2, QuietKeeps
<1>8. /\ nse' \in Notifications /\ nse' # NoNotification
      /\ nse'.wake = nse.wake /\ nse'.started /\ nse'.state = "finished"
      /\ Len(nse'.content) = 1
  <2>1. CASE nse.state = "active"
    <3>1. nse' = [nse EXCEPT !.state = "finished", !.content = Append(@, run["ext"].result)]
      BY <2>1 DEF Finish
    <3>2. /\ Append(nse.content, run["ext"].result) \in Seq(Results \cup {"openApplication"})
          /\ Len(Append(nse.content, run["ext"].result)) = 1
      BY <1>4, <1>5, <1>6, <2>1
    <3>3. nse' \in Notifications
      BY <1>4, <3>1, <3>2 DEF Notifications
    <3>4. nse' # NoNotification
      BY <3>3 DEF Notifications, NoNotification
    <3> QED BY <1>3, <1>4, <3>1, <3>2, <3>3, <3>4 DEF Notifications
  <2>2. CASE nse.state # "active"
    <3>1. nse' = nse
      BY <2>2 DEF Finish
    <3> QED BY <1>3, <1>4, <1>5, <2>2, <3>1
  <2> QED BY <2>1, <2>2
<1>9. /\ \A e \in EventIds : run'[e] = run[e]
      /\ run'["ext"].pc = "idle"
      /\ run' \in [Runs -> {NoRun} \cup RunRecords]
  <2>1. run \in [Runs -> {NoRun} \cup RunRecords] /\ NoRun.pc = "idle"
    BY DEF DeliveryInv, DeliveryTypeOK, RunRecords, NoRun
  <2> QED BY <1>1, <2>1, NamesDiffer
<1>10. DeliveryTypeOK'
  BY <1>1, <1>2, <1>8, <1>9 DEF DeliveryInv, DeliveryTypeOK, Notifications, RunRecords
<1>11. InboxOnce'
  BY <1>1 DEF DeliveryInv, InboxOnce, Entries
<1>12. NotificationInv' /\ ExtInv'
  BY <1>8, <1>9 DEF NotificationInv, ExtInv
<1>13. AppInv' /\ ResultsInv' /\ ProcessedInv'
  <2>1. \A e \in EventIds : run'[e].pc # "idle" => Continues(e) /\ e \in in_flight'
    BY <1>1, <1>9 DEF Continues, DeliveryInv, AppInv
  <2>2. \A r \in Runs : r = "ext" \/ r \in EventIds
    BY DEF Runs
  <2> QED BY <1>2, <1>7, <1>9, <2>1, <2>2, RunsKept
<1>14. LeaseInv'
  <2>1. \A e \in EventIds : ~Handing(e)
    BY <1>1 DEF Handing
  <2>2. \A e \in EventIds : lease[e] \in Runs => run'[lease[e]] = run[lease[e]]
    BY <1>1, <1>9 DEF Runs, DeliveryInv, LeaseInv
  <2> QED BY <1>2, <1>7, <2>1, <2>2, LeasesKept
<1>15. HandedInv'
  <2>1. SUFFICES ASSUME NEW e \in EventIds, nse.wake = Wake(e, FALSE)
                 PROVE  Safe(e)'
    BY <1>8 DEF HandedInv, Wake
  <2>2. Safe(e)
    BY <1>1, <1>3, <2>1 DEF DeliveryInv, HandedInv
  <2> QED BY <1>7, <2>2 DEF Keeps
<1>16. PushedInv'
  BY <1>1, <1>7, <1>8 DEF DeliveryInv, PushedInv, Keeps, Wake
<1> QED BY <1>10, <1>11, <1>12, <1>13, <1>14, <1>15, <1>16 DEF DeliveryInv

LEMMA ShownHolds ==
    ASSUME DeliveryInv, Shown
    PROVE  DeliveryInv'
<1>1. /\ nse # NoNotification /\ nse.started /\ run["ext"].pc = "idle"
      /\ nse' = NoNotification
      /\ UNCHANGED <<pushes, run, inbox, notices, app, in_flight, retry_attempts,
                     closed, ledgerVars, paid, server>>
  BY DEF Shown, At
<1>2. UNCHANGED <<event, lease, invoice>>
  BY <1>1 DEF ledgerVars
<1>3. Keeps
  BY <1>1, <1>2, QuietKeeps
<1>4. DeliveryTypeOK'
  BY <1>1, <1>2 DEF DeliveryInv, DeliveryTypeOK, NoNotification
<1>5. InboxOnce' /\ NotificationInv' /\ ExtInv' /\ HandedInv'
  BY <1>1 DEF DeliveryInv, InboxOnce, Entries, NotificationInv, ExtInv, HandedInv, NoNotification
<1>6. AppInv' /\ ResultsInv' /\ ProcessedInv'
  <2>1. \A r \in Runs : run'[r].pc # "idle" => Continues(r)
    BY <1>1 DEF Continues
  <2>2. \A e \in EventIds : run'[e].pc # "idle" => e \in in_flight'
    BY <1>1 DEF DeliveryInv, AppInv
  <2> QED BY <1>2, <1>3, <2>1, <2>2, RunsKept
<1>7. LeaseInv'
  <2>1. \A e \in EventIds : Handing(e) => Handing(e)'
    BY <1>1 DEF Handing, Wake
  <2> QED BY <1>1, <1>2, <1>3, <2>1, LeasesKept
<1>8. PushedInv'
  <2>1. SUFFICES ASSUME NEW e \in EventIds, pushes[e] > 0 PROVE Safe(e)'
    BY <1>1 DEF PushedInv
  <2>2. Safe(e)
    BY <1>1, <2>1 DEF DeliveryInv, PushedInv, HandedInv
  <2> QED BY <1>3, <2>2 DEF Keeps
<1> QED BY <1>4, <1>5, <1>6, <1>7, <1>8 DEF DeliveryInv

LEMMA KilledHolds ==
    ASSUME DeliveryInv, Killed
    PROVE  DeliveryInv'
<1>1. /\ nse # NoNotification /\ nse' = NoNotification
      /\ notices' = IF nse.started /\ run["ext"].pc \in {"idle", "finish"}
                      THEN notices ELSE notices \cup {nse.wake}
      /\ run' = [run EXCEPT !["ext"] = NoRun] /\ Orphaned({"ext"})
      /\ UNCHANGED <<pushes, inbox, app, in_flight, retry_attempts, closed, event,
                     invoice, paid, server>>
  BY DEF Killed
<1>2. nse.wake \in Wakes
  BY <1>1, NotificationTyped DEF DeliveryInv, Notifications
<1>3. Keeps
  BY <1>1, QuietKeeps
<1>4. /\ \A e \in EventIds : run'[e] = run[e]
      /\ run'["ext"].pc = "idle"
      /\ run' \in [Runs -> {NoRun} \cup RunRecords]
  <2>1. run \in [Runs -> {NoRun} \cup RunRecords] /\ NoRun.pc = "idle"
    BY DEF DeliveryInv, DeliveryTypeOK, RunRecords, NoRun
  <2> QED BY <1>1, <2>1, NamesDiffer
<1>5. /\ lease' \in [EventIds -> Runs \cup {"none", "orphan"}]
      /\ \A e \in EventIds : lease'[e] = IF lease[e] = "ext" THEN "orphan" ELSE lease[e]
  BY <1>1 DEF Orphaned, DeliveryInv, DeliveryTypeOK
<1>6. ASSUME NEW e \in EventIds, nse.wake = Wake(e, FALSE)
      PROVE  Safe(e)'
  <2>1. CASE nse.started /\ run["ext"].pc \in {"idle", "finish"}
    <3>1. Safe(e)
      BY <1>1, <1>6, <2>1 DEF DeliveryInv, HandedInv
    <3> QED BY <1>3, <3>1 DEF Keeps
  <2>2. CASE ~(nse.started /\ run["ext"].pc \in {"idle", "finish"})
    <3>1. Wake(e, FALSE) \in notices'
      BY <1>1, <1>6, <2>2
    <3> QED BY <3>1 DEF Safe, Wake
  <2> QED BY <2>1, <2>2
<1>7. DeliveryTypeOK'
  <2>1. notices' \subseteq Wakes
    BY <1>1, <1>2 DEF DeliveryInv, DeliveryTypeOK
  <2> QED BY <1>1, <1>4, <1>5, <2>1 DEF DeliveryInv, DeliveryTypeOK, NoNotification, RunRecords
<1>8. InboxOnce' /\ NotificationInv' /\ ExtInv' /\ HandedInv'
  BY <1>1, <1>4 DEF DeliveryInv, InboxOnce, Entries, NotificationInv, ExtInv, HandedInv,
     NoNotification
<1>9. AppInv' /\ ResultsInv' /\ ProcessedInv'
  <2>1. \A e \in EventIds : run'[e].pc # "idle" => Continues(e) /\ e \in in_flight'
    BY <1>1, <1>4 DEF Continues, DeliveryInv, AppInv
  <2>2. \A r \in Runs : r = "ext" \/ r \in EventIds
    BY DEF Runs
  <2> QED BY <1>1, <1>3, <1>4, <2>1, <2>2, RunsKept
<1>10. LeaseInv'
  <2>1. \A e \in EventIds : run["ext"].pc # "idle" /\ run["ext"].wake = Wake(e, FALSE) => Safe(e)'
    BY <1>6 DEF DeliveryInv, ExtInv
  <2>2. \A e \in EventIds : Handing(e) => Safe(e)'
    BY <2>1 DEF Handing
  <2>3. ASSUME NEW e \in EventIds, lease[e] = "ext"
        PROVE  Safe(e)'
    <3>1. run["ext"].pc = "work" /\ run["ext"].wake.event = e /\ ~run["ext"].wake.settlement
      BY <2>3, NamesDiffer DEF DeliveryInv, LeaseInv, ResultsInv, EventOf
    <3>2. run["ext"].wake \in Wakes
      BY <3>1, RunTyped, NamesDiffer DEF DeliveryInv, RunRecords
    <3>3. run["ext"].wake = Wake(e, FALSE)
      BY <3>1, <3>2, WakeTyped
    <3> QED BY <2>1, <3>1, <3>3
  <2>4. \A e \in EventIds : lease[e] \in Runs /\ lease[e] # "ext" => run'[lease[e]] = run[lease[e]]
    BY <1>4 DEF Runs
  <2> QED BY <1>3, <1>5, <2>2, <2>3, <2>4, LeasesKept
<1>11. PushedInv'
  <2>1. SUFFICES ASSUME NEW e \in EventIds, pushes[e] > 0 PROVE Safe(e)'
    BY <1>1 DEF PushedInv
  <2>2. Safe(e) \/ nse.wake = Wake(e, FALSE)
    BY <2>1 DEF DeliveryInv, PushedInv
  <2> QED BY <1>3, <1>6, <2>2 DEF Keeps
<1> QED BY <1>7, <1>8, <1>9, <1>10, <1>11 DEF DeliveryInv
-----------------------------------------------------------------------------
(* The application in the foreground, and the world. *)

\* Steps that concern neither runs nor the inbox.
LEMMA AsideHolds ==
    ASSUME DeliveryInv,
           UNCHANGED <<pushes, run, nse, inbox, notices, in_flight, retry_attempts,
                       closed, event, invoice, server>>,
           app' \in BOOLEAN, paid' \subseteq EventIds,
           lease' \in [EventIds -> Runs \cup {"none", "orphan"}],
           \A e \in EventIds : lease'[e] \in {lease[e], "none"}
    PROVE  DeliveryInv'
<1>1. Keeps
  BY QuietKeeps
<1>2. DeliveryTypeOK' /\ InboxOnce'
  <2>1. DeliveryTypeOK'
    BY DEF DeliveryInv, DeliveryTypeOK
  <2>2. InboxOnce'
    BY DEF DeliveryInv, InboxOnce, Entries
  <2> QED BY <2>1, <2>2
<1>3. AppInv' /\ ResultsInv' /\ ProcessedInv'
  <2>1. \A r \in Runs : run'[r].pc # "idle" => Continues(r)
    BY DEF Continues
  <2>2. \A e \in EventIds : run'[e].pc # "idle" => e \in in_flight'
    BY DEF DeliveryInv, AppInv
  <2> QED BY <1>1, <2>1, <2>2, RunsKept
<1>4. LeaseInv'
  <2>1. \A e \in EventIds : Handing(e) => Handing(e)'
    BY DEF Handing, Wake
  <2> QED BY <1>1, <2>1, LeasesKept
<1>5. NotificationInv' /\ ExtInv' /\ HandedInv' /\ PushedInv'
  BY <1>1, ExtensionQuiet
<1> QED BY <1>2, <1>3, <1>4, <1>5 DEF DeliveryInv

LEMMA WorldHolds ==
    ASSUME DeliveryInv,
           Foreground \/ \E e \in EventIds : ClientPays(e) \/ LeaseExpires(e)
    PROVE  DeliveryInv'
<1>1. /\ lease \in [EventIds -> Runs \cup {"none", "orphan"}]
      /\ app \in BOOLEAN /\ paid \subseteq EventIds
  BY DEF DeliveryInv, DeliveryTypeOK
<1>2. CASE Foreground
  BY <1>1, <1>2, AsideHolds DEF Foreground, ledgerVars
<1>3. ASSUME NEW e \in EventIds, ClientPays(e) PROVE DeliveryInv'
  BY <1>1, <1>3, AsideHolds DEF ClientPays, ledgerVars, hostVars
<1>4. ASSUME NEW e \in EventIds, LeaseExpires(e) PROVE DeliveryInv'
  BY <1>1, <1>4, AsideHolds DEF LeaseExpires, hostVars
<1> QED BY <1>2, <1>3, <1>4

LEMMA AppDiesHolds ==
    ASSUME DeliveryInv, AppDies
    PROVE  DeliveryInv'
<1>1. /\ app' = FALSE /\ in_flight' = {} /\ retry_attempts' = [e \in EventIds |-> 0]
      /\ run' = [r \in Runs |-> IF r \in EventIds THEN NoRun ELSE run[r]]
      /\ Orphaned(EventIds)
      /\ UNCHANGED <<pushes, nse, inbox, notices, closed, event, invoice, paid, server>>
  BY DEF AppDies
<1>2. Keeps
  BY <1>1, QuietKeeps
<1>3. /\ run'["ext"] = run["ext"] /\ \A e \in EventIds : run'[e].pc = "idle"
      /\ run' \in [Runs -> {NoRun} \cup RunRecords]
  <2>1. run \in [Runs -> {NoRun} \cup RunRecords] /\ NoRun.pc = "idle"
    BY DEF DeliveryInv, DeliveryTypeOK, RunRecords, NoRun
  <2> QED BY <1>1, <2>1, NamesDiffer
<1>4. /\ lease' \in [EventIds -> Runs \cup {"none", "orphan"}]
      /\ \A e \in EventIds : lease'[e] = IF lease[e] \in EventIds THEN "orphan" ELSE lease[e]
  BY <1>1 DEF Orphaned, DeliveryInv, DeliveryTypeOK
<1>5. DeliveryTypeOK'
  <2>1. retry_attempts' \in [EventIds -> 0 .. MaximumRetryAttempts]
    BY <1>1, DeliveryAssumption
  <2> QED BY <1>1, <1>3, <1>4, <2>1 DEF DeliveryInv, DeliveryTypeOK, RunRecords
<1>6. InboxOnce'
  BY <1>1 DEF DeliveryInv, InboxOnce, Entries
<1>7. AppInv' /\ ResultsInv' /\ ProcessedInv'
  <2>1. \A r \in Runs : run'[r].pc # "idle" => Continues(r)
    BY <1>3 DEF Continues, Runs
  <2> QED BY <1>1, <1>2, <1>3, <2>1, RunsKept
<1>8. LeaseInv'
  <2>1. \A e \in EventIds : Handing(e) => Handing(e)'
    BY <1>3 DEF Handing, Wake
  <2>2. ASSUME NEW e \in EventIds, lease[e] \in EventIds
        PROVE  Safe(e)'
    <3>1. run[lease[e]].pc = "work" /\ run[lease[e]].wake.event = e
      BY <2>2, NamesDiffer DEF DeliveryInv, LeaseInv, EventOf
    <3>2. ~run[lease[e]].wake.settlement
      BY <2>2, <3>1, NamesDiffer DEF DeliveryInv, ResultsInv
    <3>3. lease[e] = e /\ Safe(e)
      BY <2>2, <3>1, <3>2 DEF DeliveryInv, AppInv
    <3> QED BY <1>2, <3>3 DEF Keeps
  <2>3. \A e \in EventIds : lease[e] \in Runs /\ lease[e] \notin EventIds =>
           run'[lease[e]] = run[lease[e]]
    BY <1>3 DEF Runs
  <2> QED BY <1>2, <1>4, <2>1, <2>2, <2>3, LeasesKept
<1>9. NotificationInv' /\ ExtInv' /\ HandedInv' /\ PushedInv'
  BY <1>1, <1>2, <1>3, ExtensionQuiet
<1> QED BY <1>5, <1>6, <1>7, <1>8, <1>9 DEF DeliveryInv

LEMMA OpenNoticeHolds ==
    ASSUME DeliveryInv, NEW wake \in Wakes, OpenNotice(wake)
    PROVE  DeliveryInv'
<1>1. /\ notices' = notices \ {wake} /\ Enqueue(wake)
      /\ UNCHANGED <<pushes, run, nse, app, in_flight, retry_attempts, ledgerVars, paid, server>>
  BY DEF OpenNotice
<1>2. UNCHANGED <<event, lease, invoice>>
  BY <1>1 DEF ledgerVars
<1>3. /\ Keeps /\ InboxOnce'
      /\ inbox' \in Seq(Wakes) /\ Len(inbox') <= MaxPendingRequests
      /\ closed' \in [EventIds ->
            SUBSET {"replaced", "evicted", "exhausted", "rejected", "owned elsewhere"}]
  BY <1>1, <1>2, EnqueueKeeps
<1>4. DeliveryTypeOK'
  <2>1. notices' \subseteq Wakes
    BY <1>1 DEF DeliveryInv, DeliveryTypeOK
  <2> QED BY <1>1, <1>2, <1>3, <2>1 DEF DeliveryInv, DeliveryTypeOK
<1>5. AppInv' /\ ResultsInv' /\ ProcessedInv'
  <2>1. \A r \in Runs : run'[r].pc # "idle" => Continues(r)
    BY <1>1 DEF Continues
  <2>2. \A e \in EventIds : run'[e].pc # "idle" => e \in in_flight'
    BY <1>1 DEF DeliveryInv, AppInv
  <2> QED BY <1>2, <1>3, <2>1, <2>2, RunsKept
<1>6. LeaseInv'
  <2>1. \A e \in EventIds : Handing(e) => Handing(e)'
    BY <1>1 DEF Handing, Wake
  <2> QED BY <1>1, <1>2, <1>3, <2>1, LeasesKept
<1>7. NotificationInv' /\ ExtInv' /\ HandedInv' /\ PushedInv'
  BY <1>1, <1>3, ExtensionQuiet
<1> QED BY <1>3, <1>4, <1>5, <1>6, <1>7 DEF DeliveryInv

\* A step of the task of e that neither starts nor ends work on a claim.
LEMMA TaskHolds ==
    ASSUME DeliveryInv, Keeps, DeliveryTypeOK', InboxOnce', NEW e \in EventIds,
           NEW rec, run' = [run EXCEPT ![e] = rec], run[e].pc # "work",
           rec.pc # "idle" => (Continues(e) \/ Begins(e)) /\ e \in in_flight',
           in_flight \ {e} \subseteq in_flight',
           UNCHANGED <<pushes, nse, event, lease>>
    PROVE  DeliveryInv'
<1>1. run'[e] = rec /\ \A r \in Runs : r # e => run'[r] = run[r]
  <2>1. run \in [Runs -> {NoRun} \cup RunRecords] /\ e \in Runs
    BY NamesDiffer DEF DeliveryInv, DeliveryTypeOK, RunRecords
  <2> QED BY <2>1
<1>2. run'["ext"] = run["ext"]
  BY <1>1, NamesDiffer
<1>3. AppInv' /\ ResultsInv' /\ ProcessedInv'
  <2>1. ASSUME NEW r \in Runs, run'[r].pc # "idle" PROVE Continues(r) \/ Begins(r)
    <3>1. CASE r = e
      BY <1>1, <2>1, <3>1
    <3>2. CASE r # e
      BY <1>1, <2>1, <3>2 DEF Continues
    <3> QED BY <3>1, <3>2
  <2>2. ASSUME NEW x \in EventIds, run'[x].pc # "idle" PROVE x \in in_flight'
    <3>1. CASE x = e
      BY <1>1, <2>2, <3>1
    <3>2. CASE x # e
      <4>1. run[x].pc # "idle"
        BY <1>1, <2>2, <3>2, NamesDiffer
      <4>2. x \in in_flight
        BY <4>1 DEF DeliveryInv, AppInv
      <4> QED BY <3>2, <4>2
    <3> QED BY <3>1, <3>2
  <2> QED BY <2>1, <2>2, RunsKept
<1>4. LeaseInv'
  <2>1. \A x \in EventIds : Handing(x) => Handing(x)'
    BY <1>2 DEF Handing, Wake
  <2>2. \A x \in EventIds : lease[x] \in Runs => run'[lease[x]] = run[lease[x]]
    BY <1>1 DEF DeliveryInv, LeaseInv
  <2> QED BY <2>1, <2>2, LeasesKept
<1>5. NotificationInv' /\ ExtInv' /\ HandedInv' /\ PushedInv'
  BY <1>2, ExtensionQuiet
<1> QED BY <1>3, <1>4, <1>5 DEF DeliveryInv

\* The type of run after one task changed.
LEMMA TaskTyped ==
    ASSUME DeliveryInv, NEW e \in EventIds, NEW rec \in {NoRun} \cup RunRecords,
           run' = [run EXCEPT ![e] = rec],
           inbox' \in Seq(Wakes), Len(inbox') <= MaxPendingRequests,
           in_flight' \subseteq EventIds,
           retry_attempts' \in [EventIds -> 0 .. MaximumRetryAttempts],
           closed' \in [EventIds ->
              SUBSET {"replaced", "evicted", "exhausted", "rejected", "owned elsewhere"}],
           UNCHANGED <<pushes, nse, notices, app, event, lease, invoice, paid, server>>
    PROVE  DeliveryTypeOK'
<1>1. run' \in [Runs -> {NoRun} \cup RunRecords]
  BY NamesDiffer DEF DeliveryInv, DeliveryTypeOK, RunRecords
<1> QED BY <1>1 DEF DeliveryInv, DeliveryTypeOK, RunRecords

LEMMA DrainHolds ==
    ASSUME DeliveryInv, NEW e \in EventIds, Drain(e)
    PROVE  DeliveryInv'
<1>1. /\ e \notin in_flight /\ in_flight' = in_flight \cup {e}
      /\ UNCHANGED <<pushes, nse, inbox, notices, app, retry_attempts, closed,
                     ledgerVars, paid, server>>
  BY DEF Drain
<1>2. UNCHANGED <<event, lease, invoice>>
  BY <1>1 DEF ledgerVars
<1>3. PICK wake \in InInbox(e) : run' = [run EXCEPT ![e] = Begin(wake)]
  BY DEF Drain
<1>4. wake \in Wakes
  <2>1. inbox \in Seq(Wakes)
    BY DEF DeliveryInv, DeliveryTypeOK
  <2>2. PICK i \in 1 .. Len(inbox) : wake = inbox[i]
    BY <1>3 DEF InInbox
  <2> QED BY <2>1, <2>2
<1>5. Begin(wake) \in RunRecords
  BY <1>4 DEF Begin, RunRecords, States, Results
<1>6. Keeps
  BY <1>1, <1>2, QuietKeeps
<1>7. run[e].pc = "idle"
  BY <1>1 DEF DeliveryInv, AppInv
<1>8. run'[e] = Begin(wake)
  BY <1>3, NamesDiffer DEF DeliveryInv, DeliveryTypeOK
<1>9. Begins(e)
  BY <1>3, <1>4, <1>8 DEF Begins
<1>10. InboxOnce'
  BY <1>1 DEF DeliveryInv, InboxOnce, Entries
<1>11. DeliveryTypeOK'
  <2>1. /\ in_flight' \subseteq EventIds
        /\ inbox' \in Seq(Wakes) /\ Len(inbox') <= MaxPendingRequests
        /\ retry_attempts' \in [EventIds -> 0 .. MaximumRetryAttempts]
        /\ closed' \in [EventIds ->
              SUBSET {"replaced", "evicted", "exhausted", "rejected", "owned elsewhere"}]
    BY <1>1 DEF DeliveryInv, DeliveryTypeOK
  <2> QED BY <1>1, <1>2, <1>3, <1>5, <2>1, TaskTyped
<1>12. in_flight \ {e} \subseteq in_flight' /\ e \in in_flight'
  BY <1>1
<1> QED BY <1>1, <1>2, <1>3, <1>6, <1>7, <1>9, <1>10, <1>11, <1>12, TaskHolds

LEMMA RetryDueHolds ==
    ASSUME DeliveryInv, NEW e \in EventIds, RetryDue(e)
    PROVE  DeliveryInv'
<1>1. /\ run[e].pc = "waiting" /\ in_flight' = in_flight \ {e}
      /\ run' = [run EXCEPT ![e] = NoRun]
      /\ UNCHANGED <<pushes, nse, inbox, notices, app, retry_attempts, closed,
                     ledgerVars, paid, server>>
  BY DEF RetryDue, At
<1>2. UNCHANGED <<event, lease, invoice>> /\ NoRun.pc = "idle"
  BY <1>1 DEF ledgerVars, NoRun
<1>3. Keeps
  BY <1>1, <1>2, QuietKeeps
<1>4. InboxOnce'
  BY <1>1 DEF DeliveryInv, InboxOnce, Entries
<1>5. DeliveryTypeOK'
  <2>1. /\ in_flight' \subseteq EventIds
        /\ inbox' \in Seq(Wakes) /\ Len(inbox') <= MaxPendingRequests
        /\ retry_attempts' \in [EventIds -> 0 .. MaximumRetryAttempts]
        /\ closed' \in [EventIds ->
              SUBSET {"replaced", "evicted", "exhausted", "rejected", "owned elsewhere"}]
    BY <1>1 DEF DeliveryInv, DeliveryTypeOK
  <2> QED BY <1>1, <1>2, <2>1, TaskTyped
<1> QED BY <1>1, <1>2, <1>3, <1>4, <1>5, TaskHolds

\* finish removes the event's entry: with a reason, or once it is terminal.
LEMMA FinishedHolds ==
    ASSUME DeliveryInv, NEW e \in EventIds, run[e].pc = "result",
           NEW why, why \subseteq {"replaced", "evicted", "exhausted", "rejected", "owned elsewhere"},
           Finished(e, why), why = {} => event[e] = "terminal",
           UNCHANGED <<pushes, nse, notices, app, event, lease, invoice, paid, server>>
    PROVE  DeliveryInv'
<1>1. /\ in_flight' = in_flight \ {e}
      /\ retry_attempts' = [retry_attempts EXCEPT ![e] = 0]
      /\ inbox' = Without(inbox, e)
      /\ run' = [run EXCEPT ![e] = NoRun] /\ NoRun.pc = "idle"
      /\ closed' = IF Wake(e, FALSE) \in InInbox(e)
                     THEN [closed EXCEPT ![e] = @ \cup why] ELSE closed
  BY DEF Finished, NoRun
<1>2. /\ inbox \in Seq(Wakes) /\ Len(inbox) <= MaxPendingRequests
      /\ retry_attempts \in [EventIds -> 0 .. MaximumRetryAttempts]
      /\ closed \in [EventIds ->
            SUBSET {"replaced", "evicted", "exhausted", "rejected", "owned elsewhere"}]
      /\ in_flight \subseteq EventIds
  BY DEF DeliveryInv, DeliveryTypeOK
<1>3. /\ inbox' \in Seq(Wakes) /\ Len(inbox') <= Len(inbox)
      /\ Entries(inbox') = {w \in Entries(inbox) : w.event # e}
  BY <1>1, <1>2, WithoutKeepsOthers
<1>4. Len(inbox') <= MaxPendingRequests
  <2>1. /\ inbox \in Seq(Wakes) /\ inbox' \in Seq(Wakes)
        /\ Len(inbox') <= Len(inbox) /\ Len(inbox) <= MaxPendingRequests
    BY <1>2, <1>3
  <2> QED BY ONLY <2>1, DeliveryAssumption
<1>5. /\ closed' \in [EventIds ->
            SUBSET {"replaced", "evicted", "exhausted", "rejected", "owned elsewhere"}]
      /\ \A x \in EventIds : closed[x] \subseteq closed'[x]
      /\ Wake(e, FALSE) \in InInbox(e) => closed'[e] = closed[e] \cup why
  BY <1>1, <1>2
<1>6. Keeps
  <2>1. SUFFICES ASSUME NEW x \in EventIds, Safe(x) PROVE Safe(x)'
    BY DEF Keeps
  <2>2. CASE Wake(x, FALSE) \in InInbox(x) /\ x # e
    <3>1. Wake(x, FALSE) \in Entries(inbox) /\ Wake(x, FALSE).event = x
      BY <2>2 DEF InInbox, Entries, Wake
    <3>2. Wake(x, FALSE) \in Entries(inbox')
      BY <1>3, <2>2, <3>1
    <3> QED BY <3>1, <3>2 DEF Safe, InInbox, Entries, Wake
  <2>3. CASE Wake(x, FALSE) \in InInbox(x) /\ x = e
    <3>1. event'[e] = "terminal" \/ closed'[e] # {}
      BY <1>5, <2>3
    <3> QED BY <2>3, <3>1 DEF Safe
  <2>4. CASE Wake(x, FALSE) \in notices
    BY <2>4 DEF Safe, Wake
  <2> QED BY <1>5, <2>1, <2>2, <2>3, <2>4, SafeStays
<1>7. InboxOnce'
  <2>1. \A w, v \in Entries(inbox) : w.event = v.event => w = v
    BY DEF DeliveryInv, InboxOnce
  <2>2. \A w, v \in Entries(inbox') : w.event = v.event => w = v
    BY <1>3, <2>1
  <2> QED BY <2>2 DEF InboxOnce, Entries
<1>8. DeliveryTypeOK'
  <2>1. /\ in_flight' \subseteq EventIds
        /\ retry_attempts' \in [EventIds -> 0 .. MaximumRetryAttempts]
    <3>1. 0 \in 0 .. MaximumRetryAttempts
      BY ONLY DeliveryAssumption
    <3> QED BY <1>1, <1>2, <3>1
  <2> QED BY <1>1, <1>3, <1>4, <1>5, <2>1, TaskTyped
<1> QED BY <1>1, <1>6, <1>7, <1>8, TaskHolds

LEMMA HandleDispositionHolds ==
    ASSUME DeliveryInv, NEW e \in EventIds, HandleDisposition(e)
    PROVE  DeliveryInv'
<1> DEFINE result == Disposition(e)
           reason ==
               IF run[e].wake.settlement THEN {"replaced"}
               ELSE IF result = "rejected" THEN {"rejected"}
               ELSE IF result = "processed" THEN {"owned elsewhere"} ELSE {}
<1>1. /\ run[e].pc = "result" /\ e \in Runs
      /\ UNCHANGED <<pushes, nse, notices, app, ledgerVars, paid, server>>
  BY NamesDiffer DEF HandleDisposition, At
<1>2. UNCHANGED <<event, lease, invoice>>
  BY <1>1 DEF ledgerVars
<1>3. /\ run[e].wake.event = e /\ e \in in_flight
      /\ run[e].result # "none"
      /\ ~run[e].wake.settlement /\ run[e].result = "completed" => event[e] = "terminal"
  BY <1>1 DEF DeliveryInv, AppInv, ResultsInv, Ended, EventOf
<1>4. run[e].result \in Results /\ run[e] \in RunRecords
  BY <1>1, <1>3, RunTyped DEF DeliveryInv, RunRecords
<1>5. result \in Results /\ (result = run[e].result \/ result = "queued")
  BY <1>4 DEF Disposition, Results
<1>6. CASE result \notin {"retry", "queued"}
  <2>1. Finished(e, reason)
    BY <1>6 DEF HandleDisposition
  <2>2. reason = {} => event[e] = "terminal"
    <3>1. result \in {"completed", "processed", "rejected"} /\ result = run[e].result
      BY <1>5, <1>6 DEF Results
    <3> QED BY <1>3, <3>1
  <2>3. reason \subseteq {"replaced", "evicted", "exhausted", "rejected", "owned elsewhere"}
    OBVIOUS
  <2> HIDE DEF reason, result
  <2> QED BY <1>1, <1>2, <2>1, <2>2, <2>3, FinishedHolds
<1>7. CASE /\ result \in {"retry", "queued"}
           /\ retry_attempts[e] >= MaximumRetryAttempts
  <2>1. Finished(e, {"exhausted"})
    BY <1>7 DEF HandleDisposition
  <2> QED BY <1>1, <1>2, <2>1, FinishedHolds
<1>8. CASE /\ result \in {"retry", "queued"}
           /\ ~(retry_attempts[e] >= MaximumRetryAttempts)
  <2>1. /\ retry_attempts' = [retry_attempts EXCEPT ![e] = @ + 1]
        /\ Goto(e, "waiting") /\ UNCHANGED <<in_flight, inbox, closed>>
    BY <1>8 DEF HandleDisposition
  <2> DEFINE rec == Moved(e, "waiting", run[e].result)
  <2>2. "waiting" \in States /\ DeliveryTypeOK
    BY DEF States, DeliveryInv
  <2>3. /\ rec \in RunRecords /\ rec.pc = "waiting" /\ rec.result = run[e].result
        /\ rec.wake = run[e].wake /\ run' = [run EXCEPT ![e] = rec]
    BY <1>1, <1>4, <2>1, <2>2, MovedTyped
  <2>4. run'[e] = rec
    BY <1>1, <2>2, <2>3 DEF DeliveryTypeOK
  <2> HIDE DEF rec
  <2>5. Continues(e)
    BY <1>1, <2>3, <2>4 DEF Continues
  <2>6. Keeps
    BY <1>1, <1>2, <2>1, QuietKeeps
  <2>7. InboxOnce'
    BY <2>1 DEF DeliveryInv, InboxOnce, Entries
  <2>8. DeliveryTypeOK'
    <3>1. /\ retry_attempts \in [EventIds -> 0 .. MaximumRetryAttempts]
          /\ MaximumRetryAttempts \in Nat
      BY DeliveryAssumption DEF DeliveryInv, DeliveryTypeOK
    <3>2. retry_attempts[e] + 1 \in 0 .. MaximumRetryAttempts
      BY <1>8, <3>1
    <3>3. retry_attempts' \in [EventIds -> 0 .. MaximumRetryAttempts]
      BY <2>1, <3>1, <3>2
    <3>4. /\ in_flight' \subseteq EventIds
          /\ inbox' \in Seq(Wakes) /\ Len(inbox') <= MaxPendingRequests
          /\ closed' \in [EventIds ->
                SUBSET {"replaced", "evicted", "exhausted", "rejected", "owned elsewhere"}]
      BY <2>1 DEF DeliveryInv, DeliveryTypeOK
    <3> QED BY <1>1, <1>2, <2>3, <3>3, <3>4, TaskTyped
  <2>9. in_flight \ {e} \subseteq in_flight' /\ e \in in_flight'
    BY <1>3, <2>1
  <2> QED BY <1>1, <1>2, <2>3, <2>5, <2>6, <2>7, <2>8, <2>9, TaskHolds
<1> QED BY <1>6, <1>7, <1>8
-----------------------------------------------------------------------------
(* The theorems. *)

\* The invariant holds in every behaviour.
THEOREM DeliveryInvariant == DeliverySpec => []DeliveryInv
<1>1. DeliveryInit => DeliveryInv
  <2>1. SUFFICES ASSUME DeliveryInit PROVE DeliveryInv
    OBVIOUS
  <2>2. /\ \A r \in Runs : run[r] = NoRun
        /\ NoRun.pc = "idle" /\ "ext" \in Runs /\ EventIds \subseteq Runs
        /\ nse = NoNotification /\ inbox = <<>>
        /\ \A e \in EventIds : lease[e] = "none" /\ pushes[e] = 0
    BY <2>1 DEF DeliveryInit, NoRun, Runs
  <2>3. DeliveryTypeOK
    <3>1. 0 \in 0 .. MaximumRetryAttempts /\ 0 <= MaxPendingRequests
      BY DeliveryAssumption
    <3>2. <<>> \in Seq(Wakes) /\ Len(<<>>) = 0
      OBVIOUS
    <3>3. /\ pushes \in [EventIds -> Nat]
          /\ retry_attempts \in [EventIds -> 0 .. MaximumRetryAttempts]
          /\ inbox \in Seq(Wakes) /\ Len(inbox) <= MaxPendingRequests
      BY <2>1, <3>1, <3>2 DEF DeliveryInit
    <3>4. run \in [Runs -> {NoRun} \cup RunRecords]
      BY <2>1 DEF DeliveryInit
    <3> QED BY <2>1, <3>3, <3>4 DEF DeliveryInit, DeliveryTypeOK, RunRecords
  <2>4. InboxOnce
    BY <2>2 DEF InboxOnce, Entries
  <2>5. NotificationInv /\ ExtInv /\ AppInv /\ ResultsInv /\ ProcessedInv /\ HandedInv
    BY <2>2 DEF NotificationInv, ExtInv, AppInv, ResultsInv, ProcessedInv, HandedInv
  <2>6. LeaseInv /\ PushedInv
    BY <2>2, NamesDiffer DEF LeaseInv, PushedInv
  <2> QED BY <2>3, <2>4, <2>5, <2>6 DEF DeliveryInv
<1>2. DeliveryInv /\ [DeliveryNext]_deliveryVars => DeliveryInv'
  <2>1. SUFFICES ASSUME DeliveryInv, [DeliveryNext]_deliveryVars PROVE DeliveryInv'
    OBVIOUS
  <2>2. ASSUME NEW r \in Runs, HandleWake(r) \/ Deadline(r) PROVE DeliveryInv'
    BY <2>1, <2>2, HandleWakeHolds
  <2>3. ASSUME NEW e \in EventIds, NEW settlement \in BOOLEAN,
               DidReceive(Wake(e, settlement)) \/ OpenNotice(Wake(e, settlement))
        PROVE  DeliveryInv'
    <3>1. Wake(e, settlement) \in Wakes
      BY DEF Wake, Wakes
    <3> QED BY <2>1, <2>3, <3>1, DidReceiveHolds, OpenNoticeHolds
  <2>4. CASE Start \/ TimeWillExpire \/ HandOver \/ Finish \/ Shown \/ Killed
    BY <2>1, <2>4, StartHolds, TimeWillExpireHolds, HandOverHolds, FinishHolds, ShownHolds,
       KilledHolds
  <2>5. CASE AppDies
    BY <2>1, <2>5, AppDiesHolds
  <2>6. ASSUME NEW e \in EventIds, Drain(e) \/ HandleDisposition(e) \/ RetryDue(e)
        PROVE  DeliveryInv'
    BY <2>1, <2>6, DrainHolds, HandleDispositionHolds, RetryDueHolds
  <2>7. CASE Foreground \/ \E e \in EventIds : ClientPays(e) \/ LeaseExpires(e)
    BY <2>1, <2>7, WorldHolds
  <2>8. CASE UNCHANGED deliveryVars
    <3>1. /\ UNCHANGED <<pushes, run, nse, inbox, notices, app, in_flight, retry_attempts,
                         closed, event, lease, invoice, paid, server>>
      BY <2>8 DEF deliveryVars, hostVars, ledgerVars
    <3>2. /\ app \in BOOLEAN /\ paid \subseteq EventIds
          /\ lease \in [EventIds -> Runs \cup {"none", "orphan"}]
      BY <2>1 DEF DeliveryInv, DeliveryTypeOK
    <3> QED BY <2>1, <3>1, <3>2, AsideHolds
  <2> QED BY <2>1, <2>2, <2>3, <2>4, <2>5, <2>6, <2>7, <2>8 DEF DeliveryNext
<1> QED BY <1>1, <1>2, PTL DEF DeliverySpec

\* The queue file stays within its limit, no event is tried more often than
\* ForegroundWakePolicy allows, and every variable keeps its type.
THEOREM DeliveryTypeCorrect == DeliverySpec => []DeliveryTypeOK
<1>1. DeliveryInv => DeliveryTypeOK
  BY DEF DeliveryInv
<1> QED BY <1>1, DeliveryInvariant, PTL

\* NwcNotificationCoordinator calls the content handler exactly once for every
\* notification, however finish, timeWillExpire and a late start race.
THEOREM ContentOnce == DeliverySpec => []ContentDeliveredOnce
<1>1. DeliveryInv => ContentDeliveredOnce
  <2>1. SUFFICES ASSUME DeliveryInv, nse # NoNotification
                 PROVE  /\ Len(nse.content) <= 1
                        /\ nse.started /\ nse.state = "finished" => Len(nse.content) = 1
    BY DEF ContentDeliveredOnce
  <2>2. Len(nse.content) = IF nse.started /\ nse.state = "finished" THEN 1 ELSE 0
    BY <2>1 DEF DeliveryInv, NotificationInv
  <2> QED BY <2>2
<1> QED BY <1>1, DeliveryInvariant, PTL

\* No request that reached the device is forgotten, whatever is killed, cut off
\* or raced, but for the exceptions closed names.
THEOREM NothingForgotten == DeliverySpec => []WakeNotForgotten
<1>1. DeliveryInv => WakeNotForgotten
  BY DEF DeliveryInv, PushedInv, Safe, WakeNotForgotten, Kept
<1> QED BY <1>1, DeliveryInvariant, PTL
=============================================================================
